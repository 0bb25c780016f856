------------------------- MODULE CronServiceProofs --------------------------
(***************************************************************************)
(* That the scheduler does not die, that no marker is left behind and that *)
(* a one-shot runs once, for every set of jobs and schedules and every     *)
(* number of restarts.                                                     *)
(***************************************************************************)
EXTENDS CronService, WellFoundedInduction, TLAPS

(***************************************************************************)
(* The jobs of a store.  An enabled job without a next time is one that no *)
(* recomputation gives a time: a one-shot that has ended well, or a job    *)
(* with an expression that does not parse.                                 *)
(***************************************************************************)
GoodJob(j, job) ==
    /\ job \in Job
    /\ job.broken => j \notin OneShot
    /\ job.enabled /\ job.next = None => job.broken \/ (j \in OneShot /\ job.last = "ok")

GoodStore(jobs) ==
    /\ jobs = [j \in DOMAIN jobs |-> jobs[j]]
    /\ DOMAIN jobs \subseteq Jobs
    /\ \A j \in DOMAIN jobs : GoodJob(j, jobs[j])

Result == [status : Statuses, endedAt : Nat]
Tick == [pc : {"idle", "lock", "exec", "apply"}, todo : SUBSET Jobs,
         done : UNION {[D -> Result] : D \in SUBSET Jobs}]

Types ==
    /\ now \in 0 .. MaxNow
    /\ GoodStore(file)
    /\ store = [s \in Services |-> store[s]] /\ \A s \in Services : GoodStore(store[s])
    /\ loaded \subseteq Services
    /\ timer \in [Services -> Time]
    /\ tick \in [Services -> Tick]
    /\ holder \in 0 .. MaxServices
    /\ held \subseteq Jobs
    /\ gen \in Services /\ client \in Services
    /\ fresh \subseteq Jobs /\ settled \subseteq OneShot \ fresh /\ touched \subseteq OneShot
    /\ shared \in BOOLEAN
    /\ ops \in 0 .. MaxOps
    /\ failures \in 0 .. MaxFailures /\ failed \in [Services -> Failed] /\ orphans \subseteq Jobs

(***************************************************************************)
(* Jobs are held exactly while a service holds the lock, and only services *)
(* started so far have done anything.  A tick has jobs to run while it     *)
(* runs jobs, and none of them or of their results before and after.       *)
(***************************************************************************)
TickShape(t) ==
    /\ t.pc = "exec" <=> t.todo # {}
    /\ t.pc \in {"idle", "lock"} => DOMAIN t.done = {}

Unborn(s) == s \notin loaded /\ timer[s] = None /\ tick[s].pc = "idle" /\ failed[s] = "no"

Shape ==
    /\ (holder # 0 <=> held # {}) /\ (holder # 0 => holder \in loaded)
    /\ holder <= gen /\ client <= gen
    /\ \A s \in Services : TickShape(tick[s]) /\ (s > gen => Unborn(s))

(***************************************************************************)
(* Does a service that has these jobs wait for one?                        *)
(***************************************************************************)
HasWake(jobs) == \E j \in DOMAIN jobs : jobs[j].enabled /\ jobs[j].next # None

Alive ==
    gen \in loaded /\ holder # gen /\ HasWake(store[gen]) =>
        timer[gen] # None \/ tick[gen].pc # "idle" \/ failed[gen] = "unarmed"

AliveInv == Types /\ Shape /\ Alive

(***************************************************************************)
(* Until a process has replaced its service, the service started last is   *)
(* the only one at work.                                                   *)
(***************************************************************************)
Sole ==
    ~shared => /\ client = gen /\ holder \in {0, gen} /\ loaded \subseteq {gen}
               /\ \A s \in Services : s # gen => timer[s] = None /\ tick[s].pc = "idle"
               /\ gen \notin loaded => timer[gen] = None /\ tick[gen].pc = "idle" /\ holder = 0

Running(jobs) == {j \in DOMAIN jobs : jobs[j].running # None}
InTick(t) == t.todo \cup DOMAIN t.done

(***************************************************************************)
(* A marker in memory is that of a job the tick has to run or has run, or  *)
(* of the one that runs under the lock, or one that a failed section has   *)
(* left; on disk it is out of date while the lock is held, and else no     *)
(* different, even if start has failed to load the store.                  *)
(***************************************************************************)
MarkersOwned ==
    ~shared =>
        /\ gen \in loaded =>
              Running(store[gen]) \subseteq
                  InTick(tick[gen]) \cup orphans \cup (IF holder = gen THEN {Min(held)} ELSE {})
        /\ (gen \in loaded \/ failed[gen] = "unarmed") /\ holder # gen =>
              Running(file) \subseteq InTick(tick[gen]) \cup orphans

(***************************************************************************)
(* A one-shot that no client touched is disabled once it has ended, and    *)
(* one whose end was saved cannot become due again.                        *)
(***************************************************************************)
EndIsEnd(jobs, seen, known) ==
    \A j \in (OneShot \cap DOMAIN jobs) \ seen :
        jobs[j].last # "never" \/ j \in known => ~jobs[j].enabled

EndsStay ==
    ~shared => /\ EndIsEnd(file, touched, settled)
               /\ gen \in loaded => EndIsEnd(store[gen], touched, settled)

IInv == AliveInv /\ Sole /\ MarkersOwned /\ EndsStay

-----------------------------------------------------------------------------
(***************************************************************************)
(* A set of numbers has a least element, which Min chooses.                *)
(***************************************************************************)
LEMMA MinOfNats ==
  ASSUME NEW S \in SUBSET Nat, S # {}
  PROVE  Min(S) \in S /\ Min(S) \in Nat
  <1> DEFINE R == OpToRel(<, Nat)
  <1>1. \A x, y \in Nat : x < y => <<x, y>> \in R
    BY DEF OpToRel
  <1>2. IsWellFoundedOn(R, Nat)
    BY NatLessThanWellFounded
  <1> HIDE DEF R
  <1>3. PICK x \in S : \A y \in S : ~(<<y, x>> \in R)
    BY <1>2, WFMin
  <1>4. \A y \in S : ~(y < x)
    BY <1>1, <1>3
  <1>5. \A y \in S : x <= y
    BY <1>4
  <1> QED
    BY <1>5 DEF Min

(***************************************************************************)
(* The lesser of two numbers, where Min chooses.                           *)
(***************************************************************************)
LEMMA MinOfTwo ==
  ASSUME NEW a \in Nat, NEW b \in Nat
  PROVE  Min({a, b}) = IF a <= b THEN a ELSE b
  BY DEF Min

(***************************************************************************)
(* The same for the greater of two numbers.                                *)
(***************************************************************************)
LEMMA MaxOfTwo ==
  ASSUME NEW a \in Nat, NEW b \in Nat
  PROVE  Max({a, b}) = IF a <= b THEN b ELSE a
  BY DEF Max

(***************************************************************************)
(* The wake time of a service is None exactly if it waits for no job.      *)
(***************************************************************************)
LEMMA WakeTimeIsSet ==
  ASSUME NEW jobs, GoodStore(jobs), now \in Nat
  PROVE  WakeTime(jobs) \in Time /\ (WakeTime(jobs) # None <=> HasWake(jobs))
  <1> DEFINE wakes == {jobs[j].next : j \in {i \in DOMAIN jobs : jobs[i].enabled}} \ {None}
  <1>1. wakes \in SUBSET Nat
    BY DEF GoodStore, GoodJob, Job, Time
  <1>2. wakes # {} <=> HasWake(jobs)
    BY DEF HasWake
  <1>3. WakeTime(jobs) = IF wakes = {} THEN None ELSE Min({Max({Min(wakes), now}), now + 1})
    BY DEF WakeTime
  <1> HIDE DEF wakes
  <1>4. CASE wakes = {}
    BY <1>2, <1>3, <1>4 DEF Time
  <1>5. CASE wakes # {}
    <2>1. Min(wakes) \in Nat
      BY <1>1, <1>5, MinOfNats
    <2>2. Max({Min(wakes), now}) \in Nat
      BY <2>1, MaxOfTwo
    <2>3. now + 1 \in Nat
      OBVIOUS
    <2>4. Min({Max({Min(wakes), now}), now + 1}) \in Nat
      BY <2>2, <2>3, MinOfTwo
    <2> QED
      BY <1>2, <1>3, <1>5, <2>4 DEF Time, None
  <1> QED
    BY <1>4, <1>5

(***************************************************************************)
(* computeJobNextRunAtMs gives every enabled job a time, but for a one-shot *)
(* that has ended well.                                                    *)
(***************************************************************************)
LEMMA ComputeNextGood ==
  ASSUME NEW j \in Jobs, NEW job, job.enabled \in BOOLEAN, NEW t \in Nat
  PROVE  /\ ComputeNext(j, job, t) \in Time
         /\ job.enabled /\ ComputeNext(j, job, t) = None => j \in OneShot /\ job.last = "ok"
         /\ j \in OneShot /\ job.last = "ok" => ComputeNext(j, job, t) = None
         /\ ~job.enabled => ComputeNext(j, job, t) = None
         /\ job.enabled /\ j \notin OneShot => ComputeNext(j, job, t) \in Nat
  <1>1. (t \div Period + 1) * Period \in Nat
    <2>1. t \div Period + 1 \in Nat /\ Period \in Nat
      BY CronAssumption
    <2> DEFINE q == t \div Period + 1
    <2> HIDE DEF q
    <2>2. q \in Nat => q * Period \in Nat
      BY <2>1
    <2> QED
      BY <2>1, <2>2 DEF q
  <1>2. \A i \in OneShot : At[i] \in Nat
    BY CronAssumption
  <1> DEFINE n == (t \div Period + 1) * Period
  <1>3. /\ ComputeNext(j, job, t) = IF ~job.enabled \/ (j \in OneShot /\ job.last = "ok") THEN None
                                    ELSE IF j \in OneShot THEN At[j] ELSE n
        /\ n \in Nat
    BY <1>1 DEF ComputeNext
  <1> HIDE DEF n
  <1> QED
    BY <1>2, <1>3 DEF Time, None

(***************************************************************************)
(* A new job has its first time.                                           *)
(***************************************************************************)
LEMMA NewJobGood ==
  ASSUME NEW j \in Jobs, NEW enabled \in BOOLEAN, now \in Nat
  PROVE  /\ GoodJob(j, NewJob(j, enabled)) /\ NewJob(j, enabled).running = None
         /\ NewJob(j, enabled).last = "never"
  <1> DEFINE job == [enabled |-> enabled, next |-> None, running |-> None, last |-> "never",
                     errors |-> 0, broken |-> FALSE, scheduleErrors |-> 0]
             next == ComputeNext(j, job, now)
  <1>1. /\ next \in Time
        /\ job.enabled /\ next = None => j \in OneShot /\ job.last = "ok"
    BY ComputeNextGood
  <1>2. NewJob(j, enabled) = [job EXCEPT !.next = next]
    BY DEF NewJob
  <1> HIDE DEF next
  <1>3. Len(Backoff) \in Nat /\ MaxScheduleErrors \in Nat
    BY CronAssumption
  <1>4. job.enabled = enabled /\ job.last = "never"
    OBVIOUS
  <1>5. NewJob(j, enabled) = [enabled |-> enabled, next |-> next, running |-> None, last |-> "never",
                              errors |-> 0, broken |-> FALSE, scheduleErrors |-> 0]
    BY <1>2
  <1> HIDE DEF job
  <1>6. 0 \in 0 .. Len(Backoff) /\ 0 \in 0 .. MaxScheduleErrors /\ None \in Time
    BY <1>3 DEF Time
  <1>7. NewJob(j, enabled) \in Job
    BY <1>1, <1>5, <1>6 DEF Job
  <1> QED
    BY <1>1, <1>4, <1>5, <1>7 DEF GoodJob

(***************************************************************************)
(* What the maintenance of the store does to a job.                        *)
(***************************************************************************)
LEMMA NormalizeGood ==
  ASSUME NEW j, NEW job, GoodJob(j, job)
  PROVE  /\ GoodJob(j, Normalize(job))
         /\ Normalize(job).running # None => job.running # None
         /\ Normalize(job).enabled = job.enabled
         /\ Normalize(job).last = job.last
         /\ Normalize(job).broken = job.broken
         /\ job.enabled => Normalize(job).next = job.next
  <1>1. CASE Normalize(job) = [job EXCEPT !.next = None, !.running = None] /\ ~job.enabled
    BY <1>1 DEF GoodJob, Job, Time
  <1>2. CASE Normalize(job) = [job EXCEPT !.running = None]
    BY <1>2 DEF GoodJob, Job, Time
  <1>3. CASE Normalize(job) = job
    BY <1>3
  <1> QED
    BY <1>1, <1>2, <1>3 DEF Normalize

(***************************************************************************)
(* A job whose time is computed has one, or is a one-shot that has ended   *)
(* well, or has a schedule that fails, which may end in its being disabled.*)
(***************************************************************************)
LEMMA RecomputeJobGood ==
  ASSUME NEW j \in Jobs, NEW job, GoodJob(j, job), job.enabled, now \in Nat
  PROVE  LET new == RecomputeJob(j, job) IN
         /\ GoodJob(j, new) /\ new.running = job.running /\ new.last = job.last
         /\ job.broken \/ (j \in OneShot /\ job.last = "ok") => new.next = None
  <1> DEFINE next == ComputeNext(j, job, now)
             count == Min({job.scheduleErrors + 1, MaxScheduleErrors})
  <1>1. /\ next \in Time
        /\ next = None => j \in OneShot /\ job.last = "ok"
        /\ j \in OneShot /\ job.last = "ok" => next = None
    BY ComputeNextGood DEF GoodJob, Job
  <1>2. count \in 0 .. MaxScheduleErrors
    <2>1. job.scheduleErrors \in Nat /\ MaxScheduleErrors \in Nat
      BY CronAssumption DEF GoodJob, Job
    <2>2. job.scheduleErrors + 1 \in Nat
      BY <2>1
    <2> QED
      BY <2>1, <2>2, MinOfTwo
  <1>3. RecomputeJob(j, job) =
          IF job.broken
          THEN [job EXCEPT !.next = None, !.scheduleErrors = count, !.enabled = (count < MaxScheduleErrors)]
          ELSE [job EXCEPT !.next = next, !.scheduleErrors = 0]
    BY DEF RecomputeJob, ScheduleError, ScheduleFails
  <1> HIDE DEF next, count
  <1>4. CASE job.broken
    <2> DEFINE new == RecomputeJob(j, job)
               more == count < MaxScheduleErrors
    <2>1. new = [job EXCEPT !.next = None, !.scheduleErrors = count, !.enabled = more] /\ more \in BOOLEAN
      BY <1>3, <1>4
    <2> HIDE DEF new, more
    <2>2. /\ new.next = None /\ new.running = job.running /\ new.last = job.last
          /\ new.broken = job.broken
      BY <2>1 DEF GoodJob, Job
    <2>3. new \in Job
      BY <1>2, <2>1 DEF GoodJob, Job, Time
    <2> QED
      BY <1>4, <2>2, <2>3 DEF GoodJob, new
  <1>5. CASE ~job.broken
    <2>1. RecomputeJob(j, job) = [job EXCEPT !.next = next, !.scheduleErrors = 0]
      BY <1>3, <1>5
    <2>2. 0 \in 0 .. MaxScheduleErrors
      BY CronAssumption
    <2> QED
      BY <1>1, <1>5, <2>1, <2>2 DEF GoodJob, Job
  <1> QED
    BY <1>4, <1>5

(***************************************************************************)
(* The recomputation of a store takes markers off and sets none, enables   *)
(* no job, and gives no job a time that had none unless it also moves      *)
(* times that have passed.                                                 *)
(***************************************************************************)
LEMMA RecomputeGood ==
  ASSUME NEW jobs, GoodStore(jobs), NEW movesPast \in BOOLEAN, now \in Nat
  PROVE  LET new == Recompute(jobs, movesPast) IN
         /\ GoodStore(new) /\ DOMAIN new = DOMAIN jobs
         /\ \A j \in DOMAIN jobs : /\ new[j].running # None => jobs[j].running # None
                                   /\ new[j].enabled => jobs[j].enabled
                                   /\ new[j].last = jobs[j].last
         /\ ~movesPast /\ HasWake(new) => HasWake(jobs)
  <1> DEFINE new == Recompute(jobs, movesPast)
  <1>1. new = [j \in DOMAIN new |-> new[j]] /\ DOMAIN new = DOMAIN jobs
    BY DEF Recompute
  <1>2. ASSUME NEW j \in DOMAIN jobs
        PROVE  /\ GoodJob(j, new[j])
               /\ new[j].running # None => jobs[j].running # None
               /\ (new[j].enabled => jobs[j].enabled) /\ new[j].last = jobs[j].last
               /\ ~movesPast /\ new[j].enabled /\ new[j].next # None => jobs[j].next # None
    <2> DEFINE job == Normalize(jobs[j])
    <2>1. GoodJob(j, jobs[j]) /\ j \in Jobs
      BY DEF GoodStore
    <2>2. /\ GoodJob(j, job) /\ job.enabled = jobs[j].enabled /\ job.last = jobs[j].last
          /\ job.running # None => jobs[j].running # None
          /\ job.enabled => job.next = jobs[j].next
      BY <2>1, NormalizeGood
    <2>3. new[j] = IF job.enabled /\ (job.next = None \/ (movesPast /\ now >= job.next))
                   THEN RecomputeJob(j, job) ELSE job
      BY DEF Recompute
    <2> HIDE DEF job, new
    <2>4. CASE new[j] = job
      BY <2>2, <2>4
    <2>5. CASE /\ job.enabled /\ (job.next = None \/ movesPast)
               /\ new[j] = RecomputeJob(j, job)
      <3>1. /\ GoodJob(j, new[j]) /\ new[j].running = job.running /\ new[j].last = job.last
            /\ job.broken \/ (j \in OneShot /\ job.last = "ok") => new[j].next = None
        BY <2>1, <2>2, <2>5, RecomputeJobGood
      <3>2. job.next = None => job.broken \/ (j \in OneShot /\ job.last = "ok")
        BY <2>2, <2>5 DEF GoodJob
      <3> QED
        BY <2>2, <2>5, <3>1, <3>2
    <2> QED
      BY <2>3, <2>4, <2>5
  <1> HIDE DEF new
  <1>3. GoodStore(new)
    BY <1>1, <1>2 DEF GoodStore
  <1>4. ~movesPast /\ HasWake(new) => HasWake(jobs)
    BY <1>1, <1>2 DEF HasWake
  <1> QED
    BY <1>1, <1>2, <1>3, <1>4 DEF new

(***************************************************************************)
(* applyJobResult takes the marker off, disables a one-shot, and gives any *)
(* other job that is enabled a time, unless its schedule fails.            *)
(***************************************************************************)
LEMMA EndJobGood ==
  ASSUME NEW j \in Jobs, NEW job, GoodJob(j, job), NEW result \in Result
  PROVE  /\ GoodJob(j, EndJob(j, job, result)) /\ EndJob(j, job, result).running = None
         /\ j \in OneShot => ~EndJob(j, job, result).enabled
  <1>1. result.status \in Statuses /\ result.endedAt \in Nat
    BY DEF Result
  <1>2. CASE j \in OneShot
    <2>1. EndJob(j, job, result) = [job EXCEPT !.running = None, !.last = result.status,
                                               !.enabled = FALSE, !.next = None]
      BY <1>2 DEF EndJob
    <2> QED
      BY <1>1, <1>2, <2>1 DEF GoodJob, Job, Time
  <1>3. CASE j \notin OneShot
    <2> DEFINE errors == Errors(job, result.status)
               next == ComputeNext(j, job, result.endedAt)
               new == IF ScheduleFails(job) THEN job.next
                      ELSE IF job.enabled /\ result.status = "error"
                           THEN Max({next, result.endedAt + Backoff[errors]}) ELSE next
    <2>1. EndJob(j, job, result) = [job EXCEPT !.running = None, !.errors = errors, !.next = new]
      <3>1. EndJob(j, job, result) =
              [job EXCEPT !.running = None, !.errors = errors,
                 !.next = IF ScheduleFails(job) THEN @
                          ELSE IF job.enabled /\ result.status = "error"
                               THEN Max({next, result.endedAt + Backoff[errors]})
                               ELSE next]
        BY <1>3 DEF EndJob
      <3> QED
        BY <3>1 DEF GoodJob, Job
    <2>2. Len(Backoff) \in Nat \ {0} /\ \A i \in 1 .. Len(Backoff) : Backoff[i] \in Nat
      BY CronAssumption
    <2>3. job.errors \in Nat /\ job.enabled \in BOOLEAN
      BY <2>2 DEF GoodJob, Job
    <2>4. /\ errors \in 0 .. Len(Backoff)
          /\ result.status = "error" => errors \in 1 .. Len(Backoff)
      <3>1. job.errors + 1 \in Nat /\ Len(Backoff) \in Nat
        BY <2>2, <2>3
      <3>2. Min({job.errors + 1, Len(Backoff)}) \in 1 .. Len(Backoff)
        BY <2>2, <2>3, <3>1, MinOfTwo
      <3> QED
        BY <2>2, <3>2 DEF Errors
    <2>5. next \in Time /\ (job.enabled => next \in Nat) /\ (~job.enabled => next = None)
      BY <1>1, <1>3, <2>3, ComputeNextGood
    <2> HIDE DEF errors, next
    <2>6. job.enabled /\ result.status = "error" => Max({next, result.endedAt + Backoff[errors]}) \in Nat
      <3> SUFFICES ASSUME job.enabled, result.status = "error"
                   PROVE  Max({next, result.endedAt + Backoff[errors]}) \in Nat
        OBVIOUS
      <3>1. next \in Nat /\ result.endedAt + Backoff[errors] \in Nat
        BY <1>1, <2>2, <2>4, <2>5
      <3> QED
        BY <3>1, MaxOfTwo
    <2>7. new \in Time /\ (job.enabled /\ ~job.broken => new \in Nat) /\ (ScheduleFails(job) => new = job.next)
      BY <2>5, <2>6 DEF Time, ScheduleFails, GoodJob, Job
    <2> HIDE DEF new
    <2>8. EndJob(j, job, result) \in Job
      BY <2>1, <2>4, <2>7 DEF GoodJob, Job, Time
    <2>9. /\ EndJob(j, job, result).running = None
          /\ EndJob(j, job, result).next = new
          /\ EndJob(j, job, result).enabled = job.enabled
          /\ EndJob(j, job, result).broken = job.broken
      BY <2>1 DEF GoodJob, Job
    <2> QED
      BY <1>3, <2>7, <2>8, <2>9 DEF GoodJob, None
  <1> QED
    BY <1>2, <1>3

(***************************************************************************)
(* The results of a tick, or of a job run under the lock, are applied to   *)
(* the jobs that still exist.                                              *)
(***************************************************************************)
LEMMA ApplyGood ==
  ASSUME NEW jobs, GoodStore(jobs), NEW results, \A j \in DOMAIN results : results[j] \in Result
  PROVE  LET new == ApplyJobResults(jobs, results) IN
         /\ GoodStore(new) /\ DOMAIN new \subseteq DOMAIN jobs
         /\ \A j \in DOMAIN new :
               /\ new[j] = jobs[j] \/ (new[j].running = None /\ (j \in OneShot => ~new[j].enabled))
               /\ j \in DOMAIN results /\ (\A i \in ThrowsAt(jobs, results) : j <= i) =>
                      new[j].running = None
  <1> DEFINE new == ApplyJobResults(jobs, results)
             applied == {j \in DOMAIN results : \A i \in ThrowsAt(jobs, results) : j <= i}
             deleted == {j \in applied \cap DeleteAfterRun : results[j].status = "ok"}
  <1>1. new = [j \in DOMAIN jobs \ deleted |->
                 IF j \in applied THEN EndJob(j, jobs[j], results[j]) ELSE jobs[j]]
    BY DEF ApplyJobResults
  <1>2. applied \subseteq DOMAIN results
    OBVIOUS
  <1>3. \A j \in DOMAIN results : (\A i \in ThrowsAt(jobs, results) : j <= i) => j \in applied
    OBVIOUS
  <1> HIDE DEF new, deleted, applied
  <1>4. DOMAIN new = DOMAIN jobs \ deleted /\ new = [j \in DOMAIN new |-> new[j]]
    BY <1>1
  <1>5. ASSUME NEW j \in DOMAIN new
        PROVE  /\ GoodJob(j, new[j])
               /\ new[j] = jobs[j] \/ (new[j].running = None /\ (j \in OneShot => ~new[j].enabled))
               /\ j \in applied => new[j].running = None
    <2>1. j \in Jobs /\ GoodJob(j, jobs[j])
      BY <1>4 DEF GoodStore
    <2>2. CASE j \in applied
      <3>1. new[j] = EndJob(j, jobs[j], results[j]) /\ results[j] \in Result
        BY <1>1, <1>2, <1>4, <2>2
      <3> QED
        BY <2>1, <2>2, <3>1, EndJobGood
    <2>3. CASE j \notin applied
      BY <1>1, <1>4, <2>1, <2>3
    <2> QED
      BY <2>2, <2>3
  <1>6. GoodStore(new)
    BY <1>4, <1>5 DEF GoodStore
  <1> QED
    BY <1>3, <1>4, <1>5, <1>6 DEF new

(***************************************************************************)
(* Marking jobs as running changes nothing else about them.                *)
(***************************************************************************)
LEMMA MarkGood ==
  ASSUME NEW jobs, GoodStore(jobs), NEW S, now \in Nat
  PROVE  LET new == MarkRunning(jobs, S) IN
         /\ GoodStore(new) /\ DOMAIN new = DOMAIN jobs
         /\ \A j \in DOMAIN jobs :
               /\ j \notin S => new[j] = jobs[j]
               /\ new[j].enabled = jobs[j].enabled /\ new[j].last = jobs[j].last
  <1> DEFINE new == MarkRunning(jobs, S)
  <1>1. new = [j \in DOMAIN jobs |-> IF j \in S THEN [jobs[j] EXCEPT !.running = now] ELSE jobs[j]]
    BY DEF MarkRunning
  <1> HIDE DEF new
  <1>2. DOMAIN new = DOMAIN jobs /\ new = [j \in DOMAIN new |-> new[j]]
    BY <1>1
  <1>3. ASSUME NEW j \in DOMAIN jobs
        PROVE  /\ GoodJob(j, new[j]) /\ (j \notin S => new[j] = jobs[j])
               /\ new[j].enabled = jobs[j].enabled /\ new[j].last = jobs[j].last
    <2>1. GoodJob(j, jobs[j])
      BY DEF GoodStore
    <2>2. CASE j \in S
      <3>1. new[j] = [jobs[j] EXCEPT !.running = now]
        BY <1>1, <2>2
      <3> QED
        BY <2>1, <2>2, <3>1 DEF GoodJob, Job, Time
    <2>3. CASE j \notin S
      BY <1>1, <2>1, <2>3
    <2> QED
      BY <2>2, <2>3
  <1> QED
    BY <1>2, <1>3 DEF GoodStore, new

(***************************************************************************)
(* A service that starts takes every marker off.                           *)
(***************************************************************************)
LEMMA ClearedGood ==
  ASSUME NEW jobs, GoodStore(jobs)
  PROVE  LET new == Cleared(jobs) IN
         /\ GoodStore(new) /\ DOMAIN new = DOMAIN jobs
         /\ \A j \in DOMAIN jobs : /\ new[j].running = None
                                   /\ new[j].enabled = jobs[j].enabled /\ new[j].last = jobs[j].last
  <1> DEFINE new == Cleared(jobs)
  <1>1. new = [j \in DOMAIN jobs |-> [jobs[j] EXCEPT !.running = None]]
    BY DEF Cleared
  <1> HIDE DEF new
  <1>2. DOMAIN new = DOMAIN jobs /\ new = [j \in DOMAIN new |-> new[j]]
    BY <1>1
  <1>3. ASSUME NEW j \in DOMAIN jobs
        PROVE  /\ GoodJob(j, new[j]) /\ new[j].running = None
               /\ new[j].enabled = jobs[j].enabled /\ new[j].last = jobs[j].last
    <2>1. GoodJob(j, jobs[j]) /\ new[j] = [jobs[j] EXCEPT !.running = None]
      BY <1>1 DEF GoodStore
    <2> QED
      BY <2>1 DEF GoodJob, Job, Time
  <1> QED
    BY <1>2, <1>3 DEF GoodStore, new

(***************************************************************************)
(* update: a job that is enabled gets a time if it has none and a schedule *)
(* that parses, and one that is disabled loses its time and its marker.    *)
(***************************************************************************)
LEMMA PatchedGood ==
  ASSUME NEW j \in Jobs, NEW job, GoodJob(j, job), NEW patch \in Patches,
         patch = "break" => j \notin OneShot, now \in Nat
  PROVE  /\ GoodJob(j, Patched(j, job, patch))
         /\ Patched(j, job, patch).running # None => job.running # None
  <1> DEFINE edited == Edited(job, patch)
             next == ComputeNext(j, edited, now)
  <1>1. CASE patch = "edit"
    <2>1. edited = job
      BY <1>1 DEF Edited
    <2>2. next \in Time /\ (job.enabled /\ next = None => j \in OneShot /\ job.last = "ok")
      BY <2>1, ComputeNextGood DEF GoodJob, Job
    <2> HIDE DEF next
    <2>3. \/ Patched(j, job, patch) = job
          \/ Patched(j, job, patch) = [job EXCEPT !.next = next]
      BY <1>1, <2>1 DEF Patched, Recomputes, next
    <2> QED
      BY <2>2, <2>3 DEF GoodJob, Job
  <1>2. CASE patch # "edit"
    <2>1. /\ edited \in Job /\ edited.next = job.next /\ edited.last = job.last
          /\ edited.running = job.running /\ (edited.broken => j \notin OneShot)
      <3>1. \/ edited = [job EXCEPT !.enabled = (patch = "enable")]
            \/ edited = [job EXCEPT !.broken = (patch = "break")]
        BY <1>2 DEF Edited, Patches
      <3>2. CASE edited = [job EXCEPT !.enabled = (patch = "enable")]
        BY <3>2 DEF GoodJob, Job
      <3>3. CASE edited = [job EXCEPT !.broken = (patch = "break")]
        BY <3>3 DEF GoodJob, Job
      <3> QED
        BY <3>1, <3>2, <3>3
    <2>2. Patched(j, job, patch) =
            IF edited.enabled
            THEN IF edited.broken THEN edited ELSE [edited EXCEPT !.next = next]
            ELSE [edited EXCEPT !.next = None, !.running = None]
      BY <1>2 DEF Patched, Recomputes
    <2> HIDE DEF edited
    <2>3. next \in Time /\ (edited.enabled /\ next = None => j \in OneShot /\ edited.last = "ok")
      BY <2>1, ComputeNextGood DEF Job
    <2> HIDE DEF next
    <2>4. CASE edited.enabled /\ edited.broken
      BY <2>1, <2>2, <2>4 DEF GoodJob
    <2>5. CASE edited.enabled /\ ~edited.broken
      BY <2>1, <2>2, <2>3, <2>5 DEF GoodJob, Job
    <2>6. CASE ~edited.enabled
      <3> DEFINE new == Patched(j, job, patch)
      <3>1. new = [edited EXCEPT !.next = None, !.running = None]
        BY <2>2, <2>6
      <3> HIDE DEF new
      <3>2. new.running = None /\ ~new.enabled /\ new.broken = edited.broken
        BY <2>1, <2>6, <3>1 DEF Job
      <3>3. new \in Job
        BY <2>1, <3>1 DEF Job, Time
      <3> QED
        BY <2>1, <3>2, <3>3 DEF GoodJob, new
    <2> QED
      BY <2>4, <2>5, <2>6
  <1> QED
    BY <1>1, <1>2

(***************************************************************************)
(* A good job is added.                                                    *)
(***************************************************************************)
LEMMA WithGood ==
  ASSUME NEW jobs, GoodStore(jobs), NEW j \in Jobs, NEW job, GoodJob(j, job)
  PROVE  LET new == With(jobs, j, job) IN
         /\ GoodStore(new) /\ DOMAIN new = DOMAIN jobs \cup {j}
         /\ new[j] = job /\ \A i \in DOMAIN jobs : i # j => new[i] = jobs[i]
  BY DEF With, GoodStore

(***************************************************************************)
(* A good job takes the place of another.                                  *)
(***************************************************************************)
LEMMA ExceptGood ==
  ASSUME NEW jobs, GoodStore(jobs), NEW j \in DOMAIN jobs, NEW job, GoodJob(j, job)
  PROVE  LET new == [jobs EXCEPT ![j] = job] IN
         /\ GoodStore(new) /\ DOMAIN new = DOMAIN jobs
         /\ new[j] = job /\ \A i \in DOMAIN jobs : i # j => new[i] = jobs[i]
  BY DEF GoodStore

(***************************************************************************)
(* A job is removed, and the others stay as they are.                      *)
(***************************************************************************)
LEMMA RemovedGood ==
  ASSUME NEW jobs, GoodStore(jobs), NEW j
  PROVE  LET new == [i \in DOMAIN jobs \ {j} |-> jobs[i]] IN
         /\ GoodStore(new) /\ DOMAIN new = DOMAIN jobs \ {j}
         /\ \A i \in DOMAIN new : new[i] = jobs[i]
  BY DEF GoodStore

-----------------------------------------------------------------------------
(***************************************************************************)
(* The empty store, and a tick that has not begun.                         *)
(***************************************************************************)
LEMMA EmptyGood ==
  /\ GoodStore(<<>>) /\ DOMAIN <<>> = {} /\ Idle \in Tick
  /\ Idle.pc = "idle" /\ Idle.todo = {} /\ DOMAIN Idle.done = {}
  <1>1. DOMAIN <<>> = {} /\ <<>> = [j \in {} |-> j]
    OBVIOUS
  <1>2. GoodStore(<<>>)
    BY <1>1 DEF GoodStore
  <1>3. <<>> \in [{} -> Result]
    BY <1>1
  <1>4. <<>> \in UNION {[D -> Result] : D \in SUBSET Jobs}
    BY <1>3
  <1> QED
    BY <1>1, <1>2, <1>4 DEF Idle, Tick

-----------------------------------------------------------------------------
(***************************************************************************)
(* How a locked section ends: the store in memory has the jobs, and the    *)
(* file has them too or what it had.                                       *)
(***************************************************************************)
SectionEnd(s, jobs) ==
    /\ store' = [store EXCEPT ![s] = jobs]
    /\ \/ /\ file' = jobs
          /\ settled' = settled \cup {j \in OneShot \ fresh : j \in DOMAIN jobs => jobs[j].last # "never"}
       \/ file' = file /\ settled' = settled

(***************************************************************************)
(* What the stores are after it.                                           *)
(***************************************************************************)
LEMMA SectionFacts ==
  ASSUME Types, NEW s \in Services, NEW jobs, GoodStore(jobs), SectionEnd(s, jobs), fresh' \subseteq fresh
  PROVE  /\ file' = jobs \/ file' = file
         /\ GoodStore(file')
         /\ store' = [r \in Services |-> store'[r]] /\ store'[s] = jobs
         /\ \A r \in Services : GoodStore(store'[r]) /\ (r # s => store'[r] = store[r])
         /\ settled' \subseteq OneShot \ fresh'
         /\ \A seen : EndIsEnd(jobs, seen, settled) /\ EndIsEnd(file, seen, settled) =>
                          EndIsEnd(jobs, seen, settled') /\ EndIsEnd(file', seen, settled')
  <1>1. /\ file' = jobs \/ file' = file
        /\ GoodStore(file')
    BY DEF SectionEnd, Types
  <1>2. /\ store' = [r \in Services |-> store'[r]] /\ store'[s] = jobs
        /\ \A r \in Services : r # s => store'[r] = store[r]
    BY DEF SectionEnd, Types
  <1>3. \A r \in Services : GoodStore(store'[r])
    BY <1>2 DEF Types
  <1>4. settled' \subseteq OneShot \ fresh'
    BY DEF SectionEnd, Types
  <1>5. ASSUME NEW seen, EndIsEnd(jobs, seen, settled), EndIsEnd(file, seen, settled)
        PROVE  EndIsEnd(jobs, seen, settled') /\ EndIsEnd(file', seen, settled')
    <2>1. CASE file' = file /\ settled' = settled
      BY <1>5, <2>1
    <2>2. CASE /\ file' = jobs
               /\ \A j \in settled' : j \in settled \/ j \notin DOMAIN jobs \/ jobs[j].last # "never"
      BY <1>5, <2>2 DEF EndIsEnd
    <2> QED
      BY <2>1, <2>2 DEF SectionEnd
  <1> QED
    BY <1>1, <1>2, <1>3, <1>4, <1>5

(***************************************************************************)
(* The end of a section of the service s keeps the invariant, if it leaves *)
(* a timer to what waits, and nothing marked that nobody accounts for.     *)
(***************************************************************************)
EndsWell(s, jobs) ==
    /\ UNCHANGED <<now, services>>
    /\ s <= gen /\ holder \in {0, s} /\ holder' = 0 /\ held' = {}
    /\ loaded' = loaded \/ loaded' = loaded \cup {s}
    /\ fresh' \subseteq fresh /\ touched' \in SUBSET OneShot /\ ops' \in 0 .. MaxOps
    /\ failures' \in 0 .. MaxFailures /\ orphans' \subseteq Jobs
    /\ tick' \in [Services -> Tick] /\ TickShape(tick'[s])
    /\ timer' \in [Services -> Time] /\ failed' \in [Services -> Failed]
    /\ \A r \in Services : r # s => tick'[r] = tick[r] /\ timer'[r] = timer[r] /\ failed'[r] = failed[r]
    /\ s = gen /\ gen \in loaded' /\ HasWake(jobs) =>
          timer'[s] # None \/ tick'[s].pc # "idle" \/ failed'[s] = "unarmed"

Accounted(s, jobs) ==
    /\ gen \in loaded' => Running(jobs) \subseteq InTick(tick'[s]) \cup orphans'
    /\ gen \in loaded' \/ failed'[gen] = "unarmed" => Running(file') \subseteq InTick(tick'[s]) \cup orphans'
    /\ EndIsEnd(file, touched', settled) /\ (gen \in loaded' => EndIsEnd(jobs, touched', settled))

(***************************************************************************)
(* A section that ends well keeps the invariant.                           *)
(***************************************************************************)
LEMMA SectionStep ==
  ASSUME IInv, NEW s \in Services, NEW jobs, GoodStore(jobs), SectionEnd(s, jobs), EndsWell(s, jobs),
         ~shared => /\ s = gen /\ Accounted(s, jobs)
                    /\ gen \in loaded' \/ UNCHANGED <<timer, tick, file, settled>>
  PROVE  IInv'
  <1>1. /\ GoodStore(file')
        /\ store' = [r \in Services |-> store'[r]] /\ store'[s] = jobs
        /\ \A r \in Services : GoodStore(store'[r]) /\ (r # s => store'[r] = store[r])
        /\ settled' \subseteq OneShot \ fresh'
        /\ EndIsEnd(jobs, touched', settled) /\ EndIsEnd(file, touched', settled) =>
              EndIsEnd(jobs, touched', settled') /\ EndIsEnd(file', touched', settled')
    <2>1. Types /\ fresh' \subseteq fresh
      BY DEF EndsWell, IInv, AliveInv
    <2> QED
      BY <2>1, SectionFacts
  <1>2. /\ gen' = gen /\ client' = client /\ shared' = shared /\ now' = now
        /\ gen \in Services /\ loaded \subseteq loaded' /\ loaded' \subseteq loaded \cup {s}
        /\ holder' = 0 /\ holder \in {0, s} /\ s <= gen /\ gen # 0
        /\ \A r \in Services : r # s => tick'[r] = tick[r] /\ timer'[r] = timer[r] /\ failed'[r] = failed[r]
    BY DEF EndsWell, services, IInv, AliveInv, Types, Services
  <1>3. Types'
    <2>1. holder' \in 0 .. MaxServices /\ held' \subseteq Jobs
      BY CronAssumption DEF EndsWell
    <2>2. loaded' \subseteq Services
      BY <1>2 DEF IInv, AliveInv, Types
    <2>3. /\ now' \in 0 .. MaxNow /\ gen' \in Services /\ client' \in Services /\ shared' \in BOOLEAN
          /\ fresh' \subseteq Jobs
      BY <1>2 DEF EndsWell, IInv, AliveInv, Types
    <2> QED
      BY <1>1, <2>1, <2>2, <2>3 DEF EndsWell, Types
  <1>4. Shape'
    <2>1. ASSUME NEW r \in Services PROVE TickShape(tick'[r]) /\ (r > gen => Unborn(r)')
      <3>1. CASE r = s
        BY <1>2, <3>1 DEF EndsWell, Services
      <3>2. CASE r # s
        BY <1>2, <3>2 DEF IInv, AliveInv, Shape, Unborn
      <3> QED
        BY <3>1, <3>2
    <2>2. held' = {} /\ 0 <= gen /\ client <= gen
      BY <1>2 DEF EndsWell, IInv, AliveInv, Shape, Services
    <2> QED
      BY <1>2, <2>1, <2>2 DEF Shape
  <1>5. Alive'
    <2> SUFFICES ASSUME gen \in loaded', HasWake(store'[gen])
                 PROVE  timer'[gen] # None \/ tick'[gen].pc # "idle" \/ failed'[gen] = "unarmed"
      BY <1>2 DEF Alive
    <2>1. CASE s = gen
      BY <1>1, <2>1 DEF EndsWell
    <2>2. CASE s # gen
      <3>1. gen \in loaded /\ holder # gen
        BY <1>2, <2>2
      <3> QED
        BY <1>1, <1>2, <2>2, <3>1 DEF IInv, AliveInv, Alive
    <2> QED
      BY <2>1, <2>2
  <1>6. Sole'
    BY <1>2 DEF IInv, Sole
  <1>7. MarkersOwned'
    BY <1>1, <1>2 DEF MarkersOwned, Accounted
  <1>8. EndsStay'
    <2>1. CASE gen \in loaded'
      BY <1>1, <1>2, <2>1 DEF EndsStay, Accounted
    <2>2. CASE gen \notin loaded'
      BY <1>2, <2>2 DEF EndsStay, Accounted
    <2> QED
      BY <2>1, <2>2
  <1> QED
    BY <1>3, <1>4, <1>5, <1>6, <1>7, <1>8 DEF IInv, AliveInv

(***************************************************************************)
(* A write that succeeds: markers that a failed section has left are       *)
(* forgotten only if the file no longer has them, or a tick owns them.     *)
(***************************************************************************)
LEMMA SaveFacts ==
  ASSUME Types, NEW s \in Services, NEW jobs, GoodStore(jobs), NEW owned,
         Save(s, jobs, owned)
  PROVE  /\ SectionEnd(s, jobs) /\ file' = jobs
         /\ orphans' \subseteq orphans /\ Running(jobs) \cap orphans \subseteq orphans' \cup owned
         /\ failures' = failures
  <1>1. /\ store' = [store EXCEPT ![s] = jobs] /\ file' = jobs /\ failures' = failures
        /\ settled' = settled \cup {j \in OneShot \ fresh : j \in DOMAIN jobs => jobs[j].last # "never"}
        /\ orphans' = {j \in (orphans \cap DOMAIN jobs) \ owned : jobs[j].running # None}
    BY DEF Save
  <1> QED
    BY <1>1 DEF SectionEnd, Running

(***************************************************************************)
(* A write that fails leaves the file as it was.                           *)
(***************************************************************************)
LEMMA NotSavedFacts ==
  ASSUME NEW s \in Services, NEW jobs, NEW left, NotSaved(s, jobs, left)
  PROVE  SectionEnd(s, jobs) /\ file' = file /\ settled' = settled /\ orphans' = orphans \cup left
  BY DEF NotSaved, SectionEnd

(***************************************************************************)
(* A service that waits for a job has its timer armed for it.              *)
(***************************************************************************)
LEMMA ArmFacts ==
  ASSUME Types, NEW s \in Services, NEW jobs, GoodStore(jobs), store'[s] = jobs,
         NEW how \in Failed, ArmTimer(s, how)
  PROVE  /\ timer' \in [Services -> Time] /\ failed' \in [Services -> Failed]
         /\ \A r \in Services : r # s => timer'[r] = timer[r] /\ failed'[r] = failed[r]
         /\ HasWake(jobs) => timer'[s] # None
  <1>1. timer' = [timer EXCEPT ![s] = WakeTime(jobs)] /\ failed' = [failed EXCEPT ![s] = how]
    BY DEF ArmTimer
  <1>2. WakeTime(jobs) \in Time /\ (HasWake(jobs) => WakeTime(jobs) # None)
    BY WakeTimeIsSet DEF Types
  <1> QED
    BY <1>1, <1>2 DEF Types

(***************************************************************************)
(* The failures stay within their bound.                                   *)
(***************************************************************************)
LEMMA FaultFacts ==
  ASSUME Types, Fault
  PROVE  failures' \in 0 .. MaxFailures
  BY CronAssumption DEF Types, Fault

(***************************************************************************)
(* start, or the call of a client, ends.                                   *)
(***************************************************************************)
LEMMA CallStep ==
  ASSUME IInv, NEW s \in Services, NEW jobs, GoodStore(jobs),
         CallEnds(s, jobs) \/ (CallThrows(s, jobs) /\ failures' = failures),
         UNCHANGED <<now, services, tick>>,
         s <= gen, holder \in {0, s}, holder' = 0, held' = {}, loaded' = loaded \cup {s},
         fresh' \subseteq fresh, touched' \in SUBSET OneShot, ops' \in 0 .. MaxOps,
         ~shared => /\ s = gen /\ Running(jobs) \subseteq InTick(tick[s]) \cup orphans
                    /\ EndIsEnd(jobs, touched', settled) /\ EndIsEnd(file, touched', settled)
  PROVE  IInv'
  <1>1. /\ Types /\ tick' = tick /\ gen' = gen /\ GoodStore(file) /\ failures \in 0 .. MaxFailures
        /\ tick \in [Services -> Tick] /\ TickShape(tick[s])
        /\ store = [r \in Services |-> store[r]]
        /\ timer \in [Services -> Time] /\ failed \in [Services -> Failed] /\ orphans \subseteq Jobs
    BY DEF IInv, AliveInv, Types, Shape, services
  <1>2. CASE Save(s, jobs, {}) /\ ArmTimer(s, "no")
    <2>1. /\ SectionEnd(s, jobs) /\ file' = jobs
          /\ orphans' \subseteq orphans /\ Running(jobs) \cap orphans \subseteq orphans'
          /\ failures' = failures
      BY <1>1, <1>2, SaveFacts
    <2>2. store'[s] = jobs
      BY <1>1, <2>1 DEF SectionEnd
    <2>3. "no" \in Failed
      BY DEF Failed
    <2>4. /\ timer' \in [Services -> Time] /\ failed' \in [Services -> Failed]
          /\ \A r \in Services : r # s => timer'[r] = timer[r] /\ failed'[r] = failed[r]
          /\ HasWake(jobs) => timer'[s] # None
      BY <1>1, <1>2, <2>2, <2>3, ArmFacts
    <2>5. EndsWell(s, jobs)
      BY <1>1, <2>1, <2>4 DEF EndsWell
    <2>6. ~shared => Accounted(s, jobs)
      BY <1>1, <2>1 DEF Accounted
    <2> QED
      BY <1>1, <2>1, <2>5, <2>6, SectionStep
  <1>3. CASE CallThrows(s, jobs) /\ failures' \in 0 .. MaxFailures
    <2>1. /\ SectionEnd(s, jobs) /\ file' = file /\ orphans' = orphans \cup Unowned(s)
          /\ failed' = [failed EXCEPT ![s] = "unarmed"] /\ timer' = timer
      BY <1>3, NotSavedFacts DEF CallThrows
    <2>2. Unowned(s) = Running(file) \ InTick(tick[s]) /\ Unowned(s) \subseteq Jobs
      BY <1>1 DEF Unowned, Running, InTick, GoodStore
    <2>3. /\ failed' \in [Services -> Failed] /\ failed'[s] = "unarmed"
          /\ \A r \in Services : r # s => failed'[r] = failed[r]
      BY <1>1, <2>1 DEF Failed
    <2>4. EndsWell(s, jobs)
      BY <1>1, <1>3, <2>1, <2>2, <2>3 DEF EndsWell
    <2>5. ~shared => Accounted(s, jobs)
      BY <1>1, <2>1, <2>2 DEF Accounted
    <2> QED
      BY <1>1, <2>1, <2>4, <2>5, SectionStep
  <1> QED
    BY <1>1, <1>2, <1>3, FaultFacts DEF CallEnds

(***************************************************************************)
(* A tick ends, and leaves the markers in left on disk if it fails.        *)
(***************************************************************************)
LEMMA TickEndStep ==
  ASSUME IInv, NEW s \in Services, NEW jobs, GoodStore(jobs), NEW left \in SUBSET Jobs,
         \/ FinishTick(s, jobs) /\ left = {}
         \/ /\ AbortTick(s, jobs, left) /\ failures' \in 0 .. MaxFailures
            /\ ~shared => Running(file) \subseteq orphans \cup left,
         UNCHANGED <<now, services, loaded, fresh, ops, touched>>,
         s <= gen, holder = 0, holder' = 0, held' = {},
         ~shared => /\ s = gen /\ gen \in loaded
                    /\ Running(jobs) \subseteq orphans \cup left
                    /\ EndIsEnd(jobs, touched, settled) /\ EndIsEnd(file, touched, settled)
  PROVE  IInv'
  <1>1. /\ Types /\ gen' = gen /\ failures \in 0 .. MaxFailures /\ touched \in SUBSET OneShot
        /\ ops \in 0 .. MaxOps /\ tick \in [Services -> Tick] /\ orphans \subseteq Jobs
        /\ store = [r \in Services |-> store[r]]
    BY DEF IInv, AliveInv, Types, services
  <1>2. /\ tick' \in [Services -> Tick] /\ tick'[s] = Idle
        /\ \A r \in Services : r # s => tick'[r] = tick[r]
    <2>1. tick' = [tick EXCEPT ![s] = Idle]
      BY DEF FinishTick, AbortTick
    <2> QED
      BY <1>1, <2>1, EmptyGood
  <1>3. TickShape(tick'[s]) /\ InTick(tick'[s]) = {}
    BY <1>2, EmptyGood DEF TickShape, InTick
  <1>4. /\ SectionEnd(s, jobs) /\ file' \in {jobs, file}
        /\ orphans' \subseteq Jobs /\ failures' \in 0 .. MaxFailures
        /\ Running(jobs) \subseteq orphans \cup left => Running(jobs) \subseteq orphans'
        /\ ~shared => file' = jobs \/ Running(file') \subseteq orphans'
    <2>1. CASE FinishTick(s, jobs) /\ left = {}
      <3>1. Save(s, jobs, {})
        BY <2>1 DEF FinishTick
      <3>2. /\ SectionEnd(s, jobs) /\ file' = jobs
            /\ orphans' \subseteq orphans /\ Running(jobs) \cap orphans \subseteq orphans'
            /\ failures' = failures
        BY <1>1, <3>1, SaveFacts
      <3> QED
        BY <1>1, <2>1, <3>2
    <2>2. CASE /\ AbortTick(s, jobs, left) /\ failures' \in 0 .. MaxFailures
               /\ ~shared => Running(file) \subseteq orphans \cup left
      <3>1. SectionEnd(s, jobs) /\ file' = file /\ orphans' = orphans \cup left
        BY <2>2, NotSavedFacts DEF AbortTick
      <3> QED
        BY <1>1, <2>2, <3>1
    <2> QED
      BY <2>1, <2>2
  <1>5. store'[s] = jobs
    BY <1>1, <1>4 DEF SectionEnd
  <1>6. PICK how \in Failed : ArmTimer(s, how)
    BY DEF FinishTick, AbortTick, Failed
  <1>7. /\ timer' \in [Services -> Time] /\ failed' \in [Services -> Failed]
        /\ \A r \in Services : r # s => timer'[r] = timer[r] /\ failed'[r] = failed[r]
        /\ HasWake(jobs) => timer'[s] # None
    BY <1>1, <1>5, <1>6, ArmFacts
  <1>8. EndsWell(s, jobs)
    BY <1>1, <1>2, <1>3, <1>4, <1>7 DEF EndsWell
  <1>9. ~shared => s = gen /\ Accounted(s, jobs) /\ gen \in loaded'
    BY <1>1, <1>3, <1>4 DEF Accounted
  <1> QED
    BY <1>4, <1>8, <1>9, SectionStep

(***************************************************************************)
(* What it does when a service goes on to run jobs under the lock.         *)
(***************************************************************************)
LEMMA HoldFacts ==
  ASSUME Types, NEW s \in Services, NEW jobs, GoodStore(jobs), NEW S \in SUBSET Jobs, S # {},
         HoldLock(s, jobs, S)
  PROVE  /\ holder' = s /\ held' = S /\ UNCHANGED <<file, timer, settled, failures, failed, orphans>>
         /\ store' = [r \in Services |-> store'[r]]
         /\ \A r \in Services : GoodStore(store'[r]) /\ (r # s => store'[r] = store[r])
         /\ DOMAIN store'[s] = DOMAIN jobs
         /\ \A j \in DOMAIN jobs : /\ j # Min(S) => store'[s][j] = jobs[j]
                                   /\ store'[s][j].enabled = jobs[j].enabled
                                   /\ store'[s][j].last = jobs[j].last
  <1> DEFINE new == MarkRunning(jobs, {Min(S)})
  <1>1. /\ holder' = s /\ held' = S /\ UNCHANGED <<file, timer, settled, failures, failed, orphans>>
        /\ store' = [store EXCEPT ![s] = new]
    BY DEF HoldLock, faults
  <1>2. /\ GoodStore(new) /\ DOMAIN new = DOMAIN jobs
        /\ \A j \in DOMAIN jobs : /\ j # Min(S) => new[j] = jobs[j]
                                  /\ new[j].enabled = jobs[j].enabled /\ new[j].last = jobs[j].last
    BY MarkGood DEF Types
  <1> HIDE DEF new
  <1>3. /\ store' = [r \in Services |-> store'[r]] /\ store'[s] = new
        /\ \A r \in Services : r # s => store'[r] = store[r]
    BY <1>1 DEF Types
  <1>4. \A r \in Services : GoodStore(store'[r])
    BY <1>2, <1>3 DEF Types
  <1> QED
    BY <1>1, <1>2, <1>3, <1>4

(***************************************************************************)
(* A service goes on to run jobs under the lock.                           *)
(***************************************************************************)
LEMMA HoldStep ==
  ASSUME IInv, NEW s \in Services, NEW jobs, GoodStore(jobs), NEW S \in SUBSET Jobs, S # {},
         HoldLock(s, jobs, S), UNCHANGED <<now, services, tick, fresh>>, holder \in {0, s}, s <= gen,
         loaded' = loaded \cup {s},
         touched \subseteq touched', touched' \in SUBSET OneShot, ops' \in 0 .. MaxOps,
         ~shared => /\ s = gen /\ Running(jobs) \subseteq InTick(tick[s]) \cup orphans
                    /\ EndIsEnd(jobs, touched', settled)
  PROVE  IInv'
  <1>1. /\ holder' = s /\ held' = S /\ UNCHANGED <<file, timer, settled, failures, failed, orphans>>
        /\ store' = [r \in Services |-> store'[r]]
        /\ \A r \in Services : GoodStore(store'[r]) /\ (r # s => store'[r] = store[r])
        /\ DOMAIN store'[s] = DOMAIN jobs
        /\ \A j \in DOMAIN jobs : /\ j # Min(S) => store'[s][j] = jobs[j]
                                  /\ store'[s][j].enabled = jobs[j].enabled
                                  /\ store'[s][j].last = jobs[j].last
    BY HoldFacts DEF IInv, AliveInv
  <1>2. /\ gen' = gen /\ client' = client /\ shared' = shared /\ now' = now /\ tick' = tick /\ fresh' = fresh
        /\ loaded' = loaded \cup {s} /\ gen \in Services
    BY DEF services, IInv, AliveInv, Types
  <1>3. s # 0 /\ s \in 0 .. MaxServices
    BY CronAssumption DEF Services
  <1>4. Types'
    BY <1>1, <1>2, <1>3 DEF IInv, AliveInv, Types
  <1>5. Shape'
    <2>1. ASSUME NEW r \in Services PROVE TickShape(tick'[r]) /\ (r > gen => Unborn(r)')
      BY <1>1, <1>2 DEF IInv, AliveInv, Shape, Unborn, Services
    <2> QED
      BY <1>1, <1>2, <1>3, <2>1 DEF IInv, AliveInv, Shape
  <1>6. Alive'
    <2> SUFFICES ASSUME gen \in loaded', s # gen, HasWake(store'[gen])
                 PROVE  timer[gen] # None \/ tick[gen].pc # "idle" \/ failed[gen] = "unarmed"
      BY <1>1, <1>2 DEF Alive
    <2>1. gen \in loaded /\ holder # gen
      BY <1>2 DEF Services
    <2> QED
      BY <1>1, <1>2, <2>1 DEF IInv, AliveInv, Alive
  <1>7. Sole'
    BY <1>1, <1>2 DEF IInv, Sole
  <1>8. MarkersOwned'
    <2> SUFFICES ASSUME ~shared
                 PROVE  s = gen /\ Running(store'[gen]) \subseteq InTick(tick[gen]) \cup orphans \cup {Min(S)}
      BY <1>1, <1>2 DEF MarkersOwned
    <2> QED
      BY <1>1, <1>2 DEF Running
  <1>9. EndsStay'
    <2> SUFFICES ASSUME ~shared
                 PROVE  EndIsEnd(file, touched', settled) /\ EndIsEnd(store'[gen], touched', settled)
      BY <1>1, <1>2 DEF EndsStay
    <2>1. EndIsEnd(file, touched', settled)
      BY DEF IInv, EndsStay, EndIsEnd
    <2>2. EndIsEnd(store'[gen], touched', settled)
      BY <1>1 DEF EndIsEnd
    <2> QED
      BY <2>1, <2>2
  <1> QED
    BY <1>4, <1>5, <1>6, <1>7, <1>8, <1>9 DEF IInv, AliveInv

(***************************************************************************)
(* What holds of jobs holds after they are recomputed.                     *)
(***************************************************************************)
LEMMA RecomputeKeeps ==
  ASSUME NEW jobs, GoodStore(jobs), NEW movesPast \in BOOLEAN, now \in Nat, NEW seen, NEW known
  PROVE  /\ Running(Recompute(jobs, movesPast)) \subseteq Running(jobs)
         /\ EndIsEnd(jobs, seen, known) => EndIsEnd(Recompute(jobs, movesPast), seen, known)
  <1> DEFINE new == Recompute(jobs, movesPast)
  <1>1. /\ DOMAIN new = DOMAIN jobs
        /\ \A j \in DOMAIN jobs : /\ new[j].running # None => jobs[j].running # None
                                  /\ new[j].enabled => jobs[j].enabled
                                  /\ new[j].last = jobs[j].last
    BY RecomputeGood
  <1> HIDE DEF new
  <1>2. Running(new) \subseteq Running(jobs) /\ (EndIsEnd(jobs, seen, known) => EndIsEnd(new, seen, known))
    BY <1>1 DEF Running, EndIsEnd
  <1> QED
    BY <1>2 DEF new

(***************************************************************************)
(* What holds of jobs holds after results are applied; the jobs with a     *)
(* result are no longer marked, unless the end of one of several throws.   *)
(***************************************************************************)
LEMMA ApplyKeeps ==
  ASSUME NEW jobs, GoodStore(jobs), NEW results, \A j \in DOMAIN results : results[j] \in Result,
         NEW seen, NEW known
  PROVE  LET new == ApplyJobResults(jobs, results) IN
         /\ Running(new) \subseteq Running(jobs)
         /\ ThrowsAt(jobs, results) = {} => Running(new) \subseteq Running(jobs) \ DOMAIN results
         /\ \A j \in Nat : DOMAIN results = {j} => Running(new) \subseteq Running(jobs) \ {j}
         /\ EndIsEnd(jobs, seen, known) => EndIsEnd(new, seen, known)
  <1> DEFINE new == ApplyJobResults(jobs, results)
             throws == ThrowsAt(jobs, results)
  <1>1. /\ DOMAIN new \subseteq DOMAIN jobs
        /\ \A j \in DOMAIN new :
              /\ new[j] = jobs[j] \/ (new[j].running = None /\ (j \in OneShot => ~new[j].enabled))
              /\ j \in DOMAIN results /\ (\A i \in throws : j <= i) => new[j].running = None
    BY ApplyGood
  <1>2. throws \subseteq DOMAIN results
    BY DEF ThrowsAt
  <1> HIDE DEF new, throws
  <1>3. Running(new) \subseteq Running(jobs)
    BY <1>1 DEF Running
  <1>4. throws = {} => Running(new) \subseteq Running(jobs) \ DOMAIN results
    BY <1>1 DEF Running
  <1>5. ASSUME NEW j \in Nat, DOMAIN results = {j}
        PROVE  Running(new) \subseteq Running(jobs) \ {j}
    <2>1. \A i \in throws : j <= i
      BY <1>2, <1>5
    <2>2. j \in DOMAIN new => new[j].running = None
      BY <1>1, <1>5, <2>1
    <2> QED
      BY <1>3, <2>2 DEF Running
  <1>6. EndIsEnd(jobs, seen, known) => EndIsEnd(new, seen, known)
    BY <1>1 DEF EndIsEnd
  <1> QED
    BY <1>3, <1>4, <1>5, <1>6 DEF new, throws

-----------------------------------------------------------------------------
(***************************************************************************)
(* A service starts: it has no markers, and what had ended has still; or   *)
(* it cannot read the file, and has loaded nothing.                        *)
(***************************************************************************)
LEMMA StartStep ==
  ASSUME IInv, NEW s \in Services, Start(s) \/ StartCannotRead(s)
  PROVE  IInv'
  <1>1. /\ holder = 0 /\ held = {} /\ s = gen /\ s \notin loaded /\ s <= gen
        /\ UNCHANGED <<now, services, tick, fresh, touched>>
        /\ ops' \in 0 .. MaxOps /\ touched' \in SUBSET OneShot /\ now \in Nat
        /\ tick \in [Services -> Tick] /\ TickShape(tick[s]) /\ GoodStore(file)
        /\ timer \in [Services -> Time] /\ failed \in [Services -> Failed] /\ orphans \subseteq Jobs
        /\ ~shared => EndIsEnd(file, touched', settled)
    BY CronAssumption
       DEF Start, StartCannotRead, ToStart, IInv, AliveInv, Types, Shape, Services, EndsStay
  <1>2. ASSUME Start(s)
        PROVE  IInv'
    <2> DEFINE interrupted == {j \in DOMAIN file : file[j].running # None}
               jobs == Cleared(file)
               missed == Missed(jobs, interrupted)
               new == Recompute(jobs, TRUE)
    <2>1. /\ loaded' = loaded \cup {s}
          /\ IF missed = {} THEN CallEnds(s, new) /\ UNCHANGED <<holder, held>>
             ELSE HoldLock(s, jobs, missed)
      BY <1>2 DEF Start, RecomputeNextRuns
    <2>2. /\ GoodStore(jobs) /\ DOMAIN jobs = DOMAIN file /\ DOMAIN jobs \subseteq Jobs
          /\ \A j \in DOMAIN file : /\ jobs[j].running = None
                                    /\ jobs[j].enabled = file[j].enabled /\ jobs[j].last = file[j].last
      BY <1>1, ClearedGood DEF GoodStore
    <2>3. missed \in SUBSET Jobs
      BY <2>2 DEF Missed, Runnable
    <2> HIDE DEF jobs, missed
    <2>4. Running(jobs) = {} /\ (~shared => EndIsEnd(jobs, touched', settled))
      BY <1>1, <2>2 DEF Running, EndIsEnd
    <2>5. CASE missed = {}
      <3>1. /\ GoodStore(new) /\ Running(new) \subseteq {}
            /\ ~shared => EndIsEnd(new, touched', settled)
        BY <1>1, <2>2, <2>4, RecomputeGood, RecomputeKeeps
      <3> HIDE DEF new
      <3>2. CallEnds(s, new) /\ holder' = 0 /\ held' = {}
        BY <1>1, <2>1, <2>5
      <3> QED
        BY <1>1, <2>1, <3>1, <3>2, CallStep
    <2>6. CASE missed # {}
      <3>1. HoldLock(s, jobs, missed)
        BY <2>1, <2>6
      <3> QED
        BY <1>1, <2>1, <2>2, <2>3, <2>4, <2>6, <3>1, HoldStep
    <2> QED
      BY <2>5, <2>6
  <1>3. ASSUME StartCannotRead(s)
        PROVE  IInv'
    <2> DEFINE jobs == store[s]
    <2>1. /\ Fault /\ CallThrows(s, jobs) /\ UNCHANGED <<now, loaded, tick, holder, held, services>>
      BY <1>3 DEF StartCannotRead
    <2>2. /\ SectionEnd(s, jobs) /\ file' = file /\ settled' = settled /\ orphans' = orphans \cup Unowned(s)
          /\ failed' = [failed EXCEPT ![s] = "unarmed"] /\ timer' = timer
      BY <2>1, NotSavedFacts DEF CallThrows
    <2>3. GoodStore(jobs) /\ failures' \in 0 .. MaxFailures
      BY <2>1, FaultFacts DEF IInv, AliveInv, Types
    <2> HIDE DEF jobs
    <2>4. Unowned(s) = Running(file) \ InTick(tick[s]) /\ Unowned(s) \subseteq Jobs
      BY <1>1 DEF Unowned, Running, InTick, GoodStore
    <2>5. /\ failed' \in [Services -> Failed] /\ \A r \in Services : r # s => failed'[r] = failed[r]
      BY <1>1, <2>2 DEF Failed
    <2>6. EndsWell(s, jobs)
      BY <1>1, <2>1, <2>2, <2>3, <2>4, <2>5 DEF EndsWell
    <2>7. ~shared => Running(file') \subseteq InTick(tick'[s]) \cup orphans'
      BY <1>1, <2>2, <2>4
    <2>8. ~shared => Accounted(s, jobs)
      BY <1>1, <2>1, <2>7 DEF Accounted
    <2>9. UNCHANGED <<timer, tick, file, settled>>
      BY <2>1, <2>2
    <2> QED
      BY <1>1, <2>2, <2>3, <2>6, <2>8, <2>9, SectionStep
  <1> QED
    BY <1>2, <1>3

(***************************************************************************)
(* A job run under the lock ends: its marker was the only one that neither *)
(* a tick nor a failure accounts for.                                      *)
(***************************************************************************)
LEMMA HeldJobStep ==
  ASSUME IInv, NEW status \in Statuses, HeldJobEnds(status)
  PROVE  IInv'
  <1> DEFINE s == holder
             j == Min(held)
             rest == held \ {j}
             result == [i \in {j} |-> [status |-> status, endedAt |-> now]]
             jobs == ApplyJobResults(store[s], result)
             throws == ThrowsAt(store[s], result) # {}
  <1>1. /\ s \in Services /\ s # 0 /\ s <= gen /\ now \in Nat /\ rest \in SUBSET Jobs
        /\ held \in SUBSET Nat /\ held # {} /\ GoodStore(store[s]) /\ GoodStore(file)
        /\ UNCHANGED <<now, services, tick, fresh, touched, loaded>>
        /\ ops' \in 0 .. MaxOps /\ touched' \in SUBSET OneShot
        /\ tick \in [Services -> Tick] /\ TickShape(tick[s])
    <2> HIDE DEF result, jobs, throws, j
    <2>1. /\ Types /\ Shape /\ holder # 0
          /\ UNCHANGED <<now, services, tick, fresh, ops, touched, loaded>>
      BY DEF HeldJobEnds, IInv, AliveInv
    <2>2. /\ now \in 0 .. MaxNow /\ holder \in 0 .. MaxServices /\ held \subseteq Jobs /\ held # {}
          /\ GoodStore(file) /\ tick \in [Services -> Tick] /\ holder <= gen
          /\ touched \subseteq OneShot /\ ops \in 0 .. MaxOps
      BY <2>1 DEF Types, Shape
    <2>3. s \in Services /\ now \in Nat /\ held \in SUBSET Nat
      BY <2>1, <2>2, CronAssumption DEF Services, Jobs
    <2>4. GoodStore(store[s]) /\ TickShape(tick[s])
      BY <2>1, <2>3 DEF Types, Shape
    <2> QED
      BY <2>1, <2>2, <2>3, <2>4
  <1>2. IF rest # {} /\ ~throws THEN HoldLock(s, jobs, rest)
        ELSE /\ \/ CallThrows(s, jobs) /\ failures' = failures
                \/ CallEnds(s, Recompute(jobs, TRUE))
             /\ holder' = 0 /\ held' = {}
    BY DEF HeldJobEnds, RecomputeNextRuns
  <1>3. DOMAIN result = {j} /\ \A i \in DOMAIN result : result[i] \in Result
    BY <1>1 DEF Result
  <1>4. j \in Nat
    BY <1>1, MinOfNats
  <1> HIDE DEF result, rest, throws
  <1>5. /\ GoodStore(jobs) /\ Running(jobs) \subseteq Running(store[s]) \ {j}
        /\ EndIsEnd(store[s], touched, settled) => EndIsEnd(jobs, touched, settled)
    BY <1>1, <1>3, <1>4, ApplyGood, ApplyKeeps
  <1> HIDE DEF jobs
  <1>6. ~shared => /\ s = gen /\ Running(jobs) \subseteq InTick(tick[s]) \cup orphans
                   /\ EndIsEnd(jobs, touched', settled) /\ EndIsEnd(file, touched', settled)
    <2> SUFFICES ASSUME ~shared
                 PROVE  /\ s = gen /\ Running(jobs) \subseteq InTick(tick[s]) \cup orphans
                        /\ EndIsEnd(jobs, touched', settled) /\ EndIsEnd(file, touched', settled)
      OBVIOUS
    <2>1. s = gen /\ gen \in loaded
      BY <1>1 DEF IInv, Sole
    <2> QED
      BY <1>1, <1>5, <2>1 DEF IInv, MarkersOwned, EndsStay
  <1>7. loaded' = loaded \cup {s}
    BY <1>1 DEF IInv, AliveInv, Shape
  <1>8. CASE HoldLock(s, jobs, rest) /\ rest # {}
    BY <1>1, <1>5, <1>6, <1>7, <1>8, HoldStep
  <1>9. CASE CallThrows(s, jobs) /\ failures' = failures /\ holder' = 0 /\ held' = {}
    BY <1>1, <1>5, <1>6, <1>7, <1>9, CallStep
  <1>10. CASE CallEnds(s, Recompute(jobs, TRUE)) /\ holder' = 0 /\ held' = {}
    <2> DEFINE new == Recompute(jobs, TRUE)
    <2>1. /\ GoodStore(new) /\ Running(new) \subseteq Running(jobs)
          /\ EndIsEnd(jobs, touched', settled) => EndIsEnd(new, touched', settled)
      BY <1>1, <1>5, RecomputeGood, RecomputeKeeps
    <2> HIDE DEF new
    <2>2. CallEnds(s, new) /\ holder' = 0 /\ held' = {}
      BY <1>10 DEF new
    <2> QED
      BY <1>1, <1>6, <1>7, <2>1, <2>2, CallStep
  <1> QED
    BY <1>2, <1>8, <1>9, <1>10

(***************************************************************************)
(* What a section of a tick finds: the tick belongs to a service that has  *)
(* been started, and until another one takes over it is the only one.      *)
(***************************************************************************)
LEMMA TickFacts ==
  ASSUME IInv, NEW s \in Services, tick[s].pc # "idle", holder = 0,
         UNCHANGED <<now, loaded, holder, held, services, fresh, ops, touched>>
  PROVE  /\ s <= gen /\ holder' = 0 /\ held = {} /\ held' = {}
         /\ ops' \in 0 .. MaxOps /\ touched' \in SUBSET OneShot /\ now \in Nat
         /\ tick \in [Services -> Tick] /\ tick[s] \in Tick /\ TickShape(tick[s])
         /\ GoodStore(file) /\ GoodStore(store[s]) /\ failures \in 0 .. MaxFailures
         /\ ~shared => /\ s = gen /\ gen \in loaded
                       /\ Running(file) \subseteq InTick(tick[s]) \cup orphans
                       /\ Running(store[s]) \subseteq InTick(tick[s]) \cup orphans
                       /\ EndIsEnd(file, touched, settled) /\ EndIsEnd(store[s], touched, settled)
  <1>1. /\ now \in 0 .. MaxNow /\ held = {} /\ ops \in 0 .. MaxOps /\ touched \subseteq OneShot
        /\ tick \in [Services -> Tick] /\ TickShape(tick[s]) /\ (s > gen => Unborn(s))
        /\ GoodStore(file) /\ GoodStore(store[s]) /\ failures \in 0 .. MaxFailures
        /\ gen \in Services
    BY DEF IInv, AliveInv, Types, Shape
  <1>2. s <= gen /\ now \in Nat /\ gen # 0
    BY <1>1, CronAssumption DEF Unborn, Services
  <1>3. ASSUME ~shared
        PROVE  /\ s = gen /\ gen \in loaded
               /\ Running(file) \subseteq InTick(tick[s]) \cup orphans
               /\ Running(store[s]) \subseteq InTick(tick[s]) \cup orphans
               /\ EndIsEnd(file, touched, settled) /\ EndIsEnd(store[s], touched, settled)
    <2>1. s = gen /\ gen \in loaded
      BY <1>3 DEF IInv, Sole
    <2> QED
      BY <1>2, <1>3, <2>1 DEF IInv, MarkersOwned, EndsStay
  <1> QED
    BY <1>1, <1>2, <1>3

(***************************************************************************)
(* The first section of a tick: nobody has marked a job, so that only the  *)
(* jobs the tick takes up are, and those whose end was not saved.          *)
(***************************************************************************)
LEMMA CollectStep ==
  ASSUME IInv, NEW s \in Services, TickCollect(s)
  PROVE  IInv'
  <1> DEFINE due == Runnable(file)
             mark == MarkRunning(file, due)
             idle == Recompute(file, FALSE)
  <1>1. /\ tick[s].pc = "lock" /\ holder = 0
        /\ UNCHANGED <<now, services, loaded, holder, held, fresh, ops, touched>>
    BY DEF TickCollect
  <1>2. /\ s <= gen /\ holder' = 0 /\ held' = {}
        /\ ops' \in 0 .. MaxOps /\ touched' \in SUBSET OneShot /\ now \in Nat
        /\ tick \in [Services -> Tick] /\ tick[s] \in Tick /\ TickShape(tick[s])
        /\ GoodStore(file) /\ GoodStore(store[s]) /\ failures \in 0 .. MaxFailures
        /\ ~shared => /\ s = gen /\ gen \in loaded
                      /\ Running(file) \subseteq InTick(tick[s]) \cup orphans
                      /\ Running(store[s]) \subseteq InTick(tick[s]) \cup orphans
                      /\ EndIsEnd(file, touched, settled) /\ EndIsEnd(store[s], touched, settled)
    BY <1>1, TickFacts
  <1>3. InTick(tick[s]) = {}
    BY <1>1, <1>2 DEF InTick, TickShape
  <1>4. due \in SUBSET Jobs
    BY <1>2 DEF Runnable, GoodStore
  <1>5. /\ GoodStore(idle) /\ Running(idle) \subseteq Running(file)
        /\ EndIsEnd(file, touched, settled) => EndIsEnd(idle, touched, settled)
    BY <1>2, RecomputeGood, RecomputeKeeps
  <1>6. /\ GoodStore(mark) /\ DOMAIN mark = DOMAIN file
        /\ \A j \in DOMAIN file : /\ j \notin due => mark[j] = file[j]
                                  /\ mark[j].enabled = file[j].enabled /\ mark[j].last = file[j].last
    BY <1>2, MarkGood
  <1>7. \/ FinishTick(s, idle)
        \/ /\ due # {}
           /\ Save(s, mark, due)
           /\ tick' = [tick EXCEPT ![s] = [[tick[s] EXCEPT !.pc = "exec"] EXCEPT !.todo = due]]
           /\ UNCHANGED <<timer, failed>>
        \/ Fault /\ due = {} /\ AbortTick(s, idle, due)
        \/ Fault /\ due # {} /\ AbortTick(s, mark, due)
        \/ Fault /\ AbortTick(s, store[s], {})
    BY <1>2 DEF TickCollect, Maintenance
  <1> HIDE DEF due, idle, mark
  <1>8. /\ Running(mark) \subseteq Running(file) \cup due
        /\ EndIsEnd(file, touched, settled) => EndIsEnd(mark, touched, settled)
    BY <1>6 DEF Running, EndIsEnd
  <1>9. CASE FinishTick(s, idle)
    BY <1>1, <1>2, <1>3, <1>5, <1>9, TickEndStep
  <1>10. ASSUME Fault, due = {}, AbortTick(s, idle, due)
         PROVE  IInv'
    <2>1. failures' \in 0 .. MaxFailures
      BY <1>10, FaultFacts DEF IInv, AliveInv
    <2> QED
      BY <1>1, <1>2, <1>3, <1>4, <1>5, <1>10, <2>1, TickEndStep
  <1>11. ASSUME Fault, AbortTick(s, mark, due)
         PROVE  IInv'
    <2>1. failures' \in 0 .. MaxFailures
      BY <1>11, FaultFacts DEF IInv, AliveInv
    <2>2. ~shared => Running(mark) \subseteq orphans \cup due /\ Running(file) \subseteq orphans \cup due
      BY <1>2, <1>3, <1>8
    <2> QED
      BY <1>1, <1>2, <1>4, <1>6, <1>8, <1>11, <2>1, <2>2, TickEndStep
  <1>12. ASSUME Fault, AbortTick(s, store[s], {})
         PROVE  IInv'
    <2> DEFINE jobs == store[s]
    <2>1. failures' \in 0 .. MaxFailures
      BY <1>12, FaultFacts DEF IInv, AliveInv
    <2>2. /\ GoodStore(jobs) /\ AbortTick(s, jobs, {})
          /\ ~shared => /\ Running(jobs) \subseteq orphans \cup {} /\ Running(file) \subseteq orphans \cup {}
                        /\ EndIsEnd(jobs, touched, settled)
      BY <1>2, <1>3, <1>12
    <2> HIDE DEF jobs
    <2>3. {} \in SUBSET Jobs
      OBVIOUS
    <2> QED
      BY <1>1, <1>2, <2>1, <2>2, <2>3, TickEndStep
  <1>13. ASSUME due # {}, Save(s, mark, due), UNCHANGED <<timer, failed>>,
                tick' = [tick EXCEPT ![s] = [[tick[s] EXCEPT !.pc = "exec"] EXCEPT !.todo = due]]
         PROVE  IInv'
    <2> DEFINE t == [[tick[s] EXCEPT !.pc = "exec"] EXCEPT !.todo = due]
    <2>1. t \in Tick /\ t.pc = "exec" /\ t.todo = due /\ t.done = tick[s].done
      BY <1>2, <1>4 DEF Tick
    <2>2. tick' = [tick EXCEPT ![s] = t]
      BY <1>13
    <2> HIDE DEF t
    <2>3. /\ tick' \in [Services -> Tick] /\ tick'[s] = t
          /\ \A r \in Services : r # s => tick'[r] = tick[r]
      BY <1>2, <2>1, <2>2
    <2>4. TickShape(tick'[s]) /\ due \subseteq InTick(tick'[s]) /\ tick'[s].pc # "idle"
      BY <1>13, <2>1, <2>3 DEF TickShape, InTick
    <2>5. /\ SectionEnd(s, mark) /\ file' = mark
          /\ orphans' \subseteq orphans /\ Running(mark) \cap orphans \subseteq orphans' \cup due
          /\ failures' = failures
      BY <1>6, <1>13, SaveFacts DEF IInv, AliveInv
    <2>6. /\ timer' \in [Services -> Time] /\ failed' \in [Services -> Failed] /\ orphans' \subseteq Jobs
          /\ timer' = timer /\ failed' = failed
      BY <1>13, <2>5 DEF IInv, AliveInv, Types
    <2>7. EndsWell(s, mark)
      BY <1>1, <1>2, <2>3, <2>4, <2>5, <2>6 DEF EndsWell
    <2>8. ~shared => s = gen /\ gen \in loaded' /\ Accounted(s, mark)
      BY <1>1, <1>2, <1>3, <1>8, <2>4, <2>5 DEF Accounted
    <2> QED
      BY <1>6, <2>5, <2>7, <2>8, SectionStep
  <1> QED
    BY <1>7, <1>9, <1>10, <1>11, <1>12, <1>13

(***************************************************************************)
(* The last section of a tick: every job the tick has marked has ended,    *)
(* and its marker is off, or known to be left.                             *)
(***************************************************************************)
LEMMA ApplyStep ==
  ASSUME IInv, NEW s \in Services, TickApply(s)
  PROVE  IInv'
  <1> DEFINE results == tick[s].done
             left == DOMAIN results
             jobs == ApplyJobResults(file, results)
             new == Recompute(jobs, FALSE)
             throws == ThrowsAt(file, results)
  <1>1. /\ tick[s].pc = "apply" /\ holder = 0
        /\ UNCHANGED <<now, services, loaded, holder, held, fresh, ops, touched>>
    BY DEF TickApply
  <1>2. /\ s <= gen /\ holder' = 0 /\ held' = {}
        /\ ops' \in 0 .. MaxOps /\ touched' \in SUBSET OneShot /\ now \in Nat
        /\ tick \in [Services -> Tick] /\ tick[s] \in Tick /\ TickShape(tick[s])
        /\ GoodStore(file) /\ GoodStore(store[s]) /\ failures \in 0 .. MaxFailures
        /\ ~shared => /\ s = gen /\ gen \in loaded
                      /\ Running(file) \subseteq InTick(tick[s]) \cup orphans
                      /\ Running(store[s]) \subseteq InTick(tick[s]) \cup orphans
                      /\ EndIsEnd(file, touched, settled) /\ EndIsEnd(store[s], touched, settled)
    BY <1>1, TickFacts
  <1>3. InTick(tick[s]) = left
    BY <1>1, <1>2 DEF InTick, TickShape
  <1>4. (\A j \in DOMAIN results : results[j] \in Result) /\ left \in SUBSET Jobs
    <2>1. PICK D \in SUBSET Jobs : tick[s].done \in [D -> Result]
      BY <1>2 DEF Tick
    <2> QED
      BY <2>1
  <1>5. \/ throws # {} /\ AbortTick(s, jobs, left) /\ failures' = failures
        \/ throws = {} /\ FinishTick(s, new)
        \/ Fault /\ AbortTick(s, new, left)
        \/ Fault /\ AbortTick(s, store[s], left)
    BY DEF TickApply, Maintenance
  <1>6. /\ GoodStore(jobs) /\ Running(jobs) \subseteq Running(file)
        /\ throws = {} => Running(jobs) \subseteq Running(file) \ left
        /\ EndIsEnd(file, touched, settled) => EndIsEnd(jobs, touched, settled)
    BY <1>2, <1>4, ApplyGood, ApplyKeeps
  <1> HIDE DEF jobs, throws
  <1>7. /\ GoodStore(new) /\ Running(new) \subseteq Running(jobs)
        /\ EndIsEnd(jobs, touched, settled) => EndIsEnd(new, touched, settled)
    BY <1>2, <1>6, RecomputeGood, RecomputeKeeps
  <1> HIDE DEF new, left, results
  <1>8. ASSUME throws # {}, AbortTick(s, jobs, left), failures' = failures
        PROVE  IInv'
    BY <1>1, <1>2, <1>3, <1>4, <1>6, <1>8, TickEndStep
  <1>9. ASSUME throws = {}, FinishTick(s, new)
        PROVE  IInv'
    <2>1. ~shared => Running(new) \subseteq orphans
      BY <1>2, <1>3, <1>6, <1>7, <1>9
    <2>2. {} \in SUBSET Jobs
      OBVIOUS
    <2> QED
      BY <1>1, <1>2, <1>6, <1>7, <1>9, <2>1, <2>2, TickEndStep
  <1>10. ASSUME Fault, AbortTick(s, new, left)
         PROVE  IInv'
    <2>1. failures' \in 0 .. MaxFailures
      BY <1>10, FaultFacts DEF IInv, AliveInv
    <2> QED
      BY <1>1, <1>2, <1>3, <1>4, <1>6, <1>7, <1>10, <2>1, TickEndStep
  <1>11. ASSUME Fault, AbortTick(s, store[s], left)
         PROVE  IInv'
    <2> DEFINE old == store[s]
    <2>1. failures' \in 0 .. MaxFailures
      BY <1>11, FaultFacts DEF IInv, AliveInv
    <2>2. /\ GoodStore(old) /\ AbortTick(s, old, left)
          /\ ~shared => /\ Running(old) \subseteq orphans \cup left /\ Running(file) \subseteq orphans \cup left
                        /\ EndIsEnd(old, touched, settled)
      BY <1>2, <1>3, <1>11
    <2> HIDE DEF old
    <2> QED
      BY <1>1, <1>2, <1>4, <2>1, <2>2, TickEndStep
  <1> QED
    BY <1>5, <1>8, <1>9, <1>10, <1>11

(***************************************************************************)
(* An operation of a client: the store it works on is good and marked as   *)
(* the tick and the failures would have it, even if start has not been     *)
(* able to load it.                                                        *)
(***************************************************************************)
LEMMA OperationFacts ==
  ASSUME IInv, Operation
  PROVE  /\ holder = 0 /\ held = {} /\ client \in Services /\ client <= gen
         /\ UNCHANGED <<now, tick, services>> /\ loaded' = loaded \cup {client}
         /\ ops' \in 0 .. MaxOps /\ now \in Nat /\ touched \in SUBSET OneShot
         /\ tick \in [Services -> Tick] /\ TickShape(tick[client]) /\ settled \cap fresh = {}
         /\ GoodStore(file) /\ failures \in 0 .. MaxFailures
         /\ ~shared => client = gen /\ EndIsEnd(file, touched, settled)
         /\ \A recompute \in BOOLEAN :
               /\ GoodStore(Memory(recompute))
               /\ ~shared => /\ Running(Memory(recompute)) \subseteq InTick(tick[client]) \cup orphans
                             /\ EndIsEnd(Memory(recompute), touched, settled)
  <1>1. /\ Types /\ Shape /\ holder = 0 /\ ops + failures < (IF shared THEN MaxSharedOps ELSE MaxOps)
        /\ client \in loaded \/ failed[client] = "unarmed"
        /\ ops' = ops + 1 /\ UNCHANGED <<now, tick, services>> /\ loaded' = loaded \cup {client}
    BY DEF Operation, MoreOps, IInv, AliveInv
  <1>2. /\ held = {} /\ client \in Services /\ client <= gen /\ gen \in Services
        /\ now \in Nat /\ touched \in SUBSET OneShot
        /\ tick \in [Services -> Tick] /\ TickShape(tick[client]) /\ settled \cap fresh = {}
        /\ GoodStore(file) /\ GoodStore(store[client]) /\ failures \in 0 .. MaxFailures
    BY <1>1, CronAssumption DEF Types, Shape
  <1>3. ops' \in 0 .. MaxOps
    <2>1. ops \in Nat /\ failures \in Nat /\ MaxOps \in Nat /\ MaxSharedOps \in Nat /\ MaxSharedOps <= MaxOps
      BY <1>1, CronAssumption DEF Types
    <2> QED
      BY <1>1, <2>1
  <1>4. ~shared => client = gen /\ EndIsEnd(file, touched, settled) /\ gen # 0
    BY <1>2 DEF IInv, Sole, EndsStay, Services
  <1>5. ASSUME NEW recompute \in BOOLEAN
        PROVE  /\ GoodStore(Memory(recompute))
               /\ ~shared => /\ Running(Memory(recompute)) \subseteq InTick(tick[client]) \cup orphans
                             /\ EndIsEnd(Memory(recompute), touched, settled)
    <2>1. CASE client \in loaded
      <3>1. Memory(recompute) = store[client]
        BY <2>1 DEF Memory
      <3> QED
        BY <1>1, <1>2, <1>4, <2>1, <3>1 DEF IInv, MarkersOwned, EndsStay
    <2>2. CASE client \notin loaded
      <3> DEFINE new == Recompute(file, TRUE)
      <3>1. Memory(recompute) = IF recompute THEN new ELSE file
        BY <2>2 DEF Memory, RecomputeNextRuns
      <3>2. /\ GoodStore(new) /\ Running(new) \subseteq Running(file)
            /\ EndIsEnd(file, touched, settled) => EndIsEnd(new, touched, settled)
        BY <1>2, RecomputeGood, RecomputeKeeps
      <3> HIDE DEF new
      <3>3. ~shared => Running(file) \subseteq InTick(tick[client]) \cup orphans
        BY <1>1, <1>4, <2>2 DEF IInv, MarkersOwned
      <3> QED
        BY <1>2, <1>4, <3>1, <3>2, <3>3
    <2> QED
      BY <2>1, <2>2
  <1> QED
    BY <1>1, <1>2, <1>3, <1>4, <1>5

(***************************************************************************)
(* add, update, remove, run and the reads of clients.                      *)
(***************************************************************************)
LEMMA ClientOps ==
  ASSUME IInv, ClientStep \/ List
  PROVE  IInv'
  <1>1. ASSUME NEW j \in Jobs, NEW enabled \in BOOLEAN, Add(j, enabled)
        PROVE  IInv'
    <2> DEFINE jobs == Memory(TRUE)
               more == With(jobs, j, NewJob(j, enabled))
               new == Recompute(more, TRUE)
    <2>1. /\ Operation /\ j \in fresh /\ fresh' = fresh \ {j} /\ CallEnds(client, new)
          /\ UNCHANGED <<holder, held, touched>>
      BY <1>1 DEF Add, RecomputeNextRuns
    <2>2. /\ GoodJob(j, NewJob(j, enabled)) /\ NewJob(j, enabled).running = None
          /\ NewJob(j, enabled).last = "never"
      BY <2>1, OperationFacts, NewJobGood
    <2>3. /\ GoodStore(jobs)
          /\ ~shared => /\ Running(jobs) \subseteq InTick(tick[client]) \cup orphans
                        /\ EndIsEnd(jobs, touched, settled)
      BY <2>1, OperationFacts
    <2> HIDE DEF jobs
    <2>4. /\ GoodStore(more) /\ DOMAIN more = DOMAIN jobs \cup {j}
          /\ more[j] = NewJob(j, enabled) /\ \A i \in DOMAIN jobs : i # j => more[i] = jobs[i]
      BY <2>2, <2>3, WithGood
    <2> HIDE DEF more
    <2>5. /\ Running(more) \subseteq Running(jobs)
          /\ EndIsEnd(jobs, touched, settled) => EndIsEnd(more, touched, settled)
      BY <2>1, <2>2, <2>4, OperationFacts DEF Running, EndIsEnd
    <2>6. /\ GoodStore(new) /\ Running(new) \subseteq Running(more)
          /\ EndIsEnd(more, touched', settled) => EndIsEnd(new, touched', settled)
      BY <2>1, <2>4, OperationFacts, RecomputeGood, RecomputeKeeps
    <2> HIDE DEF new
    <2> QED
      BY <2>1, <2>3, <2>5, <2>6, OperationFacts, CallStep
  <1>2. ASSUME NEW j \in Jobs, NEW patch \in Patches, Update(j, patch)
        PROVE  IInv'
    <2> DEFINE jobs == Memory(FALSE)
               job == Patched(j, jobs[j], patch)
               new == [jobs EXCEPT ![j] = job]
    <2>1. /\ Operation /\ j \in DOMAIN jobs /\ (patch = "break" => j \notin OneShot)
          /\ CallEnds(client, new) \/ (CallThrows(client, new) /\ failures' = failures)
          /\ touched' = touched \cup ({j} \cap OneShot) /\ UNCHANGED <<holder, held, fresh>>
      BY <1>2 DEF Update
    <2>2. touched' \in SUBSET OneShot /\ (j \in OneShot => j \in touched') /\ touched \subseteq touched'
      BY <2>1, OperationFacts
    <2>3. /\ GoodStore(jobs)
          /\ ~shared => /\ Running(jobs) \subseteq InTick(tick[client]) \cup orphans
                        /\ EndIsEnd(jobs, touched, settled)
      BY <2>1, OperationFacts
    <2> HIDE DEF jobs
    <2>4. GoodJob(j, jobs[j])
      BY <2>1, <2>3 DEF GoodStore
    <2>5. GoodJob(j, job) /\ (job.running # None => jobs[j].running # None)
      BY <2>1, <2>4, OperationFacts, PatchedGood
    <2> HIDE DEF job
    <2>6. /\ GoodStore(new) /\ DOMAIN new = DOMAIN jobs
          /\ new[j] = job /\ \A i \in DOMAIN jobs : i # j => new[i] = jobs[i]
      BY <2>1, <2>3, <2>5, ExceptGood
    <2> HIDE DEF new
    <2>7. /\ Running(new) \subseteq Running(jobs)
          /\ EndIsEnd(jobs, touched, settled) => EndIsEnd(new, touched', settled)
          /\ EndIsEnd(file, touched, settled) => EndIsEnd(file, touched', settled)
      BY <2>1, <2>2, <2>5, <2>6 DEF Running, EndIsEnd
    <2> QED
      BY <2>1, <2>2, <2>3, <2>6, <2>7, OperationFacts, CallStep
  <1>3. ASSUME NEW j \in Jobs, Remove(j)
        PROVE  IInv'
    <2> DEFINE jobs == Memory(TRUE)
               new == [i \in DOMAIN jobs \ {j} |-> jobs[i]]
    <2>1. /\ Operation /\ CallEnds(client, new) /\ UNCHANGED <<holder, held, fresh, touched>>
      BY <1>3 DEF Remove
    <2>2. /\ GoodStore(jobs)
          /\ ~shared => /\ Running(jobs) \subseteq InTick(tick[client]) \cup orphans
                        /\ EndIsEnd(jobs, touched, settled)
      BY <2>1, OperationFacts
    <2> HIDE DEF jobs
    <2>3. /\ GoodStore(new) /\ DOMAIN new = DOMAIN jobs \ {j}
          /\ \A i \in DOMAIN new : new[i] = jobs[i]
      BY <2>2, RemovedGood
    <2> HIDE DEF new
    <2>4. /\ Running(new) \subseteq Running(jobs)
          /\ EndIsEnd(jobs, touched, settled) => EndIsEnd(new, touched', settled)
      BY <2>1, <2>3 DEF Running, EndIsEnd
    <2> QED
      BY <2>1, <2>2, <2>3, <2>4, OperationFacts, CallStep
  <1>4. ASSUME NEW j \in Jobs, NEW mode \in {"due", "force"}, Run(j, mode)
        PROVE  IInv'
    <2> DEFINE jobs == Memory(FALSE)
    <2>1. /\ Operation /\ HoldLock(client, jobs, {j}) /\ fresh' = fresh
          /\ touched' = touched \cup ({j} \cap OneShot)
      BY <1>4 DEF Run
    <2>2. touched' \in SUBSET OneShot /\ touched \subseteq touched'
      BY <2>1, OperationFacts
    <2>3. /\ GoodStore(jobs)
          /\ ~shared => /\ Running(jobs) \subseteq InTick(tick[client]) \cup orphans
                        /\ EndIsEnd(jobs, touched, settled)
      BY <2>1, OperationFacts
    <2> HIDE DEF jobs
    <2>4. EndIsEnd(jobs, touched, settled) => EndIsEnd(jobs, touched', settled)
      BY <2>2 DEF EndIsEnd
    <2> QED
      BY <2>1, <2>2, <2>3, <2>4, OperationFacts, HoldStep
  <1>5. CASE List
    <2> DEFINE jobs == Memory(FALSE)
               new == Recompute(jobs, FALSE)
               s == client
    <2>1. /\ Operation /\ UNCHANGED <<timer, failed, holder, held, fresh, touched>>
          /\ Save(s, new, {}) \/ (Fault /\ NotSaved(s, new, Unowned(s)))
      BY <1>5 DEF List, Maintenance
    <2>2. /\ GoodStore(jobs)
          /\ ~shared => /\ Running(jobs) \subseteq InTick(tick[s]) \cup orphans
                        /\ EndIsEnd(jobs, touched, settled)
      BY <2>1, OperationFacts
    <2>3. s \in loaded => jobs = store[s]
      BY DEF Memory
    <2> HIDE DEF jobs
    <2>4. /\ GoodStore(new) /\ Running(new) \subseteq Running(jobs) /\ (HasWake(new) => HasWake(jobs))
          /\ EndIsEnd(jobs, touched', settled) => EndIsEnd(new, touched', settled)
      BY <2>1, <2>2, OperationFacts, RecomputeGood, RecomputeKeeps
    <2> HIDE DEF new, s
    <2>5. /\ holder = 0 /\ held = {} /\ s \in Services /\ s <= gen /\ gen # 0
          /\ UNCHANGED <<now, tick, services>> /\ loaded' = loaded \cup {s}
          /\ ops' \in 0 .. MaxOps /\ touched \in SUBSET OneShot
          /\ tick \in [Services -> Tick] /\ TickShape(tick[s])
          /\ GoodStore(file) /\ failures \in 0 .. MaxFailures
          /\ ~shared => s = gen /\ EndIsEnd(file, touched, settled)
          /\ s \in loaded \/ failed[s] = "unarmed"
      BY <2>1, OperationFacts DEF s, Operation, IInv, AliveInv, Types, Services
    <2>6. /\ SectionEnd(s, new) /\ orphans' \subseteq Jobs /\ failures' \in 0 .. MaxFailures
          /\ \/ file' = new /\ Running(new) \cap orphans \subseteq orphans'
             \/ file' = file /\ orphans' = orphans \cup Unowned(s)
      <3>1. Types /\ orphans \subseteq Jobs
        BY DEF IInv, AliveInv, Types
      <3>2. CASE Save(s, new, {})
        <4>1. /\ SectionEnd(s, new) /\ file' = new
              /\ orphans' \subseteq orphans /\ Running(new) \cap orphans \subseteq orphans' \cup {}
              /\ failures' = failures
          BY <2>4, <2>5, <3>1, <3>2, SaveFacts
        <4> QED
          BY <2>5, <3>1, <4>1
      <3>3. CASE Fault /\ NotSaved(s, new, Unowned(s))
        <4>1. SectionEnd(s, new) /\ file' = file /\ orphans' = orphans \cup Unowned(s)
          BY <2>5, <3>3, NotSavedFacts
        <4>2. Unowned(s) \subseteq Jobs /\ failures' \in 0 .. MaxFailures
          BY <2>5, <3>1, <3>3, FaultFacts DEF Unowned, GoodStore
        <4> QED
          BY <3>1, <4>1, <4>2
      <3> QED
        BY <2>1, <3>2, <3>3
    <2>7. s = gen /\ HasWake(new) => timer[s] # None \/ tick[s].pc # "idle" \/ failed[s] = "unarmed"
      BY <2>3, <2>4, <2>5 DEF IInv, AliveInv, Alive
    <2>8. EndsWell(s, new)
      <3>1. timer \in [Services -> Time] /\ failed \in [Services -> Failed]
        BY DEF IInv, AliveInv, Types
      <3> QED
        BY <2>1, <2>5, <2>6, <2>7, <3>1 DEF EndsWell
    <2>9. Running(file) \subseteq InTick(tick[s]) \cup Unowned(s)
      BY DEF Unowned, Running, InTick
    <2>10. ~shared => s = gen /\ gen \in loaded' /\ Accounted(s, new)
      BY <2>1, <2>2, <2>4, <2>5, <2>6, <2>9 DEF Accounted, s
    <2> QED
      BY <2>4, <2>5, <2>6, <2>8, <2>10, SectionStep
  <1> QED
    BY <1>1, <1>2, <1>3, <1>4, <1>5 DEF ClientStep

(***************************************************************************)
(* The timer fires: a tick begins, or the timer is armed again.            *)
(***************************************************************************)
LEMMA TimerStep ==
  ASSUME IInv, NEW s \in Services, TimerFires(s)
  PROVE  IInv'
  <1> DEFINE t == [tick[s] EXCEPT !.pc = "lock"]
  <1>1. /\ timer[s] # None /\ now + 1 \in Nat /\ tick \in [Services -> Tick] /\ tick[s] \in Tick
        /\ timer \in [Services -> Time]
        /\ UNCHANGED <<now, file, store, loaded, holder, held, gen, client, shared,
                       fresh, ops, settled, touched, failures, failed, orphans>>
        /\ s <= gen
    <2>1. Types /\ Shape /\ timer[s] # None
      BY DEF TimerFires, IInv, AliveInv
    <2>2. s <= gen
      BY <2>1 DEF Types, Shape, Unborn, Services
    <2> QED
      BY <2>1, <2>2 DEF TimerFires, services, history, faults, Types
  <1>2. t \in Tick /\ t.pc = "lock" /\ t.todo = tick[s].todo /\ t.done = tick[s].done
    BY <1>1 DEF Tick
  <1>3. \/ /\ tick[s].pc = "idle" /\ tick' = [tick EXCEPT ![s] = t] /\ timer' = [timer EXCEPT ![s] = None]
        \/ /\ tick' = tick /\ timer' = [timer EXCEPT ![s] = now + 1]
    BY <1>1 DEF TimerFires
  <1> HIDE DEF t
  <1>4. /\ tick' \in [Services -> Tick] /\ timer' \in [Services -> Time]
        /\ \A r \in Services : /\ r # s => tick'[r] = tick[r] /\ timer'[r] = timer[r]
                               /\ tick'[r].todo = tick[r].todo /\ tick'[r].done = tick[r].done
        /\ timer'[s] # None \/ tick'[s].pc # "idle"
        /\ tick'[s] = tick[s] \/ (tick[s].pc = "idle" /\ tick'[s].pc = "lock")
    BY <1>1, <1>2, <1>3 DEF Time, None
  <1>5. Types'
    BY <1>1, <1>4 DEF IInv, AliveInv, Types
  <1>6. Shape'
    <2>1. ASSUME NEW r \in Services PROVE TickShape(tick'[r]) /\ (r > gen => Unborn(r)')
      <3>1. TickShape(tick[r]) /\ (r > gen => Unborn(r)) /\ gen \in Services
        BY DEF IInv, AliveInv, Types, Shape
      <3>2. TickShape(tick'[r])
        BY <1>1, <1>4, <3>1 DEF TickShape
      <3>3. r > gen => r # s
        BY <1>1, <3>1 DEF Services
      <3> QED
        BY <1>1, <1>4, <3>1, <3>2, <3>3 DEF Unborn
    <2> QED
      BY <1>1, <2>1 DEF IInv, AliveInv, Shape
  <1>7. Alive'
    BY <1>1, <1>4 DEF IInv, AliveInv, Alive, Types
  <1>8. Sole'
    BY <1>1, <1>4 DEF IInv, Sole
  <1>9. MarkersOwned'
    BY <1>1, <1>4 DEF IInv, AliveInv, Types, MarkersOwned, InTick
  <1>10. EndsStay'
    BY <1>1 DEF IInv, EndsStay
  <1> QED
    BY <1>5, <1>6, <1>7, <1>8, <1>9, <1>10 DEF IInv, AliveInv

(***************************************************************************)
(* A job of a tick ends: the tick has it among its results, and marks the  *)
(* next of its jobs.                                                       *)
(***************************************************************************)
LEMMA TickJobStep ==
  ASSUME IInv, NEW s \in Services, NEW status \in Statuses, TickJobEnds(s, status)
  PROVE  IInv'
  <1> DEFINE j == Min(tick[s].todo)
             rest == tick[s].todo \ {j}
             result == [status |-> status, endedAt |-> now]
             done == With(tick[s].done, j, result)
             t == [pc |-> IF rest = {} THEN "apply" ELSE "exec", todo |-> rest, done |-> done]
             jobs == IF rest = {} THEN store[s] ELSE MarkRunning(store[s], {Min(rest)})
  <1>1. /\ tick[s].pc = "exec" /\ tick \in [Services -> Tick] /\ tick[s] \in Tick
        /\ now \in Nat /\ TickShape(tick[s]) /\ GoodStore(store[s])
        /\ UNCHANGED <<now, file, loaded, timer, holder, held, gen, client, shared,
                       fresh, ops, settled, touched, failures, failed, orphans>>
    BY DEF TickJobEnds, services, history, faults, IInv, AliveInv, Types, Shape
  <1>2. tick' = [tick EXCEPT ![s] = t] /\ store' = [store EXCEPT ![s] = jobs]
    BY DEF TickJobEnds, IInv, AliveInv, Types
  <1>3. tick[s].todo \in SUBSET Nat /\ tick[s].todo # {} /\ tick[s].todo \subseteq Jobs
    BY <1>1 DEF TickShape, Tick, Jobs
  <1>4. j \in tick[s].todo /\ j \in Jobs /\ rest \in SUBSET Nat /\ rest \subseteq Jobs
    BY <1>3, MinOfNats
  <1>5. rest # {} => Min(rest) \in rest
    BY <1>4, MinOfNats
  <1> HIDE DEF rest, j
  <1>6. done \in UNION {[D -> Result] : D \in SUBSET Jobs} /\ DOMAIN done = DOMAIN tick[s].done \cup {j}
    <2>1. result \in Result
      BY <1>1 DEF Result
    <2> HIDE DEF result
    <2>2. PICK D \in SUBSET Jobs : tick[s].done \in [D -> Result]
      BY <1>1 DEF Tick
    <2>3. DOMAIN tick[s].done = D /\ D \cup {j} \in SUBSET Jobs
      BY <1>4, <2>2
    <2>4. done \in [D \cup {j} -> Result]
      BY <2>1, <2>2, <2>3 DEF With
    <2> QED
      BY <2>3, <2>4
  <1> HIDE DEF done
  <1>7. /\ t \in Tick /\ TickShape(t) /\ t.pc # "idle"
    BY <1>4, <1>6 DEF Tick, TickShape
  <1>8. InTick(t) = InTick(tick[s])
    BY <1>4, <1>6 DEF InTick, rest
  <1>9. /\ GoodStore(jobs) /\ DOMAIN jobs = DOMAIN store[s]
        /\ \A i \in DOMAIN jobs : /\ i \notin rest => jobs[i] = store[s][i]
                                  /\ jobs[i].enabled = store[s][i].enabled
                                  /\ jobs[i].last = store[s][i].last
    <2>1. CASE rest = {}
      BY <1>1, <2>1
    <2>2. CASE rest # {}
      BY <1>1, <1>5, <2>2, MarkGood
    <2> QED
      BY <2>1, <2>2
  <1>10. Running(jobs) \subseteq Running(store[s]) \cup InTick(tick[s])
    BY <1>9 DEF Running, InTick, rest
  <1> HIDE DEF t, jobs
  <1>11. /\ tick' \in [Services -> Tick] /\ tick'[s] = t
         /\ \A r \in Services : r # s => tick'[r] = tick[r]
    BY <1>1, <1>2, <1>7
  <1>12. /\ store' = [r \in Services |-> store'[r]] /\ store'[s] = jobs
         /\ \A r \in Services : GoodStore(store'[r]) /\ (r # s => store'[r] = store[r])
    BY <1>2, <1>9 DEF IInv, AliveInv, Types
  <1>13. Types'
    BY <1>1, <1>11, <1>12 DEF IInv, AliveInv, Types
  <1>14. Shape'
    <2>1. ASSUME NEW r \in Services PROVE TickShape(tick'[r]) /\ (r > gen => Unborn(r)')
      <3>1. TickShape(tick[r]) /\ (r > gen => Unborn(r))
        BY DEF IInv, AliveInv, Shape
      <3>2. TickShape(tick'[r])
        BY <1>7, <1>11, <3>1
      <3>3. r > gen => r # s
        BY <1>1, <3>1 DEF Unborn
      <3> QED
        BY <1>1, <1>11, <3>1, <3>2, <3>3 DEF Unborn
    <2> QED
      BY <1>1, <2>1 DEF IInv, AliveInv, Shape
  <1>15. Alive'
    BY <1>1, <1>7, <1>11, <1>12 DEF IInv, AliveInv, Alive, Types
  <1>16. Sole'
    BY <1>1, <1>7, <1>11 DEF IInv, Sole
  <1>17. MarkersOwned'
    <2>1. ~shared => s = gen /\ gen \in loaded
      BY <1>1 DEF IInv, Sole
    <2> SUFFICES ASSUME gen \in loaded, ~shared
                 PROVE  /\ Running(store'[gen]) \subseteq
                              InTick(tick'[gen]) \cup orphans \cup (IF holder = gen THEN {Min(held)} ELSE {})
                        /\ holder # gen => Running(file) \subseteq InTick(tick'[gen]) \cup orphans
      BY <1>1, <2>1 DEF MarkersOwned
    <2> QED
      BY <1>8, <1>10, <1>11, <1>12, <2>1 DEF IInv, MarkersOwned
  <1>18. EndsStay'
    <2> SUFFICES ASSUME gen \in loaded, ~shared
                 PROVE  EndIsEnd(store'[gen], touched, settled)
      BY <1>1 DEF IInv, EndsStay
    <2>1. s = gen
      BY <1>1 DEF IInv, Sole
    <2> QED
      BY <1>9, <1>12, <2>1 DEF IInv, EndsStay, EndIsEnd
  <1> QED
    BY <1>13, <1>14, <1>15, <1>16, <1>17, <1>18 DEF IInv, AliveInv

(***************************************************************************)
(* The process crashes, or another service takes over: the new one has not *)
(* loaded the store.                                                       *)
(***************************************************************************)
LEMMA RestartStep ==
  ASSUME IInv, Crash \/ HotReload \/ RestartInProcess
  PROVE  IInv'
  <1>1. /\ gen' = gen + 1 /\ gen \in Services /\ gen' \in Services /\ gen' > gen /\ gen \in Nat
        /\ UNCHANGED <<now, file, fresh, ops, settled, touched, failures, failed, orphans>>
        /\ shared' \in BOOLEAN
    <2>1. gen < MaxServices /\ gen' = gen + 1 /\ gen \in Services
      BY DEF Crash, HotReload, RestartInProcess, NewService, IInv, AliveInv, Types
    <2>2. gen' \in Services /\ gen' > gen /\ gen \in Nat
      BY <2>1, CronAssumption DEF Services
    <2>3. UNCHANGED <<now, file, fresh, ops, settled, touched, failures, failed, orphans>>
      BY DEF Crash, HotReload, RestartInProcess, history, faults
    <2>4. shared' = shared \/ shared' = TRUE
      BY DEF Crash, HotReload, RestartInProcess
    <2>5. shared' \in BOOLEAN
      BY <2>4 DEF IInv, AliveInv, Types
    <2> QED
      BY <2>1, <2>2, <2>3, <2>5
  <1>2. /\ loaded' \subseteq loaded
        /\ store' = [s \in Services |-> store'[s]] /\ \A s \in Services : GoodStore(store'[s])
        /\ timer' \in [Services -> Time] /\ tick' \in [Services -> Tick]
        /\ \A s \in Services : /\ TickShape(tick'[s])
                              /\ timer'[s] \in {timer[s], None} /\ tick'[s].pc \in {tick[s].pc, "idle"}
    <2>1. CASE Crash
      BY <2>1, EmptyGood DEF Crash, TickShape, Time
    <2>2. CASE HotReload \/ RestartInProcess
      <3>1. PICK r : timer' = [timer EXCEPT ![r] = None]
        BY <2>2 DEF HotReload, RestartInProcess
      <3>2. UNCHANGED <<store, loaded, tick>>
        BY <2>2 DEF HotReload, RestartInProcess
      <3> QED
        BY <3>1, <3>2 DEF IInv, AliveInv, Types, Shape, Time
    <2> QED
      BY <2>1, <2>2
  <1>3. /\ holder' \in 0 .. MaxServices /\ held' \subseteq Jobs /\ client' \in Services
        /\ (holder' # 0 <=> held' # {}) /\ (holder' # 0 => holder' \in loaded')
        /\ holder' <= gen' /\ client' <= gen'
    <2>1. CASE Crash
      BY <1>1, <2>1, CronAssumption DEF Crash
    <2>2. CASE HotReload \/ RestartInProcess
      <3>1. /\ UNCHANGED <<holder, held, loaded>> /\ client' \in {client, gen'}
        BY <2>2 DEF HotReload, RestartInProcess
      <3>2. /\ holder \in 0 .. MaxServices /\ held \subseteq Jobs /\ client \in Services
            /\ (holder # 0 <=> held # {}) /\ (holder # 0 => holder \in loaded)
            /\ holder <= gen /\ client <= gen /\ MaxServices \in Nat
        BY CronAssumption DEF IInv, AliveInv, Types, Shape
      <3>3. holder <= gen + 1 /\ client <= gen + 1
        BY <1>1, <3>2 DEF Services
      <3> QED
        BY <1>1, <3>1, <3>2, <3>3
    <2> QED
      BY <2>1, <2>2
  <1>4. ASSUME NEW s \in Services, s > gen
        PROVE  Unborn(s)'
    <2>1. Unborn(s)
      BY <1>4 DEF IInv, AliveInv, Shape
    <2> QED
      BY <1>1, <1>2, <2>1 DEF Unborn
  <1>5. Types'
    BY <1>1, <1>2, <1>3 DEF IInv, AliveInv, Types
  <1>6. Shape'
    <2>1. \A s \in Services : s > gen' => s > gen
      BY <1>1 DEF Services
    <2>2. \A s \in Services : s > gen' => Unborn(s)'
      BY <1>4, <2>1
    <2> QED
      BY <1>2, <1>3, <2>2 DEF Shape
  <1>7. gen' \notin loaded' /\ failed'[gen'] = "no"
    <2>1. Unborn(gen')
      BY <1>1 DEF IInv, AliveInv, Shape
    <2> QED
      BY <1>1, <1>2, <2>1 DEF Unborn
  <1>8. Alive' /\ MarkersOwned'
    BY <1>7 DEF Alive, MarkersOwned
  <1>9. Sole' /\ EndsStay'
    <2>1. CASE Crash
      <3>1. /\ client' = gen' /\ holder' = 0 /\ loaded' = {} /\ shared' = shared
            /\ \A s \in Services : timer'[s] = None /\ tick'[s].pc = "idle"
        BY <2>1, EmptyGood DEF Crash
      <3> QED
        BY <1>1, <3>1 DEF IInv, Sole, EndsStay
    <2>2. CASE HotReload \/ RestartInProcess
      BY <2>2 DEF HotReload, RestartInProcess, Sole, EndsStay
    <2> QED
      BY <2>1, <2>2
  <1> QED
    BY <1>5, <1>6, <1>8, <1>9 DEF IInv, AliveInv

(***************************************************************************)
(* The invariant holds initially.                                          *)
(***************************************************************************)
LEMMA InitIInv == Init => IInv
  <1> SUFFICES ASSUME Init PROVE IInv
    OBVIOUS
  <1>1. /\ now = 0 /\ loaded = {} /\ holder = 0 /\ held = {} /\ gen = 1 /\ client = 1
        /\ shared = FALSE /\ ops = 0 /\ settled = {} /\ touched = {} /\ 1 \in Services
        /\ failures = 0 /\ failed = [s \in Services |-> "no"] /\ orphans = {}
    BY CronAssumption DEF Init, Services
  <1>2. fresh \subseteq Jobs
    BY CronAssumption DEF Init, Jobs
  <1>3. /\ file = [j \in Jobs \ fresh |-> NewJob(j, TRUE)] /\ now \in Nat
    BY <1>1 DEF Init
  <1>4. \A j \in Jobs : GoodJob(j, NewJob(j, TRUE)) /\ NewJob(j, TRUE).last = "never"
    BY <1>3, NewJobGood
  <1>5. GoodStore(file)
    BY <1>3, <1>4 DEF GoodStore
  <1>6. /\ store = [s \in Services |-> store[s]] /\ \A s \in Services : GoodStore(store[s])
        /\ timer \in [Services -> Time] /\ tick \in [Services -> Tick]
        /\ \A s \in Services : TickShape(tick[s]) /\ timer[s] = None /\ tick[s].pc = "idle"
    BY EmptyGood DEF Init, TickShape, Time
  <1>7. Types
    <2>1. /\ 0 \in 0 .. MaxNow /\ 0 \in 0 .. MaxServices /\ 0 \in 0 .. MaxOps /\ 0 \in 0 .. MaxFailures
      BY CronAssumption
    <2>2. failed \in [Services -> Failed]
      BY <1>1 DEF Failed
    <2> QED
      BY <1>1, <1>2, <1>5, <1>6, <2>1, <2>2 DEF Types
  <1>8. Shape /\ Alive /\ Sole /\ MarkersOwned
    BY <1>1, <1>6 DEF Shape, Unborn, Alive, Sole, MarkersOwned
  <1>9. EndsStay
    BY <1>1, <1>3, <1>4 DEF EndsStay, EndIsEnd
  <1> QED
    BY <1>7, <1>8, <1>9 DEF IInv, AliveInv

(***************************************************************************)
(* Every step keeps the invariant.                                         *)
(***************************************************************************)
LEMMA StepIInv == IInv /\ [Next]_vars => IInv'
  <1> SUFFICES ASSUME IInv, [Next]_vars PROVE IInv'
    OBVIOUS
  <1>1. ASSUME UNCHANGED <<file, store, loaded, timer, tick, holder, held, services, history, faults>>,
               now' \in 0 .. MaxNow
        PROVE  IInv'
    <2>1. UNCHANGED <<file, store, loaded, timer, tick, holder, held, gen, client, shared,
                      fresh, ops, settled, touched, failures, failed, orphans>>
      BY <1>1 DEF services, history, faults
    <2>2. Types'
      BY <1>1, <2>1 DEF IInv, AliveInv, Types
    <2>3. Shape' /\ Alive'
      BY <2>1 DEF IInv, AliveInv, Shape, Unborn, Alive
    <2>4. Sole' /\ MarkersOwned' /\ EndsStay'
      BY <2>1 DEF IInv, Sole, MarkersOwned, EndsStay
    <2> QED
      BY <2>2, <2>3, <2>4 DEF IInv, AliveInv
  <1>2. CASE UNCHANGED vars
    <2>1. now \in 0 .. MaxNow
      BY DEF IInv, AliveInv, Types
    <2> QED
      BY <1>1, <1>2, <2>1 DEF vars
  <1>3. CASE Clock
    <2>1. now' \in 0 .. MaxNow
      BY <1>3, CronAssumption DEF Clock, IInv, AliveInv, Types
    <2> QED
      BY <1>1, <1>3, <2>1 DEF Clock
  <1> QED
    BY <1>2, <1>3, StartStep, HeldJobStep, CollectStep, ApplyStep, ClientOps, TimerStep,
       TickJobStep, RestartStep DEF Next, ServiceStep, LockStep

(***************************************************************************)
(* The invariant holds in every reachable state.                           *)
(***************************************************************************)
LEMMA AlwaysIInv == Spec => []IInv
  BY InitIInv, StepIInv, PTL DEF Spec

-----------------------------------------------------------------------------
(***************************************************************************)
(* The state of the scheduler keeps its types: among them, every time that *)
(* it computes is a time, and no count of errors leaves the backoff table. *)
(***************************************************************************)
THEOREM TypeCorrect == Spec => []TypeOK
  <1>1. IInv => TypeOK
    <2> SUFFICES ASSUME IInv PROVE TypeOK
      OBVIOUS
    <2>1. \A jobs \in {file} \cup {store[s] : s \in Services} :
             DOMAIN jobs \subseteq Jobs /\ \A j \in DOMAIN jobs : jobs[j] \in Job
      BY DEF IInv, AliveInv, Types, GoodStore, GoodJob
    <2>2. ASSUME NEW s \in Services
          PROVE  /\ tick[s].pc \in {"idle", "lock", "exec", "apply"}
                 /\ tick[s].todo \subseteq Jobs /\ DOMAIN tick[s].done \subseteq Jobs
                 /\ \A j \in DOMAIN tick[s].done :
                       tick[s].done[j] \in [status : Statuses, endedAt : Nat]
      <3>1. tick[s] \in Tick
        BY DEF IInv, AliveInv, Types
      <3>2. PICK D \in SUBSET Jobs : tick[s].done \in [D -> Result]
        BY <3>1 DEF Tick
      <3> QED
        BY <3>1, <3>2 DEF Tick, Result
    <2> QED
      BY <2>1, <2>2 DEF IInv, AliveInv, Types, TypeOK
  <1> QED
    BY <1>1, AlwaysIInv, PTL

(***************************************************************************)
(* The scheduler does not die: whatever ticks do, even if they fail to     *)
(* read or to write the file or a schedule fails, and whatever operations  *)
(* and restarts that succeed do, a service that waits for a job has a      *)
(* timer armed or a tick that will arm it.  Only a start or an operation   *)
(* that fails may leave it without.                                        *)
(***************************************************************************)
THEOREM SchedulerNeverDies == Spec => []SchedulerAlive
  <1>1. IInv => SchedulerAlive
    <2> SUFFICES ASSUME IInv, gen \in loaded, holder # gen, WakeTime(store[gen]) # None
                 PROVE  timer[gen] # None \/ tick[gen].pc # "idle" \/ failed[gen] = "unarmed"
      BY DEF SchedulerAlive
    <2>1. GoodStore(store[gen]) /\ now \in Nat
      BY DEF IInv, AliveInv, Types
    <2>2. HasWake(store[gen])
      BY <2>1, WakeTimeIsSet
    <2> QED
      BY <2>2 DEF IInv, AliveInv, Alive
  <1> QED
    BY <1>1, AlwaysIInv, PTL

(***************************************************************************)
(* No marker is left behind but by a section that fails: a job marked as   *)
(* running on disk is one that the only service runs, has run in its tick  *)
(* or has locked, or one whose marker a failed section could not take off. *)
(***************************************************************************)
THEOREM NoMarkerLeftBehind == Spec => []MarkerIsOwned
  <1>1. IInv => MarkerIsOwned
    BY DEF IInv, MarkersOwned, MarkerIsOwned, Running, InTick
  <1> QED
    BY <1>1, AlwaysIInv, PTL

(***************************************************************************)
(* A job comes to be scheduled because a client runs it, or because it is  *)
(* enabled in the file when a service starts or a tick begins.             *)
(***************************************************************************)
LEMMA ScheduledFrom ==
  ASSUME IInv, Next, NEW j \in OneShot, j \notin Scheduled, j \in Scheduled'
  PROVE  \/ j \in touched'
         \/ touched' = touched /\ j \in DOMAIN file /\ file[j].enabled
  <1>1. j \notin held /\ \A s \in Services : j \notin tick[s].todo
    BY DEF Scheduled
  <1>2. j \in held' \/ \E s \in Services : j \in tick'[s].todo
    BY DEF Scheduled
  <1>3. tick \in [Services -> Tick] /\ GoodStore(file)
    BY DEF IInv, AliveInv, Types
  <1>4. ASSUME NEW s \in Services, Start(s)
        PROVE  touched' = touched /\ j \in DOMAIN file /\ file[j].enabled
    <2> DEFINE missed == Missed(Cleared(file), {i \in DOMAIN file : file[i].running # None})
    <2>1. /\ held' = held \/ held' = missed
          /\ UNCHANGED <<tick, touched>>
      BY <1>4 DEF Start, HoldLock
    <2>2. j \in missed
      BY <1>1, <1>2, <2>1
    <2>3. j \in DOMAIN Cleared(file) /\ Cleared(file)[j].enabled
      BY <2>2 DEF Missed, Runnable, IsDue
    <2> QED
      BY <1>3, <2>1, <2>3, ClearedGood
  <1>5. ASSUME NEW s \in Services, TickCollect(s)
        PROVE  touched' = touched /\ j \in DOMAIN file /\ file[j].enabled
    <2>1. /\ UNCHANGED <<held, touched>>
          /\ \/ tick' = [tick EXCEPT ![s] = Idle]
             \/ tick' = [tick EXCEPT ![s] = [[tick[s] EXCEPT !.pc = "exec"] EXCEPT !.todo = Runnable(file)]]
      BY <1>3, <1>5 DEF TickCollect, FinishTick, AbortTick
    <2>2. tick[s] \in Tick
      BY <1>3
    <2>3. /\ \A r \in Services : r # s => tick'[r] = tick[r]
          /\ tick'[s].todo = {} \/ tick'[s].todo = Runnable(file)
      BY <1>3, <2>1, <2>2, EmptyGood DEF Tick
    <2>4. j \in Runnable(file)
      BY <1>1, <1>2, <2>1, <2>3
    <2> QED
      BY <2>1, <2>4 DEF Runnable, IsDue
  <1>6. ASSUME NEW i \in Jobs, NEW mode, Run(i, mode)
        PROVE  j \in touched'
    <2>1. held' = {i} /\ tick' = tick /\ (i \in OneShot => i \in touched')
      BY <1>6 DEF Run, Operation, HoldLock
    <2> QED
      BY <1>1, <1>2, <2>1
  <1>7. ASSUME NEW status, HeldJobEnds(status)
        PROVE  FALSE
    <2>1. held' \subseteq held /\ tick' = tick
      BY <1>7 DEF HeldJobEnds, HoldLock
    <2> QED
      BY <1>1, <1>2, <2>1
  <1>8. ASSUME NEW s \in Services, TimerFires(s) \/ TickApply(s) \/ \E status \in Statuses : TickJobEnds(s, status)
        PROVE  FALSE
    <2>1. held' = held
      BY <1>8 DEF TimerFires, TickApply, TickJobEnds
    <2>2. \A r \in Services : r # s => tick'[r] = tick[r]
      BY <1>3, <1>8 DEF TimerFires, TickApply, FinishTick, AbortTick, TickJobEnds
    <2>3. tick[s] \in Tick
      BY <1>3
    <2>4. CASE TimerFires(s)
      <3>1. tick' = tick \/ tick' = [tick EXCEPT ![s] = [tick[s] EXCEPT !.pc = "lock"]]
        BY <1>3, <2>4 DEF TimerFires
      <3>2. tick'[s].todo = tick[s].todo
        BY <1>3, <2>3, <3>1 DEF Tick
      <3> QED
        BY <1>1, <1>2, <2>1, <2>2, <3>2
    <2>5. CASE TickApply(s)
      <3>1. tick'[s].todo = {}
        BY <1>3, <2>5, EmptyGood DEF TickApply, FinishTick, AbortTick
      <3> QED
        BY <1>1, <1>2, <2>1, <2>2, <3>1
    <2>6. ASSUME NEW status \in Statuses, TickJobEnds(s, status)
          PROVE  FALSE
      <3>1. tick'[s].todo \subseteq tick[s].todo
        BY <1>3, <2>6 DEF TickJobEnds
      <3> QED
        BY <1>1, <1>2, <2>1, <2>2, <3>1
    <2> QED
      BY <1>8, <2>4, <2>5, <2>6
  <1>9. CASE Crash
    <2>1. held' = {} /\ \A s \in Services : tick'[s].todo = {}
      BY <1>9, EmptyGood DEF Crash
    <2> QED
      BY <1>2, <2>1
  <1>10. CASE held' = held /\ tick' = tick
    BY <1>1, <1>2, <1>10
  <1>11. ASSUME NEW i \in Jobs, \/ \E enabled \in BOOLEAN : Add(i, enabled)
                                \/ \E patch \in Patches : Update(i, patch)
                                \/ Remove(i)
         PROVE  held' = held /\ tick' = tick
    BY <1>11 DEF Add, Update, Remove, Operation
  <1>12. ASSUME List \/ HotReload \/ RestartInProcess \/ Clock
         PROVE  held' = held /\ tick' = tick
    BY <1>12 DEF List, Operation, HotReload, RestartInProcess, Clock
  <1>13. ASSUME NEW s \in Services, StartCannotRead(s)
         PROVE  held' = held /\ tick' = tick
    BY <1>13 DEF StartCannotRead
  <1> QED
    BY <1>4, <1>5, <1>6, <1>7, <1>8, <1>9, <1>10, <1>11, <1>12, <1>13
       DEF Next, ServiceStep, LockStep, ClientStep

(***************************************************************************)
(* A one-shot whose end or removal is on disk is not scheduled again by    *)
(* any tick, start, crash or failure, unless a client touches it or        *)
(* another service has taken over in the same process.                     *)
(***************************************************************************)
THEOREM OneShotNeverRefires == Spec => OneShotRunsOnce
  <1>1. IInv /\ [Next]_vars => [\A j \in OneShot : Refires(j) => shared]_vars
    <2> SUFFICES ASSUME IInv, Next, ~shared, NEW j \in OneShot,
                        j \in settled, j \notin touched', j \notin Scheduled, j \in Scheduled'
                 PROVE  FALSE
      BY DEF Refires
    <2>1. touched' = touched /\ j \in DOMAIN file /\ file[j].enabled
      BY ScheduledFrom
    <2> QED
      BY <2>1 DEF IInv, EndsStay, EndIsEnd
  <1> QED
    BY <1>1, AlwaysIInv, PTL DEF OneShotRunsOnce, Spec
=============================================================================
