-------------------------- MODULE SubagentRegistry --------------------------
(***************************************************************************)
(* The registry of subagent runs (agents/subagent-registry.ts): who learns *)
(* that a run has ended, when its result is announced to the requester and *)
(* how often that is tried, and when the entry goes.                       *)
(*                                                                         *)
(* Everything the registry does between two awaits is one step: the event  *)
(* listener, the answer of agent.wait, the end of an announce flow, a      *)
(* retry timer, the sweeper, and the commands that kill and steer a run.   *)
(* Each of them saves the registry before it ends, so the file holds what  *)
(* the entries do; a crash loses what is not part of an entry.             *)
(***************************************************************************)
EXTENDS Integers, FiniteSets

CONSTANTS
    Runs,           \* run ids
    Expecting,      \* runs with expectsCompletionMessage
    DeleteRuns,     \* runs with cleanup = "delete"
    MaxRetryCount,  \* MAX_ANNOUNCE_RETRY_COUNT
    Archive,        \* is archiveAfterMinutes positive?
    MaxTimers,      \* bound: timers counted for a run
    MaxCrashes      \* bound: crashes

ASSUME RegistryAssumption ==
    /\ Expecting \subseteq Runs /\ DeleteRuns \subseteq Runs
    /\ MaxRetryCount \in Nat \ {0} /\ MaxTimers \in Nat \ {0} /\ MaxCrashes \in Nat
    /\ Archive \in BOOLEAN

VARIABLES
    run,        \* the entry of each run and what the process knows about it
    child,      \* the runs whose agent is working
    steering,   \* the runs a steer command is about to replace
    sweeper,    \* is the sweeper's interval set?
    attempts,   \* history: announce flows started for each run
    announced,  \* history: announce flows of each run that succeeded
    crashes     \* crashes so far

vars == <<run, child, steering, sweeper, attempts, announced, crashes>>

(***************************************************************************)
(* The fields of an entry, then resumedRuns, the call of agent.wait, the   *)
(* announce flows under way, and the timers of resumeSubagentRun: those    *)
(* set since the last failed announce, which fire when its backoff is      *)
(* over, and older ones.                                                   *)
(***************************************************************************)
Run == [state : {"new", "listed", "gone"}, ended : BOOLEAN, expired : BOOLEAN,
        handled : BOOLEAN, completed : BOOLEAN, retries : 0 .. MaxRetryCount,
        backoff : BOOLEAN, suppressed : {"no", "steer", "killed"},
        resumed : BOOLEAN, waiting : BOOLEAN, flows : 0 .. 2,
        timers : 0 .. MaxTimers, oldTimers : 0 .. MaxTimers]

TypeOK ==
    /\ run \in [Runs -> Run]
    /\ child \subseteq Runs /\ steering \subseteq Runs
    /\ sweeper \in BOOLEAN
    /\ attempts \in [Runs -> Nat] /\ announced \in [Runs -> Nat]
    /\ crashes \in 0 .. MaxCrashes

NewRun ==
    [state |-> "new", ended |-> FALSE, expired |-> FALSE, handled |-> FALSE,
     completed |-> FALSE, retries |-> 0, backoff |-> FALSE, suppressed |-> "no",
     resumed |-> FALSE, waiting |-> FALSE, flows |-> 0, timers |-> 0, oldTimers |-> 0]

Listed == {r \in Runs : run[r].state = "listed"}
AtMost(n, bound) == IF n <= bound THEN n ELSE bound

-----------------------------------------------------------------------------
(***************************************************************************)
(* beginSubagentCleanup and startSubagentAnnounceCleanupFlow: the flag     *)
(* cleanupHandled keeps a second flow from starting.                       *)
(***************************************************************************)
StartFlowAlways(e) ==           \* mutant: a flow is started although one is under way
    IF e.state # "listed" \/ e.completed THEN e
    ELSE [e EXCEPT !.handled = TRUE, !.flows = AtMost(@ + 1, 2)]

StartFlow(e) ==
    IF e.state # "listed" \/ e.completed \/ e.handled THEN e
    ELSE [e EXCEPT !.handled = TRUE, !.flows = AtMost(@ + 1, 2)]

(***************************************************************************)
(* resumeSubagentRun.  The retry it postpones marks the run as resumed, as *)
(* does a flow it starts.                                                  *)
(***************************************************************************)
Resume(r, e) ==
    IF e.state # "listed" \/ e.resumed \/ e.completed THEN e
    ELSE IF e.retries >= MaxRetryCount \/ (e.ended /\ e.expired)
    THEN [e EXCEPT !.completed = TRUE]
    ELSE IF r \in Expecting /\ e.backoff
    THEN [e EXCEPT !.resumed = TRUE, !.timers = AtMost(@ + 1, MaxTimers)]
    ELSE IF ~e.ended
    THEN [e EXCEPT !.resumed = TRUE, !.waiting = TRUE]
    ELSE IF e.suppressed = "steer" THEN [e EXCEPT !.resumed = TRUE]
    ELSE IF e.handled THEN e
    ELSE [StartFlow(e) EXCEPT !.resumed = TRUE]

(***************************************************************************)
(* retryDeferredCompletedAnnounces, for one of the other runs.             *)
(***************************************************************************)
RetryDeferred(r, e) ==
    IF e.state # "listed" \/ ~e.ended \/ e.completed \/ e.handled \/ e.suppressed = "steer" THEN e
    ELSE IF e.expired THEN [e EXCEPT !.completed = TRUE]
    ELSE Resume(r, [e EXCEPT !.resumed = FALSE])

(***************************************************************************)
(* The end of the run is noted, by the listener or after agent.wait.       *)
(***************************************************************************)
NoteEnd(e) ==
    IF e.state # "listed" THEN e
    ELSE IF e.suppressed = "steer" THEN [e EXCEPT !.ended = TRUE]
    ELSE StartFlow([e EXCEPT !.ended = TRUE])

(***************************************************************************)
(* finalizeSubagentCleanup, up to the retries of the other runs.  It gives *)
(* up or settles the run, or defers the announcement.                      *)
(***************************************************************************)
GivesUpLate(e) == e.retries >= MaxRetryCount \/ e.expired      \* mutant: one retry too many
GivesUp(e) == e.retries + 1 >= MaxRetryCount \/ e.expired

Settle(r, e) ==
    IF r \in DeleteRuns THEN [e EXCEPT !.state = "gone"] ELSE [e EXCEPT !.completed = TRUE]

Defer(r, e) ==
    [e EXCEPT !.retries = AtMost(@ + 1, MaxRetryCount), !.handled = FALSE, !.resumed = FALSE,
              !.backoff = TRUE,
              !.oldTimers = AtMost(@ + e.timers, MaxTimers),
              !.timers = IF r \in Expecting THEN 1 ELSE 0]

-----------------------------------------------------------------------------
(***************************************************************************)
(* The history follows the number of flows.                                *)
(***************************************************************************)
Started(r) == run'[r].flows > run[r].flows
CountAttempts ==
    attempts' = [r \in Runs |-> IF Started(r) THEN attempts[r] + 1 ELSE attempts[r]]

Init ==
    /\ run = [r \in Runs |-> NewRun]
    /\ child = {} /\ steering = {}
    /\ sweeper = FALSE
    /\ attempts = [r \in Runs |-> 0] /\ announced = [r \in Runs |-> 0]
    /\ crashes = 0

RegisterSubagentRun(r) ==
    /\ run[r].state = "new"
    /\ run' = [run EXCEPT ![r].state = "listed", ![r].waiting = TRUE]
    /\ child' = child \cup {r}
    /\ sweeper' = (sweeper \/ Archive)
    /\ UNCHANGED <<steering, attempts, announced, crashes>>

(***************************************************************************)
(* The lifecycle event of an agent that ends.  agent.wait returns when the *)
(* agent has ended or its time is over, or fails.                          *)
(***************************************************************************)
LifecycleEnd(r) ==
    /\ r \in child
    /\ child' = child \ {r}
    /\ run' = [run EXCEPT ![r] = NoteEnd([@ EXCEPT !.expired = FALSE])]
    /\ CountAttempts
    /\ UNCHANGED <<steering, sweeper, announced, crashes>>

WaitReturns(r) ==
    /\ run[r].waiting
    /\ run' = [run EXCEPT ![r] = NoteEnd([@ EXCEPT !.waiting = FALSE])]
    /\ CountAttempts
    /\ UNCHANGED <<child, steering, sweeper, announced, crashes>>

WaitFails(r) ==
    /\ run[r].waiting
    /\ run' = [run EXCEPT ![r].waiting = FALSE]
    /\ UNCHANGED <<child, steering, sweeper, attempts, announced, crashes>>

(***************************************************************************)
(* runSubagentAnnounceFlow returns.  Whatever settles a run retries the    *)
(* announcements of the others that were deferred.                         *)
(* (Nothing reads the retry count of a run after it was given up.)         *)
(***************************************************************************)
FlowEnds(r, didAnnounce) ==
    /\ run[r].flows > 0
    /\ LET e == [run[r] EXCEPT !.flows = @ - 1]
           others(f) == [s \in Runs |-> IF s = r THEN f ELSE RetryDeferred(s, run[s])]
       IN  run' = IF e.state # "listed" THEN [run EXCEPT ![r] = e]
                  ELSE IF didAnnounce THEN others(Settle(r, e))
                  ELSE IF GivesUp(e) THEN others([e EXCEPT !.completed = TRUE])
                  ELSE [run EXCEPT ![r] = Defer(r, e)]
    /\ announced' = [announced EXCEPT ![r] = IF didAnnounce THEN @ + 1 ELSE @]
    /\ CountAttempts
    /\ UNCHANGED <<child, steering, sweeper, crashes>>

TimerFires(r) ==
    /\ \/ /\ run[r].timers > 0 /\ ~run[r].backoff
          /\ run' = [run EXCEPT ![r] = Resume(r, [run[r] EXCEPT !.timers = @ - 1])]
       \/ /\ run[r].oldTimers > 0
          /\ run' = [run EXCEPT ![r] = Resume(r, [run[r] EXCEPT !.oldTimers = @ - 1])]
    /\ CountAttempts
    /\ UNCHANGED <<child, steering, sweeper, announced, crashes>>

(***************************************************************************)
(* Time passes: a backoff ends, an end becomes older than                  *)
(* ANNOUNCE_EXPIRY_MS.                                                     *)
(***************************************************************************)
BackoffEnds(r) ==
    /\ run[r].backoff
    /\ run' = [run EXCEPT ![r].backoff = FALSE]
    /\ UNCHANGED <<child, steering, sweeper, attempts, announced, crashes>>

Expires(r) ==
    /\ run[r].state = "listed" /\ run[r].ended /\ ~run[r].expired
    /\ run' = [run EXCEPT ![r].expired = TRUE]
    /\ UNCHANGED <<child, steering, sweeper, attempts, announced, crashes>>

(***************************************************************************)
(* The sweeper drops an entry whose archive time has come, even if the run *)
(* has not ended, and stops when none is left.  (It saves after it has     *)
(* asked the gateway to delete the session; a crash before that brings the *)
(* entry back as it was, to be swept again.)                               *)
(***************************************************************************)
Sweep(r) ==
    /\ sweeper /\ r \in Listed
    /\ run' = [run EXCEPT ![r].state = "gone"]
    /\ sweeper' = (Listed # {r})
    /\ UNCHANGED <<child, steering, attempts, announced, crashes>>

-----------------------------------------------------------------------------
(***************************************************************************)
(* markSubagentRunTerminated, and the three steps of the steer command:    *)
(* announcements are suppressed, then the replacement is launched or not.  *)
(***************************************************************************)
KillKeepsCleanup(r) ==          \* mutant: the cleanup of a killed run is left open
    /\ r \in Listed /\ ~run[r].ended
    /\ run' = [run EXCEPT ![r].ended = TRUE, ![r].suppressed = "killed"]
    /\ UNCHANGED <<child, steering, sweeper, attempts, announced, crashes>>

Kill(r) ==
    /\ r \in Listed /\ ~run[r].ended
    /\ run' = [run EXCEPT ![r].ended = TRUE, ![r].handled = TRUE, ![r].completed = TRUE,
                          ![r].suppressed = "killed"]
    /\ UNCHANGED <<child, steering, sweeper, attempts, announced, crashes>>

Steer(r) ==
    /\ r \in Listed /\ ~run[r].ended
    /\ run' = [run EXCEPT ![r].suppressed = "steer"]
    /\ steering' = steering \cup {r}
    /\ UNCHANGED <<child, sweeper, attempts, announced, crashes>>

SteerFails(r) ==
    /\ r \in steering
    /\ steering' = steering \ {r}
    /\ LET e == [run[r] EXCEPT !.suppressed = "no", !.resumed = FALSE]
       IN  run' = IF r \notin Listed \/ run[r].suppressed # "steer" THEN run
                  ELSE [run EXCEPT ![r] = IF e.ended THEN Resume(r, e) ELSE e]
    /\ CountAttempts
    /\ UNCHANGED <<child, sweeper, announced, crashes>>

ReplaceSubagentRunAfterSteer(r, next) ==
    /\ r \in steering /\ run[next].state = "new"
    /\ steering' = steering \ {r}
    /\ run' = [run EXCEPT ![r].state = "gone", ![r].resumed = FALSE,
                          ![next].state = "listed", ![next].waiting = TRUE]
    /\ child' = child \cup {next}
    /\ sweeper' = (sweeper \/ Archive)
    /\ UNCHANGED <<attempts, announced, crashes>>

(***************************************************************************)
(* A crash, and restoreSubagentRunsOnce when the gateway starts again.     *)
(***************************************************************************)
AfterCrash(e) ==
    [e EXCEPT !.resumed = FALSE, !.waiting = FALSE, !.flows = 0, !.timers = 0, !.oldTimers = 0]

CrashForgetsSweeper ==          \* mutant: the sweeper is not started again
    /\ crashes < MaxCrashes
    /\ crashes' = crashes + 1
    /\ run' = [r \in Runs |-> Resume(r, AfterCrash(run[r]))]
    /\ child' = {} /\ steering' = {}
    /\ sweeper' = FALSE
    /\ attempts' = [r \in Runs |-> IF run'[r].flows > 0 THEN attempts[r] + 1 ELSE attempts[r]]
    /\ UNCHANGED announced

Crash ==
    /\ crashes < MaxCrashes
    /\ crashes' = crashes + 1
    /\ run' = [r \in Runs |-> Resume(r, AfterCrash(run[r]))]
    /\ child' = {} /\ steering' = {}
    /\ sweeper' = (Archive /\ Listed # {})
    /\ attempts' = [r \in Runs |-> IF run'[r].flows > 0 THEN attempts[r] + 1 ELSE attempts[r]]
    /\ UNCHANGED announced

RegistryStep(r) ==
    \/ LifecycleEnd(r)
    \/ WaitReturns(r)
    \/ WaitFails(r)
    \/ \E didAnnounce \in BOOLEAN : FlowEnds(r, didAnnounce)
    \/ TimerFires(r)
    \/ BackoffEnds(r)

Next ==
    \/ \E r \in Runs :
          \/ RegisterSubagentRun(r)
          \/ RegistryStep(r)
          \/ Expires(r)
          \/ Sweep(r)
          \/ Kill(r)
          \/ Steer(r)
          \/ SteerFails(r)
          \/ \E next \in Runs : ReplaceSubagentRunAfterSteer(r, next)
    \/ Crash

(***************************************************************************)
(* Agents end, calls of the gateway return, timers fire, and the sweeper   *)
(* comes to every entry in time.                                           *)
(***************************************************************************)
Fairness ==
    \A r \in Runs : WF_vars(RegistryStep(r)) /\ WF_vars(Sweep(r))

Spec == Init /\ [][Next]_vars /\ Fairness

-----------------------------------------------------------------------------
(***************************************************************************)
(* The result of a run is announced at most once: although two sources     *)
(* report its end, retries and restarts start flows, and another run's end *)
(* retries it.                                                             *)
(***************************************************************************)
AnnouncedOnce == \A r \in Runs : announced[r] <= 1

(***************************************************************************)
(* No more than MAX_ANNOUNCE_RETRY_COUNT flows are ever started for a run, *)
(* by whichever of the ways and over all restarts.                         *)
(***************************************************************************)
AttemptsAreBounded == \A r \in Runs : attempts[r] <= MaxRetryCount

(***************************************************************************)
(* No flow is started for a run that was killed or is being steered, nor   *)
(* after its entry is gone.                                                *)
(***************************************************************************)
SuppressedIsSilent ==
    [][\A r \in Runs : attempts'[r] > attempts[r] =>
          run'[r].state = "listed" /\ run'[r].suppressed = "no"]_vars

(***************************************************************************)
(* An entry does not stay open for ever: it is settled, given up or swept, *)
(* even if a crash came between the start of its announcement and the end. *)
(***************************************************************************)
OpenRunsClose == \A r \in Runs : (r \in Listed) ~> (r \notin Listed \/ run[r].completed)

=============================================================================
