----------------------- MODULE SubagentRegistryProofs -----------------------
(***************************************************************************)
(* That the result of a subagent run is announced at most once, that the   *)
(* announcement is tried at most MAX_ANNOUNCE_RETRY_COUNT times, and never *)
(* for a run that was killed, is being steered or is gone: for every       *)
(* number of runs, retries, timers and crashes.                            *)
(***************************************************************************)
EXTENDS SubagentRegistry, TLAPS

(***************************************************************************)
(* What holds of an entry e for which n flows were started and k have      *)
(* succeeded.  A flow under way is the only one and has cleanupHandled     *)
(* set; a started flow is either counted in the retries or the one that    *)
(* the flag stands for (which a crash does not take back); an announced    *)
(* run is settled or gone, and has no flow that could announce it again.   *)
(***************************************************************************)
OneFlow(e) == e.flows > 0 => e.flows = 1 /\ e.handled /\ e.state # "new"
AttemptsCounted(e, n) ==
    e.retries < MaxRetryCount /\ n <= e.retries + (IF e.handled THEN 1 ELSE 0)
AnnouncedIsOver(e, k) ==
    k <= 1 /\ (k > 0 => e.flows = 0 /\ (e.completed \/ e.state = "gone"))
KilledIsOver(e) == e.suppressed = "killed" => e.ended /\ e.completed

EntryOK(e, n, k) ==
    OneFlow(e) /\ AttemptsCounted(e, n) /\ AnnouncedIsOver(e, k) /\ KilledIsOver(e)

EntriesOK == \A r \in Runs : EntryOK(run[r], attempts[r], announced[r])

IInv == TypeOK /\ EntriesOK

-----------------------------------------------------------------------------
(***************************************************************************)
(* How the registry's functions change an entry: they keep its state, its  *)
(* retries and its suppression, take no end and no settlement back, and    *)
(* start a flow only for an open entry whose flag is not set and that is   *)
(* not being steered.                                                      *)
(***************************************************************************)
Keeps(e, f) ==
    /\ f.state = e.state /\ f.retries = e.retries /\ f.suppressed = e.suppressed
    /\ e.ended => f.ended
    /\ e.completed => f.completed

NoFlow(e, f) == f.flows = e.flows /\ (f.handled <=> e.handled)
NewFlow(e, f) ==
    /\ e.state = "listed" /\ e.suppressed # "steer"
    /\ ~e.completed /\ ~e.handled
    /\ f.handled /\ f.flows = AtMost(e.flows + 1, 2)

Moves(e, f) == f \in Run /\ Keeps(e, f) /\ (NoFlow(e, f) \/ NewFlow(e, f))

(***************************************************************************)
(* startSubagentAnnounceCleanupFlow.                                       *)
(***************************************************************************)
LEMMA StartFlowMoves ==
  ASSUME NEW e \in Run, e.suppressed # "steer"
  PROVE  Moves(e, StartFlow(e))
  <1>1. AtMost(e.flows + 1, 2) \in 0 .. 2
    BY DEF AtMost, Run
  <1> QED
    BY <1>1 DEF StartFlow, Moves, Keeps, NoFlow, NewFlow, Run

(***************************************************************************)
(* resumeSubagentRun.                                                      *)
(***************************************************************************)
LEMMA ResumeMoves ==
  ASSUME NEW r \in Runs, NEW e \in Run
  PROVE  Moves(e, Resume(r, e))
  <1>1. AtMost(e.timers + 1, MaxTimers) \in 0 .. MaxTimers
    BY RegistryAssumption DEF AtMost, Run
  <1>2. ASSUME e.suppressed # "steer"
        PROVE  Moves(e, [StartFlow(e) EXCEPT !.resumed = TRUE])
    <2> DEFINE f == StartFlow(e)
    <2>1. Moves(e, f)
      BY <1>2, StartFlowMoves
    <2> HIDE DEF f
    <2>2. [f EXCEPT !.resumed = TRUE] \in Run
      BY <2>1 DEF Moves, Run
    <2>3. Moves(e, [f EXCEPT !.resumed = TRUE])
      BY <2>1, <2>2 DEF Moves, Keeps, NoFlow, NewFlow, Run
    <2> QED
      BY <2>3 DEF f
  <1>3. CASE e.state # "listed" \/ e.resumed \/ e.completed
    BY <1>3 DEF Resume, Moves, NoFlow, Keeps
  <1>4. CASE Resume(r, e) = [e EXCEPT !.completed = TRUE]
    BY <1>4 DEF Moves, NoFlow, Keeps, Run
  <1>5. CASE Resume(r, e) = [e EXCEPT !.resumed = TRUE, !.timers = AtMost(@ + 1, MaxTimers)]
    BY <1>1, <1>5 DEF Moves, NoFlow, Keeps, Run
  <1>6. CASE Resume(r, e) = [e EXCEPT !.resumed = TRUE, !.waiting = TRUE]
    BY <1>6 DEF Moves, NoFlow, Keeps, Run
  <1>7. CASE Resume(r, e) = [e EXCEPT !.resumed = TRUE]
    BY <1>7 DEF Moves, NoFlow, Keeps, Run
  <1>8. CASE Resume(r, e) = e
    BY <1>8 DEF Moves, NoFlow, Keeps
  <1>9. CASE /\ e.suppressed # "steer"
              /\ Resume(r, e) = [StartFlow(e) EXCEPT !.resumed = TRUE]
    BY <1>2, <1>9
  <1> QED
    BY <1>3, <1>4, <1>5, <1>6, <1>7, <1>8, <1>9 DEF Resume

(***************************************************************************)
(* An entry that has only lost its mark of being resumed, a timer or a     *)
(* wait, or become expired or ended, moves as the entry itself does.       *)
(***************************************************************************)
LEMMA MovesFrom ==
  ASSUME NEW e \in Run, NEW e0 \in Run, Keeps(e, e0), NoFlow(e, e0),
         e0.completed <=> e.completed, NEW f, Moves(e0, f)
  PROVE  Moves(e, f)
  BY DEF Moves, Keeps, NoFlow, NewFlow

(***************************************************************************)
(* retryDeferredCompletedAnnounces.                                        *)
(***************************************************************************)
LEMMA RetryDeferredMoves ==
  ASSUME NEW r \in Runs, NEW e \in Run
  PROVE  Moves(e, RetryDeferred(r, e))
  <1> DEFINE e0 == [e EXCEPT !.resumed = FALSE]
  <1>1. e0 \in Run /\ Keeps(e, e0) /\ NoFlow(e, e0) /\ (e0.completed <=> e.completed)
    BY DEF Keeps, NoFlow, Run
  <1>2. CASE RetryDeferred(r, e) = e
    BY <1>2 DEF Moves, NoFlow, Keeps
  <1>3. CASE RetryDeferred(r, e) = [e EXCEPT !.completed = TRUE]
    BY <1>3 DEF Moves, NoFlow, Keeps, Run
  <1>4. CASE RetryDeferred(r, e) = Resume(r, e0)
    <2> HIDE DEF e0
    <2>1. Moves(e0, Resume(r, e0))
      BY <1>1, ResumeMoves
    <2> QED
      BY <1>1, <1>4, <2>1, MovesFrom
  <1> QED
    BY <1>2, <1>3, <1>4 DEF RetryDeferred

(***************************************************************************)
(* The end of a run is noted.                                              *)
(***************************************************************************)
LEMMA NoteEndMoves ==
  ASSUME NEW e \in Run
  PROVE  Moves(e, NoteEnd(e))
  <1> DEFINE e0 == [e EXCEPT !.ended = TRUE]
  <1>1. e0 \in Run /\ Keeps(e, e0) /\ NoFlow(e, e0) /\ (e0.completed <=> e.completed)
    BY DEF Keeps, NoFlow, Run
  <1>2. CASE NoteEnd(e) = e
    BY <1>2 DEF Moves, NoFlow, Keeps
  <1>3. CASE NoteEnd(e) = e0
    BY <1>1, <1>3 DEF Moves
  <1>4. CASE e.suppressed # "steer" /\ NoteEnd(e) = StartFlow(e0)
    <2>1. e0.suppressed # "steer"
      BY <1>4 DEF Run
    <2> HIDE DEF e0
    <2>2. Moves(e0, StartFlow(e0))
      BY <1>1, <2>1, StartFlowMoves
    <2> QED
      BY <1>1, <1>4, <2>2, MovesFrom
  <1> QED
    BY <1>2, <1>3, <1>4 DEF NoteEnd

-----------------------------------------------------------------------------
(***************************************************************************)
(* A move keeps what holds of an entry, with the flow it starts counted,   *)
(* and starts one only for an entry that is listed and not suppressed.     *)
(***************************************************************************)
LEMMA MoveKeepsEntry ==
  ASSUME NEW e \in Run, NEW n \in Nat, NEW k \in Nat, EntryOK(e, n, k),
         NEW f, Moves(e, f)
  PROVE  /\ EntryOK(f, IF f.flows > e.flows THEN n + 1 ELSE n, k)
         /\ f.flows > e.flows => f.state = "listed" /\ f.suppressed = "no"
  <1>1. CASE NoFlow(e, f)
    <2>1. ~(f.flows > e.flows)
      BY <1>1 DEF NoFlow, Run
    <2>2. EntryOK(f, n, k)
      BY <1>1 DEF NoFlow, Moves, Keeps, EntryOK, OneFlow, AttemptsCounted, AnnouncedIsOver,
         KilledIsOver, Run
    <2> QED
      BY <2>1, <2>2
  <1>2. CASE NewFlow(e, f)
    <2>1. e.flows = 0 /\ f.flows = 1
      BY <1>2 DEF NewFlow, EntryOK, OneFlow, AtMost, Run
    <2>2. k = 0
      BY <1>2 DEF NewFlow, EntryOK, AnnouncedIsOver
    <2>3. f.suppressed = "no" /\ f.state = "listed"
      BY <1>2 DEF NewFlow, Moves, Keeps, EntryOK, KilledIsOver, Run
    <2>4. EntryOK(f, n + 1, k)
      BY <1>2, <2>1, <2>2, <2>3 DEF NewFlow, Moves, Keeps, EntryOK, OneFlow, AttemptsCounted,
         AnnouncedIsOver, KilledIsOver, Run
    <2> QED
      BY <2>1, <2>3, <2>4
  <1> QED
    BY <1>1, <1>2 DEF Moves

(***************************************************************************)
(* A step that starts no flow for a suppressed entry, or one that is gone. *)
(***************************************************************************)
Silent ==
    \A r \in Runs : attempts'[r] > attempts[r] =>
        run'[r].state = "listed" /\ run'[r].suppressed = "no"

Good == run' \in [Runs -> Run] /\ attempts' \in [Runs -> Nat] /\ EntriesOK' /\ Silent

(***************************************************************************)
(* A step in which every entry moves, from its value in base, is good.     *)
(***************************************************************************)
LEMMA AllMove ==
  ASSUME attempts \in [Runs -> Nat], announced' \in [Runs -> Nat],
         NEW base \in [Runs -> Run], \A r \in Runs : EntryOK(base[r], attempts[r], announced'[r]),
         run' = [r \in Runs |-> run'[r]], \A r \in Runs : Moves(base[r], run'[r]),
         attempts' = [r \in Runs |-> IF run'[r].flows > base[r].flows THEN attempts[r] + 1
                                     ELSE attempts[r]]
  PROVE  Good
  <1>1. ASSUME NEW r \in Runs
        PROVE  /\ run'[r] \in Run
               /\ EntryOK(run'[r], attempts'[r], announced'[r])
               /\ attempts'[r] > attempts[r] => run'[r].state = "listed" /\ run'[r].suppressed = "no"
    <2>1. /\ base[r] \in Run /\ attempts[r] \in Nat /\ announced'[r] \in Nat
          /\ EntryOK(base[r], attempts[r], announced'[r]) /\ Moves(base[r], run'[r])
      OBVIOUS
    <2> DEFINE f == run'[r]
               n == IF f.flows > base[r].flows THEN attempts[r] + 1 ELSE attempts[r]
    <2>2. attempts'[r] = n
      OBVIOUS
    <2>3. /\ EntryOK(f, n, announced'[r])
          /\ f.flows > base[r].flows => f.state = "listed" /\ f.suppressed = "no"
      BY <2>1, MoveKeepsEntry
    <2>4. attempts'[r] > attempts[r] => f.flows > base[r].flows
      BY <2>1, <2>2
    <2> QED
      BY <2>1, <2>2, <2>3, <2>4 DEF Moves
  <1>2. run' \in [Runs -> Run] /\ attempts' \in [Runs -> Nat]
    BY <1>1
  <1> QED
    BY <1>1, <1>2 DEF Good, EntriesOK, Silent

(***************************************************************************)
(* An entry that does not change moves.                                    *)
(***************************************************************************)
LEMMA StaysMoves == ASSUME NEW e \in Run PROVE Moves(e, e)
  BY DEF Moves, Keeps, NoFlow

(***************************************************************************)
(* One entry moves, counted by CountAttempts.                              *)
(***************************************************************************)
LEMMA OneMoves ==
  ASSUME IInv, NEW r \in Runs, NEW f, Moves(run[r], f), run' = [run EXCEPT ![r] = f],
         CountAttempts, UNCHANGED announced
  PROVE  Good
  <1>1. /\ run \in [Runs -> Run] /\ attempts \in [Runs -> Nat] /\ announced' \in [Runs -> Nat]
        /\ \A s \in Runs : EntryOK(run[s], attempts[s], announced'[s])
    BY DEF IInv, TypeOK, EntriesOK
  <1>2. \A s \in Runs : Moves(run[s], run'[s])
    BY <1>1, StaysMoves
  <1>3. run' = [s \in Runs |-> run'[s]]
    BY <1>1
  <1>4. attempts' = [s \in Runs |-> IF run'[s].flows > run[s].flows THEN attempts[s] + 1
                                    ELSE attempts[s]]
    BY DEF CountAttempts, Started
  <1> QED
    BY <1>1, <1>2, <1>3, <1>4, AllMove

(***************************************************************************)
(* A run's end is noted, by the listener or when agent.wait returns.       *)
(***************************************************************************)
LEMMA EndIsGood ==
  ASSUME IInv, NEW r \in Runs, LifecycleEnd(r) \/ WaitReturns(r)
  PROVE  Good
  <1>1. ASSUME NEW e0 \in Run, Keeps(run[r], e0), NoFlow(run[r], e0),
               e0.completed <=> run[r].completed,
               run' = [run EXCEPT ![r] = NoteEnd(e0)]
        PROVE  Good
    <2>1. run[r] \in Run
      BY DEF IInv, TypeOK
    <2>2. Moves(run[r], NoteEnd(e0))
      BY <1>1, <2>1, NoteEndMoves, MovesFrom
    <2>3. CountAttempts /\ UNCHANGED announced
      BY DEF LifecycleEnd, WaitReturns
    <2> QED
      BY <1>1, <2>2, <2>3, OneMoves
  <1>2. run[r] \in Run
    BY DEF IInv, TypeOK
  <1>3. CASE LifecycleEnd(r)
    <2> DEFINE e0 == [run[r] EXCEPT !.expired = FALSE]
    <2>1. /\ e0 \in Run /\ Keeps(run[r], e0) /\ NoFlow(run[r], e0)
          /\ e0.completed <=> run[r].completed
      BY <1>2 DEF Run, Keeps, NoFlow
    <2>2. run' = [run EXCEPT ![r] = NoteEnd(e0)]
      BY <1>3 DEF LifecycleEnd, IInv, TypeOK
    <2> HIDE DEF e0
    <2> QED
      BY <1>1, <2>1, <2>2
  <1>4. CASE WaitReturns(r)
    <2> DEFINE e0 == [run[r] EXCEPT !.waiting = FALSE]
    <2>1. /\ e0 \in Run /\ Keeps(run[r], e0) /\ NoFlow(run[r], e0)
          /\ e0.completed <=> run[r].completed
      BY <1>2 DEF Run, Keeps, NoFlow
    <2>2. run' = [run EXCEPT ![r] = NoteEnd(e0)]
      BY <1>4 DEF WaitReturns, IInv, TypeOK
    <2> HIDE DEF e0
    <2> QED
      BY <1>1, <2>1, <2>2
  <1> QED
    BY <1>3, <1>4

(***************************************************************************)
(* A timer of resumeSubagentRun fires.                                     *)
(***************************************************************************)
LEMMA TimerIsGood ==
  ASSUME IInv, NEW r \in Runs, TimerFires(r)
  PROVE  Good
  <1>1. run[r] \in Run
    BY DEF IInv, TypeOK
  <1>2. ASSUME NEW e0 \in Run, Keeps(run[r], e0), NoFlow(run[r], e0),
               e0.completed <=> run[r].completed,
               run' = [run EXCEPT ![r] = Resume(r, e0)]
        PROVE  Good
    <2>1. Moves(run[r], Resume(r, e0))
      BY <1>1, <1>2, ResumeMoves, MovesFrom
    <2>2. CountAttempts /\ UNCHANGED announced
      BY DEF TimerFires
    <2> QED
      BY <1>2, <2>1, <2>2, OneMoves
  <1>3. CASE /\ run[r].timers > 0
             /\ run' = [run EXCEPT ![r] = Resume(r, [run[r] EXCEPT !.timers = @ - 1])]
    <2> DEFINE e0 == [run[r] EXCEPT !.timers = @ - 1]
    <2>1. /\ e0 \in Run /\ Keeps(run[r], e0) /\ NoFlow(run[r], e0)
          /\ e0.completed <=> run[r].completed
      BY <1>1, <1>3, RegistryAssumption DEF Run, Keeps, NoFlow
    <2>2. run' = [run EXCEPT ![r] = Resume(r, e0)]
      BY <1>3 DEF IInv, TypeOK
    <2> HIDE DEF e0
    <2> QED
      BY <1>2, <2>1, <2>2
  <1>4. CASE /\ run[r].oldTimers > 0
             /\ run' = [run EXCEPT ![r] = Resume(r, [run[r] EXCEPT !.oldTimers = @ - 1])]
    <2> DEFINE e0 == [run[r] EXCEPT !.oldTimers = @ - 1]
    <2>1. /\ e0 \in Run /\ Keeps(run[r], e0) /\ NoFlow(run[r], e0)
          /\ e0.completed <=> run[r].completed
      BY <1>1, <1>4, RegistryAssumption DEF Run, Keeps, NoFlow
    <2>2. run' = [run EXCEPT ![r] = Resume(r, e0)]
      BY <1>4 DEF IInv, TypeOK
    <2> HIDE DEF e0
    <2> QED
      BY <1>2, <2>1, <2>2
  <1> QED
    BY <1>3, <1>4 DEF TimerFires

(***************************************************************************)
(* An announce flow returns.  The flow that ends was the only one of its   *)
(* run; the entry is settled, given up or deferred with one more retry.    *)
(***************************************************************************)
LEMMA FlowEndIsGood ==
  ASSUME IInv, NEW r \in Runs, NEW didAnnounce \in BOOLEAN, FlowEnds(r, didAnnounce)
  PROVE  Good /\ announced' \in [Runs -> Nat]
  <1> DEFINE e == [run[r] EXCEPT !.flows = @ - 1]
             n == attempts[r]
             k == announced'[r]
  <1>1. /\ run \in [Runs -> Run] /\ attempts \in [Runs -> Nat] /\ announced \in [Runs -> Nat]
        /\ \A s \in Runs : EntryOK(run[s], attempts[s], announced[s])
    BY DEF IInv, TypeOK, EntriesOK
  <1>2. run[r].flows = 1 /\ run[r].handled /\ run[r].state # "new" /\ announced[r] = 0
    BY <1>1 DEF FlowEnds, EntryOK, OneFlow, AnnouncedIsOver
  <1>3. /\ announced' \in [Runs -> Nat]
        /\ \A s \in Runs : s # r => announced'[s] = announced[s]
        /\ k = IF didAnnounce THEN 1 ELSE 0
    BY <1>1, <1>2 DEF FlowEnds
  <1>4. /\ e \in Run /\ e.flows = 0 /\ e.handled /\ e.state \in {"listed", "gone"}
        /\ e.state = run[r].state /\ e.retries = run[r].retries
        /\ e.suppressed = run[r].suppressed
        /\ (e.completed <=> run[r].completed) /\ (e.ended <=> run[r].ended)
    BY <1>1, <1>2 DEF Run
  <1>5. EntryOK(run[r], n, 0) /\ n \in Nat
    BY <1>1, <1>2
  <1>6. ASSUME NEW g \in Run, g.flows = 0, EntryOK(g, n, k),
               \/ run' = [run EXCEPT ![r] = g]
               \/ run' = [s \in Runs |-> IF s = r THEN g ELSE RetryDeferred(s, run[s])]
        PROVE  Good
    <2> DEFINE base == [run EXCEPT ![r] = g]
    <2>1. /\ base \in [Runs -> Run] /\ base[r] = g
          /\ \A s \in Runs : s # r => base[s] = run[s]
      BY <1>1
    <2> HIDE DEF base
    <2>2. \A s \in Runs : EntryOK(base[s], attempts[s], announced'[s])
      BY <1>1, <1>3, <1>6, <2>1
    <2>3. run' = [s \in Runs |-> run'[s]] /\ run'[r] = g
      BY <1>1, <1>6
    <2>4. \A s \in Runs : Moves(base[s], run'[s])
      <3>1. Moves(base[r], run'[r])
        BY <2>1, <2>3, StaysMoves
      <3>2. ASSUME NEW s \in Runs, s # r PROVE Moves(base[s], run'[s])
        <4>1. run'[s] = run[s] \/ run'[s] = RetryDeferred(s, run[s])
          BY <1>1, <1>6, <3>2
        <4> QED
          BY <1>1, <2>1, <3>2, <4>1, StaysMoves, RetryDeferredMoves
      <3> QED
        BY <3>1, <3>2
    <2>5. \A s \in Runs : Started(s) <=> run'[s].flows > base[s].flows
      <3>1. ~Started(r) /\ ~(run'[r].flows > base[r].flows)
        BY <1>2, <1>6, <2>1, <2>3 DEF Started
      <3> QED
        BY <2>1, <3>1 DEF Started
    <2>6. attempts' = [s \in Runs |-> IF run'[s].flows > base[s].flows THEN attempts[s] + 1
                                      ELSE attempts[s]]
      BY <2>5 DEF FlowEnds, CountAttempts
    <2> QED
      BY <1>1, <1>3, <2>1, <2>2, <2>3, <2>4, <2>6, AllMove
  <1> HIDE DEF e, k, n
  <1>7. CASE e.state # "listed" /\ run' = [run EXCEPT ![r] = e]
    <2>1. EntryOK(e, n, k)
      BY <1>3, <1>4, <1>5, <1>7 DEF EntryOK, OneFlow, AttemptsCounted, AnnouncedIsOver,
         KilledIsOver, Run
    <2> QED
      BY <1>3, <1>4, <1>6, <1>7, <2>1
  <1>8. CASE run' = [s \in Runs |-> IF s = r THEN Settle(r, e) ELSE RetryDeferred(s, run[s])]
    <2> DEFINE g == Settle(r, e)
    <2>1. g \in Run
      BY <1>4 DEF Settle, Run
    <2>2. /\ g.flows = 0 /\ g.handled /\ g.retries = e.retries
          /\ g.state \in {e.state, "gone"} /\ g.suppressed = e.suppressed
          /\ (e.completed => g.completed) /\ (g.ended <=> e.ended)
          /\ g.completed \/ g.state = "gone"
      BY <1>4 DEF Settle, Run
    <2> HIDE DEF g
    <2>3. EntryOK(g, n, k)
      BY <1>3, <1>4, <1>5, <2>1, <2>2 DEF EntryOK, OneFlow, AttemptsCounted, AnnouncedIsOver,
         KilledIsOver, Run
    <2> QED
      BY <1>3, <1>6, <1>8, <2>1, <2>2, <2>3 DEF g
  <1>9. CASE ~didAnnounce /\ run' = [s \in Runs |-> IF s = r THEN [e EXCEPT !.completed = TRUE]
                                                    ELSE RetryDeferred(s, run[s])]
    <2> DEFINE g == [e EXCEPT !.completed = TRUE]
    <2>1. g \in Run
      BY <1>4 DEF Run
    <2>2. /\ g.flows = 0 /\ g.handled /\ g.retries = e.retries
          /\ g.state = e.state /\ g.suppressed = e.suppressed
          /\ g.completed /\ (g.ended <=> e.ended)
      BY <1>4 DEF Run
    <2> HIDE DEF g
    <2>3. EntryOK(g, n, k)
      BY <1>3, <1>4, <1>5, <2>1, <2>2 DEF EntryOK, OneFlow, AttemptsCounted, AnnouncedIsOver,
         KilledIsOver, Run
    <2> QED
      BY <1>3, <1>6, <1>9, <2>1, <2>2, <2>3 DEF g
  <1>10. CASE ~didAnnounce /\ ~GivesUp(e) /\ run' = [run EXCEPT ![r] = Defer(r, e)]
    <2> DEFINE g == Defer(r, e)
    <2>1. MaxRetryCount \in Nat /\ MaxTimers \in Nat \ {0}
      BY RegistryAssumption
    <2>2. e.retries + 1 < MaxRetryCount
      BY <1>4, <1>10, <2>1 DEF GivesUp, Run
    <2>3. AtMost(e.retries + 1, MaxRetryCount) = e.retries + 1
      BY <1>4, <2>1, <2>2 DEF AtMost, Run
    <2>4. AtMost(e.oldTimers + e.timers, MaxTimers) \in 0 .. MaxTimers
      BY <1>4, <2>1 DEF AtMost, Run
    <2>5. g \in Run
      <3> DEFINE again == AtMost(e.retries + 1, MaxRetryCount)
                 old == AtMost(e.oldTimers + e.timers, MaxTimers)
                 own == IF r \in Expecting THEN 1 ELSE 0
      <3>1. again \in 0 .. MaxRetryCount /\ old \in 0 .. MaxTimers /\ own \in 0 .. MaxTimers
        BY <1>4, <2>1, <2>2, <2>3, <2>4 DEF Run
      <3>2. g = [e EXCEPT !.retries = again, !.handled = FALSE, !.resumed = FALSE,
                          !.backoff = TRUE, !.oldTimers = old, !.timers = own]
        BY DEF Defer
      <3> HIDE DEF again, old, own, g
      <3> QED
        BY <1>4, <3>1, <3>2 DEF Run
    <2>6. /\ g.flows = 0 /\ ~g.handled /\ g.retries = e.retries + 1
          /\ g.state = e.state /\ g.suppressed = e.suppressed
          /\ (g.completed <=> e.completed) /\ (g.ended <=> e.ended)
      BY <1>4, <2>3 DEF Defer, Run
    <2>7. k = 0
      BY <1>3, <1>10
    <2> HIDE DEF g
    <2>8. EntryOK(g, n, k)
      BY <1>4, <1>5, <2>1, <2>2, <2>5, <2>6, <2>7 DEF EntryOK, OneFlow, AttemptsCounted,
         AnnouncedIsOver, KilledIsOver, Run
    <2> QED
      BY <1>3, <1>6, <1>10, <2>5, <2>6, <2>8 DEF g
  <1> QED
    BY <1>3, <1>7, <1>8, <1>9, <1>10 DEF FlowEnds, e

(***************************************************************************)
(* A steer command that failed gives the run its announcements back.       *)
(***************************************************************************)
LEMMA SteerFailsIsGood ==
  ASSUME IInv, NEW r \in Runs, SteerFails(r)
  PROVE  Good
  <1> DEFINE e == [run[r] EXCEPT !.suppressed = "no", !.resumed = FALSE]
             f == IF e.ended THEN Resume(r, e) ELSE e
  <1>1. /\ run \in [Runs -> Run] /\ attempts \in [Runs -> Nat] /\ announced' \in [Runs -> Nat]
        /\ \A s \in Runs : EntryOK(run[s], attempts[s], announced'[s])
    BY DEF IInv, TypeOK, EntriesOK, SteerFails
  <1>2. CASE run' = run
    <2>1. run' = [run EXCEPT ![r] = run[r]] /\ Moves(run[r], run[r])
      BY <1>1, <1>2, StaysMoves
    <2> QED
      BY <2>1, OneMoves DEF SteerFails
  <1>3. CASE run' = [run EXCEPT ![r] = f]
    <2>1. /\ e \in Run /\ e.flows = run[r].flows
          /\ EntryOK(e, attempts[r], announced'[r])
      <3>1. e \in Run
        BY <1>1 DEF Run
      <3>2. /\ e.flows = run[r].flows /\ (e.handled <=> run[r].handled)
            /\ e.retries = run[r].retries /\ e.state = run[r].state
            /\ (e.completed <=> run[r].completed) /\ e.suppressed = "no"
        BY <1>1 DEF Run
      <3> HIDE DEF e
      <3> QED
        BY <1>1, <3>1, <3>2 DEF EntryOK, OneFlow, AttemptsCounted, AnnouncedIsOver, KilledIsOver
    <2> HIDE DEF e
    <2>2. Moves(e, f)
      BY <2>1, ResumeMoves, StaysMoves
    <2> HIDE DEF f
    <2> DEFINE base == [run EXCEPT ![r] = e]
    <2>3. /\ base \in [Runs -> Run]
          /\ \A s \in Runs : EntryOK(base[s], attempts[s], announced'[s])
          /\ \A s \in Runs : base[s].flows = run[s].flows
      BY <1>1, <2>1
    <2>4. \A s \in Runs : Moves(base[s], run'[s])
      BY <1>1, <1>3, <2>2, StaysMoves
    <2>5. run' = [s \in Runs |-> run'[s]]
      BY <1>1, <1>3
    <2> HIDE DEF base
    <2>6. attempts' = [s \in Runs |-> IF run'[s].flows > base[s].flows THEN attempts[s] + 1
                                      ELSE attempts[s]]
      BY <2>3 DEF SteerFails, CountAttempts, Started
    <2> QED
      BY <1>1, <2>3, <2>4, <2>5, <2>6, AllMove
  <1> QED
    BY <1>2, <1>3 DEF SteerFails

(***************************************************************************)
(* A crash takes the flows but not the flag, so that restoring the entries *)
(* starts no flow for a run whose flow it has cut off.                     *)
(***************************************************************************)
LEMMA CrashIsGood ==
  ASSUME IInv, Crash
  PROVE  Good
  <1> DEFINE base == [r \in Runs |-> AfterCrash(run[r])]
  <1>1. /\ run \in [Runs -> Run] /\ attempts \in [Runs -> Nat] /\ announced' \in [Runs -> Nat]
        /\ \A s \in Runs : EntryOK(run[s], attempts[s], announced'[s])
    BY DEF IInv, TypeOK, EntriesOK, Crash
  <1>2. ASSUME NEW s \in Runs
        PROVE  /\ base[s] \in Run /\ base[s].flows = 0
               /\ EntryOK(base[s], attempts[s], announced'[s])
    <2> DEFINE e == run[s]
               f == AfterCrash(e)
    <2>1. e \in Run /\ EntryOK(e, attempts[s], announced'[s]) /\ base[s] = f
      BY <1>1
    <2> HIDE DEF e
    <2>2. f \in Run
      <3>1. 0 \in 0 .. MaxTimers /\ 0 \in 0 .. 2
        BY RegistryAssumption
      <3> QED
        BY <2>1, <3>1 DEF AfterCrash, Run
    <2>3. /\ f.flows = 0 /\ (f.handled <=> e.handled)
          /\ f.retries = e.retries /\ f.state = e.state /\ f.suppressed = e.suppressed
          /\ (f.completed <=> e.completed) /\ (f.ended <=> e.ended)
      BY <2>1 DEF AfterCrash, Run
    <2> HIDE DEF f
    <2>4. EntryOK(f, attempts[s], announced'[s])
      BY <2>1, <2>3 DEF EntryOK, OneFlow, AttemptsCounted, AnnouncedIsOver, KilledIsOver
    <2> QED
      BY <2>1, <2>2, <2>3, <2>4
  <1>3. run' = [s \in Runs |-> Resume(s, base[s])]
    BY DEF Crash
  <1>4. base \in [Runs -> Run]
    BY <1>2
  <1> HIDE DEF base
  <1>5. \A s \in Runs : Moves(base[s], run'[s])
    BY <1>2, <1>3, ResumeMoves
  <1>6. run' = [s \in Runs |-> run'[s]]
    BY <1>3
  <1>7. attempts' = [s \in Runs |-> IF run'[s].flows > base[s].flows THEN attempts[s] + 1
                                    ELSE attempts[s]]
    BY <1>2 DEF Crash
  <1> QED
    BY <1>1, <1>2, <1>4, <1>5, <1>6, <1>7, AllMove

(***************************************************************************)
(* The steps that start no flow: an entry is registered, swept, killed,    *)
(* steered or replaced, a wait fails, or time passes.                      *)
(***************************************************************************)
LEMMA QuietIsGood ==
  ASSUME IInv, UNCHANGED <<attempts, announced>>, run' \in [Runs -> Run],
         \A s \in Runs : EntryOK(run'[s], attempts[s], announced[s])
  PROVE  Good
  BY DEF IInv, TypeOK, Good, EntriesOK, Silent

(***************************************************************************)
(* Each of these steps.                                                    *)
(***************************************************************************)
LEMMA QuietSteps ==
  ASSUME IInv, NEW r \in Runs,
         \/ RegisterSubagentRun(r) \/ WaitFails(r) \/ BackoffEnds(r) \/ Expires(r)
         \/ Sweep(r) \/ Kill(r) \/ Steer(r)
         \/ \E next \in Runs : ReplaceSubagentRunAfterSteer(r, next)
  PROVE  Good
  <1> USE DEF EntryOK, OneFlow, AttemptsCounted, AnnouncedIsOver, KilledIsOver
  <1>1. /\ run \in [Runs -> Run] /\ attempts \in [Runs -> Nat] /\ announced \in [Runs -> Nat]
        /\ \A s \in Runs : EntryOK(run[s], attempts[s], announced[s])
    BY DEF IInv, TypeOK, EntriesOK
  <1>2. UNCHANGED <<attempts, announced>>
    BY DEF RegisterSubagentRun, WaitFails, BackoffEnds, Expires, Sweep, Kill, Steer,
       ReplaceSubagentRunAfterSteer
  <1>3. ASSUME NEW f \in Run, EntryOK(f, attempts[r], announced[r]), run' = [run EXCEPT ![r] = f]
        PROVE  Good
    <2>1. run' \in [Runs -> Run] /\ \A s \in Runs : EntryOK(run'[s], attempts[s], announced[s])
      BY <1>1, <1>3
    <2> QED
      BY <1>2, <2>1, QuietIsGood
  <1> DEFINE e == run[r]
  <1>4. e \in Run /\ EntryOK(e, attempts[r], announced[r])
    BY <1>1
  <1>5. CASE RegisterSubagentRun(r)
    <2> DEFINE f == [e EXCEPT !.state = "listed", !.waiting = TRUE]
    <2>1. f \in Run /\ EntryOK(f, attempts[r], announced[r])
      BY <1>4, <1>5 DEF RegisterSubagentRun, Run
    <2>2. run' = [run EXCEPT ![r] = f]
      BY <1>1, <1>5 DEF RegisterSubagentRun
    <2> QED
      BY <1>3, <2>1, <2>2
  <1>6. CASE WaitFails(r)
    <2> DEFINE f == [e EXCEPT !.waiting = FALSE]
    <2>1. f \in Run /\ EntryOK(f, attempts[r], announced[r])
      BY <1>4 DEF Run
    <2>2. run' = [run EXCEPT ![r] = f]
      BY <1>1, <1>6 DEF WaitFails
    <2> QED
      BY <1>3, <2>1, <2>2
  <1>7. CASE BackoffEnds(r)
    <2> DEFINE f == [e EXCEPT !.backoff = FALSE]
    <2>1. f \in Run /\ EntryOK(f, attempts[r], announced[r])
      BY <1>4 DEF Run
    <2>2. run' = [run EXCEPT ![r] = f]
      BY <1>1, <1>7 DEF BackoffEnds
    <2> QED
      BY <1>3, <2>1, <2>2
  <1>8. CASE Expires(r)
    <2> DEFINE f == [e EXCEPT !.expired = TRUE]
    <2>1. f \in Run /\ EntryOK(f, attempts[r], announced[r])
      BY <1>4 DEF Run
    <2>2. run' = [run EXCEPT ![r] = f]
      BY <1>1, <1>8 DEF Expires
    <2> QED
      BY <1>3, <2>1, <2>2
  <1>9. CASE Sweep(r)
    <2> DEFINE f == [e EXCEPT !.state = "gone"]
    <2>1. f \in Run /\ EntryOK(f, attempts[r], announced[r])
      BY <1>4 DEF Run
    <2>2. run' = [run EXCEPT ![r] = f]
      BY <1>1, <1>9 DEF Sweep
    <2> QED
      BY <1>3, <2>1, <2>2
  <1>10. CASE Kill(r)
    <2> DEFINE f == [e EXCEPT !.ended = TRUE, !.handled = TRUE, !.completed = TRUE,
                              !.suppressed = "killed"]
    <2>1. f \in Run
      BY <1>4 DEF Run
    <2>2. EntryOK(f, attempts[r], announced[r])
      <3>1. /\ f.handled /\ f.completed /\ f.ended
            /\ f.flows = e.flows /\ f.retries = e.retries /\ f.state = e.state
        BY <1>4 DEF Run
      <3>2. attempts[r] \in Nat /\ e.retries \in Nat
        BY <1>1, <1>4 DEF Run
      <3> HIDE DEF f
      <3> QED
        BY <1>4, <3>1, <3>2
    <2>3. run' = [run EXCEPT ![r] = f]
      BY <1>1, <1>10 DEF Kill
    <2> QED
      BY <1>3, <2>1, <2>2, <2>3
  <1>11. CASE Steer(r)
    <2> DEFINE f == [e EXCEPT !.suppressed = "steer"]
    <2>1. f \in Run /\ EntryOK(f, attempts[r], announced[r])
      BY <1>4 DEF Run
    <2>2. run' = [run EXCEPT ![r] = f]
      BY <1>1, <1>11 DEF Steer
    <2> QED
      BY <1>3, <2>1, <2>2
  <1>12. ASSUME NEW next \in Runs, ReplaceSubagentRunAfterSteer(r, next)
         PROVE  Good
    <2> DEFINE old == [e EXCEPT !.state = "gone", !.resumed = FALSE]
               first == [run EXCEPT ![r] = old]
               new == [first[next] EXCEPT !.state = "listed", !.waiting = TRUE]
    <2>1. old \in Run /\ EntryOK(old, attempts[r], announced[r])
      BY <1>4 DEF Run
    <2>2. /\ first \in [Runs -> Run] /\ first[next] \in Run
          /\ \A s \in Runs : EntryOK(first[s], attempts[s], announced[s])
      BY <1>1, <2>1
    <2>3. run' = [first EXCEPT ![next] = new]
      BY <1>1, <1>12 DEF ReplaceSubagentRunAfterSteer
    <2>4. run[next].state = "new" /\ run[next].flows = 0
      <3>1. run[next].state = "new"
        BY <1>12 DEF ReplaceSubagentRunAfterSteer
      <3>2. run[next].flows \in 0 .. 2 /\ OneFlow(run[next])
        BY <1>1 DEF Run
      <3> QED
        BY <3>1, <3>2
    <2>5. first[next].flows = 0 /\ (announced[next] > 0 => first[next].completed)
      BY <1>1, <2>4 DEF Run
    <2> HIDE DEF first
    <2>6. new \in Run /\ EntryOK(new, attempts[next], announced[next])
      BY <2>2, <2>5 DEF Run
    <2> HIDE DEF new
    <2>7. run' \in [Runs -> Run] /\ \A s \in Runs : EntryOK(run'[s], attempts[s], announced[s])
      BY <2>2, <2>3, <2>6
    <2> QED
      BY <1>2, <2>7, QuietIsGood
  <1> QED
    BY <1>5, <1>6, <1>7, <1>8, <1>9, <1>10, <1>11, <1>12

-----------------------------------------------------------------------------
(***************************************************************************)
(* The initial states satisfy the invariant.                               *)
(***************************************************************************)
LEMMA InitIInv == Init => IInv
  <1> SUFFICES ASSUME Init PROVE IInv
    OBVIOUS
  <1>1. 0 \in 0 .. MaxRetryCount /\ 0 \in 0 .. MaxTimers /\ 0 \in 0 .. 2 /\ 0 \in 0 .. MaxCrashes
    BY RegistryAssumption
  <1>2. NewRun \in Run
    BY <1>1 DEF NewRun, Run
  <1>3. EntryOK(NewRun, 0, 0)
    BY RegistryAssumption DEF NewRun, EntryOK, OneFlow, AttemptsCounted, AnnouncedIsOver,
       KilledIsOver
  <1> QED
    BY <1>1, <1>2, <1>3 DEF Init, IInv, TypeOK, EntriesOK

(***************************************************************************)
(* Every step keeps the invariant and starts no flow that is suppressed.   *)
(***************************************************************************)
LEMMA StepIInv == IInv /\ [Next]_vars => IInv' /\ Silent
  <1> SUFFICES ASSUME IInv, [Next]_vars PROVE IInv' /\ Silent
    OBVIOUS
  <1>1. CASE UNCHANGED vars
    BY <1>1 DEF vars, IInv, TypeOK, EntriesOK, Silent
  <1>2. CASE Next
    <2>1. Good
      BY <1>2, EndIsGood, TimerIsGood, FlowEndIsGood, SteerFailsIsGood, CrashIsGood, QuietSteps
      DEF Next, RegistryStep
    <2>2. announced' \in [Runs -> Nat]
      <3>1. CASE UNCHANGED announced
        BY <3>1 DEF IInv, TypeOK
      <3> QED
        BY <1>2, <3>1, FlowEndIsGood
        DEF Next, RegistryStep, RegisterSubagentRun, LifecycleEnd, WaitReturns, WaitFails,
            TimerFires, BackoffEnds, Expires, Sweep, Kill, Steer, SteerFails,
            ReplaceSubagentRunAfterSteer, Crash
    <2>3. child' \subseteq Runs /\ steering' \subseteq Runs
      BY <1>2
      DEF IInv, TypeOK, Next, RegistryStep, RegisterSubagentRun, LifecycleEnd, WaitReturns,
          WaitFails, FlowEnds, TimerFires, BackoffEnds, Expires, Sweep, Kill, Steer, SteerFails,
          ReplaceSubagentRunAfterSteer, Crash
    <2>4. crashes' \in 0 .. MaxCrashes
      <3>1. CASE UNCHANGED crashes
        BY <3>1 DEF IInv, TypeOK
      <3>2. CASE Crash
        BY <3>2, RegistryAssumption DEF Crash, IInv, TypeOK
      <3> QED
        BY <1>2, <3>1, <3>2
        DEF Next, RegistryStep, RegisterSubagentRun, LifecycleEnd, WaitReturns, WaitFails,
            FlowEnds, TimerFires, BackoffEnds, Expires, Sweep, Kill, Steer, SteerFails,
            ReplaceSubagentRunAfterSteer
    <2>5. sweeper' \in BOOLEAN
      <3>1. CASE UNCHANGED sweeper
        BY <3>1 DEF IInv, TypeOK
      <3> QED
        BY <1>2, <3>1
        DEF Next, RegistryStep, RegisterSubagentRun, LifecycleEnd, WaitReturns, WaitFails,
            FlowEnds, TimerFires, BackoffEnds, Expires, Sweep, Kill, Steer, SteerFails,
            ReplaceSubagentRunAfterSteer, Crash
    <2> QED
      BY <2>1, <2>2, <2>3, <2>4, <2>5 DEF Good, IInv, TypeOK
  <1> QED
    BY <1>1, <1>2

(***************************************************************************)
(* The variables of every behaviour have their types.                      *)
(***************************************************************************)
THEOREM TypeCorrect == Spec => []TypeOK
  <1>1. IInv => TypeOK
    BY DEF IInv
  <1> QED
    BY <1>1, InitIInv, StepIInv, PTL DEF Spec

(***************************************************************************)
(* The result of a run is announced at most once.                          *)
(***************************************************************************)
THEOREM ResultAnnouncedOnce == Spec => []AnnouncedOnce
  <1>1. IInv => AnnouncedOnce
    BY DEF IInv, EntriesOK, EntryOK, AnnouncedIsOver, AnnouncedOnce
  <1> QED
    BY <1>1, InitIInv, StepIInv, PTL DEF Spec

(***************************************************************************)
(* An announcement is tried at most MAX_ANNOUNCE_RETRY_COUNT times, by     *)
(* whichever of the ways a flow is started and over all crashes.           *)
(***************************************************************************)
THEOREM RetriesAreBounded == Spec => []AttemptsAreBounded
  <1>1. IInv => AttemptsAreBounded
    <2> SUFFICES ASSUME IInv, NEW r \in Runs PROVE attempts[r] <= MaxRetryCount
      BY DEF AttemptsAreBounded
    <2>1. attempts[r] \in Nat /\ run[r].retries \in Nat /\ MaxRetryCount \in Nat
      BY RegistryAssumption DEF IInv, TypeOK, Run
    <2>2. AttemptsCounted(run[r], attempts[r])
      BY DEF IInv, EntriesOK, EntryOK
    <2> QED
      BY <2>1, <2>2 DEF AttemptsCounted
  <1> QED
    BY <1>1, InitIInv, StepIInv, PTL DEF Spec

(***************************************************************************)
(* No flow is started for a run that was killed, is steered or is gone.    *)
(***************************************************************************)
THEOREM SuppressionHolds == Spec => SuppressedIsSilent
  <1>1. IInv /\ [Next]_vars => [Silent]_vars
    BY StepIInv
  <1> QED
    BY <1>1, InitIInv, StepIInv, PTL DEF Spec, SuppressedIsSilent, Silent
=============================================================================
