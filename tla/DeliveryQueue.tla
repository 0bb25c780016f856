---------------------------- MODULE DeliveryQueue ----------------------------
(***************************************************************************)
(* The write-ahead queue of outbound messages                              *)
(* (infra/outbound/delivery-queue.ts, deliverOutboundPayloads of           *)
(* infra/outbound/deliver.ts) and its recovery when the gateway starts     *)
(* (gateway/server.impl.ts).                                               *)
(*                                                                         *)
(* Deliveries are numbered in the order of their enqueuedAt.  A step ends  *)
(* where the code awaits the file system, a delay or the channel, so live  *)
(* deliveries, recoveries and a crash interleave there.  failDelivery      *)
(* reads the file in one step and renames the new one over it in another.  *)
(***************************************************************************)
EXTENDS Integers, Sequences, FiniteSets

CONSTANTS
    N,              \* how many deliveries
    BestEffort,     \* deliveries with bestEffort
    OnError,        \* deliveries whose sender gave an onError callback
    MaxRetries,     \* MAX_RETRIES
    Backoff,        \* BACKOFF_MS, in units of 5 s
    Budget,         \* maxRecoveryMs, in units of 5 s
    MaxRestarts,    \* bound: crashes, and restarts while something is under way
    MaxRecoveries   \* bound: recoveries under way at once

Deliveries == 1 .. N
Recoveries == 1 .. MaxRecoveries

ASSUME DeliveryAssumption ==
    /\ N \in Nat /\ MaxRestarts \in Nat /\ MaxRecoveries \in Nat \ {0}
    /\ BestEffort \subseteq Deliveries /\ OnError \subseteq Deliveries
    /\ MaxRetries \in Nat \ {0}
    /\ Backoff \in Seq(Nat) /\ Backoff # <<>>
    /\ Budget \in Nat \ {0}

VARIABLES
    file,       \* where the entry of each delivery is: queue directory, failed/
    retryCount, \* the count in the entry of the queue directory
    live,       \* deliverOutboundPayloads of each delivery
    read,       \* the entry failDelivery of the live delivery has read
    received,   \* the deliveries whose message has arrived, once or more often
    aborted,    \* the deliveries that were aborted by their sender
    recovery,   \* each call of recoverPendingDeliveries
    restarts    \* restarts so far

vars == <<file, retryCount, live, read, received, aborted, recovery, restarts>>

\* A delivery that could not be written ahead is "unlogged" and ends as "forgotten".
Unlogged == {"new", "unlogged", "forgotten"}
LiveStates == Unlogged \cup {"sending", "ack", "fail", "write", "done"}
RecoveryStates == {"load", "next", "send", "ack", "fail", "write", "done"}
Entry == [id : Deliveries, retryCount : Nat]

(***************************************************************************)
(* Where a recovery is, the entries it has loaded and not yet handled, the *)
(* delivery it is sending, or 0, the time since its start, in units of     *)
(* 5 s, and the entry its failDelivery has read.                           *)
(***************************************************************************)
Recovery == [pc : RecoveryStates, todo : SUBSET Entry, current : 0 .. N,
             elapsed : Nat, reread : Nat]

TypeOK ==
    /\ file \in [Deliveries -> SUBSET {"queue", "failed"}]
    /\ retryCount \in [Deliveries -> Nat]
    /\ live \in [Deliveries -> LiveStates]
    /\ read \in [Deliveries -> Nat]
    /\ received \subseteq Deliveries
    /\ aborted \subseteq Deliveries
    /\ recovery \in [Recoveries -> Recovery]
    /\ restarts \in 0 .. MaxRestarts

(***************************************************************************)
(* A recovery that is about to load the entries, or has returned.          *)
(***************************************************************************)
At(pc) == [pc |-> pc, todo |-> {}, current |-> 0, elapsed |-> 0, reread |-> 0]

FirstRecovery == [r \in Recoveries |-> At(IF r = 1 THEN "load" ELSE "done")]

Init ==
    /\ file = [d \in Deliveries |-> {}]
    /\ retryCount = [d \in Deliveries |-> 0]
    /\ live = [d \in Deliveries |-> "new"]
    /\ read = [d \in Deliveries |-> 0]
    /\ received = {}
    /\ aborted = {}
    /\ recovery = FirstRecovery
    /\ restarts = 0

(***************************************************************************)
(* One call of the channel: the message arrives or not, and the caller is  *)
(* told of an error or not.  With bestEffort the core hands the errors of  *)
(* the payloads to onError, which notes a partial failure; without onError *)
(* it swallows them and the caller sees a success.                         *)
(***************************************************************************)
Outcomes == [arrives : BOOLEAN, error : BOOLEAN] \ {[arrives |-> FALSE, error |-> FALSE]}

Receive(d, o) == received' = received \cup (IF o.arrives THEN {d} ELSE {})

Fails(d, o, onError) == o.error /\ (d \in BestEffort => onError)

(***************************************************************************)
(* ackDelivery, the two halves of failDelivery, and moveToFailed.  The     *)
(* rename puts the entry back even if it was removed after it was read.    *)
(***************************************************************************)
Unlink(d) ==
    /\ file' = [file EXCEPT ![d] = @ \ {"queue"}]
    /\ UNCHANGED retryCount

WriteBack(d, count) ==
    /\ file' = [file EXCEPT ![d] = @ \cup {"queue"}]
    /\ retryCount' = [retryCount EXCEPT ![d] = count + 1]

MoveToFailed(d) ==
    /\ file' = [file EXCEPT ![d] = IF "queue" \in @ THEN {"failed"} ELSE @]
    /\ UNCHANGED retryCount

-----------------------------------------------------------------------------
(***************************************************************************)
(* deliverOutboundPayloads.  A queue write that fails does not stop the    *)
(* delivery, which then has no queue id.                                   *)
(***************************************************************************)
Goto(d, state) == live' = [live EXCEPT ![d] = state]

EnqueueDelivery(d, written) ==
    /\ live[d] = "new"
    /\ \A e \in 1 .. d - 1 : live[e] # "new"
    /\ Goto(d, IF written THEN "sending" ELSE "unlogged")
    /\ file' = [file EXCEPT ![d] = IF written THEN {"queue"} ELSE {}]
    /\ UNCHANGED <<retryCount, read, received, aborted, recovery, restarts>>

Send(d, o) ==
    /\ live[d] \in {"sending", "unlogged"}
    /\ Receive(d, o)
    /\ Goto(d, CASE live[d] = "unlogged" -> "forgotten"
                 [] live[d] = "sending" /\ Fails(d, o, d \in OnError) -> "fail"
                 [] OTHER -> "ack")
    /\ UNCHANGED <<file, retryCount, read, aborted, recovery, restarts>>

Abort(d) ==
    /\ live[d] \in {"sending", "unlogged"}
    /\ aborted' = aborted \cup {d}
    /\ Goto(d, IF live[d] = "sending" THEN "ack" ELSE "forgotten")
    /\ UNCHANGED <<file, retryCount, read, received, recovery, restarts>>

AckDelivery(d) ==
    /\ live[d] = "ack"
    /\ Unlink(d)
    /\ Goto(d, "done")
    /\ UNCHANGED <<read, received, aborted, recovery, restarts>>

FailRead(d) ==
    /\ live[d] = "fail"
    /\ Goto(d, IF "queue" \in file[d] THEN "write" ELSE "done")
    /\ read' = [read EXCEPT ![d] = IF "queue" \in file[d] THEN retryCount[d] ELSE 0]
    /\ UNCHANGED <<file, retryCount, received, aborted, recovery, restarts>>

FailWrite(d) ==
    /\ live[d] = "write"
    /\ WriteBack(d, read[d])
    /\ Goto(d, "done")
    /\ read' = [read EXCEPT ![d] = 0]
    /\ UNCHANGED <<received, aborted, recovery, restarts>>

-----------------------------------------------------------------------------
(***************************************************************************)
(* recoverPendingDeliveries: load the entries, oldest first, then handle   *)
(* one after the other until the time is used up.  computeBackoffMs is     *)
(* applied to retryCount + 1.                                              *)
(***************************************************************************)
BackoffOf(count) == Backoff[IF count + 1 <= Len(Backoff) THEN count + 1 ELSE Len(Backoff)]

Becomes(r, state) == recovery' = [recovery EXCEPT ![r] = state]

LoadPendingDeliveries(r) ==
    /\ recovery[r].pc = "load"
    /\ Becomes(r, [recovery[r] EXCEPT
           !.pc   = "next",
           !.todo = {[id |-> d, retryCount |-> retryCount[d]] :
                        d \in {e \in Deliveries : "queue" \in file[e]}}])
    /\ UNCHANGED <<file, retryCount, live, read, received, aborted, restarts>>

(***************************************************************************)
(* The top of the loop: out of time, too many retries, a backoff that does *)
(* not fit into the rest of the time, or a delay and then a send.          *)
(***************************************************************************)
FinishRecovery(r) == Becomes(r, At("done")) /\ UNCHANGED <<file, retryCount>>

GiveUp(r, entry) ==
    /\ entry.retryCount >= MaxRetries
    /\ MoveToFailed(entry.id)
    /\ Becomes(r, [recovery[r] EXCEPT !.todo = @ \ {entry}])

Postpone(r, entry) ==
    /\ entry.retryCount < MaxRetries
    /\ recovery[r].elapsed + BackoffOf(entry.retryCount) >= Budget
    /\ FinishRecovery(r)

TakeUp(r, entry) ==
    /\ entry.retryCount < MaxRetries
    /\ recovery[r].elapsed + BackoffOf(entry.retryCount) < Budget
    /\ Becomes(r, [recovery[r] EXCEPT !.pc = "send", !.todo = @ \ {entry}, !.current = entry.id,
                                      !.elapsed = @ + BackoffOf(entry.retryCount)])
    /\ UNCHANGED <<file, retryCount>>

Handle(r) ==
    /\ recovery[r].pc = "next"
    /\ \/ (recovery[r].todo = {} \/ recovery[r].elapsed >= Budget) /\ FinishRecovery(r)
       \/ /\ recovery[r].elapsed < Budget
          /\ \E entry \in recovery[r].todo :
                /\ \A other \in recovery[r].todo : entry.id <= other.id
                /\ GiveUp(r, entry) \/ Postpone(r, entry) \/ TakeUp(r, entry)
    /\ UNCHANGED <<live, read, received, aborted, restarts>>

(***************************************************************************)
(* The send of the recovery has no onError, and may outlast the time left. *)
(***************************************************************************)
NextEntry(r) == Becomes(r, [recovery[r] EXCEPT !.pc = "next", !.current = 0, !.reread = 0])

ResendThenAck(r, o, late) ==    \* mutant: an entry is acknowledged whatever the send returned
    /\ recovery[r].pc = "send"
    /\ Receive(recovery[r].current, o)
    /\ Becomes(r, [recovery[r] EXCEPT !.pc = "ack", !.elapsed = IF late THEN Budget ELSE @])
    /\ UNCHANGED <<file, retryCount, live, read, aborted, restarts>>

Resend(r, o, late) ==
    /\ recovery[r].pc = "send"
    /\ Receive(recovery[r].current, o)
    /\ Becomes(r, [recovery[r] EXCEPT
           !.pc      = IF Fails(recovery[r].current, o, FALSE) THEN "fail" ELSE "ack",
           !.elapsed = IF late THEN Budget ELSE @])
    /\ UNCHANGED <<file, retryCount, live, read, aborted, restarts>>

RecoveryAck(r) ==
    /\ recovery[r].pc = "ack"
    /\ Unlink(recovery[r].current)
    /\ NextEntry(r)
    /\ UNCHANGED <<live, read, received, aborted, restarts>>

RecoveryFailRead(r) ==
    /\ recovery[r].pc = "fail"
    /\ IF "queue" \in file[recovery[r].current]
       THEN Becomes(r, [recovery[r] EXCEPT !.pc = "write",
                                           !.reread = retryCount[recovery[r].current]])
       ELSE NextEntry(r)
    /\ UNCHANGED <<file, retryCount, live, read, received, aborted, restarts>>

RecoveryFailForgets(r) ==       \* mutant: the failed attempt is not counted
    /\ recovery[r].pc = "write"
    /\ NextEntry(r)
    /\ UNCHANGED <<file, retryCount, live, read, received, aborted, restarts>>

RecoveryFailWrite(r) ==
    /\ recovery[r].pc = "write"
    /\ WriteBack(recovery[r].current, recovery[r].reread)
    /\ NextEntry(r)
    /\ UNCHANGED <<live, read, received, aborted, restarts>>

-----------------------------------------------------------------------------
(***************************************************************************)
(* A crash loses whatever was under way and keeps the files; a restart     *)
(* inside the process keeps the deliveries and the recoveries under way,   *)
(* too, which nothing waits for or cancels.  Either starts a recovery.     *)
(***************************************************************************)
Crash ==
    /\ restarts < MaxRestarts
    /\ restarts' = restarts + 1
    /\ live' = [d \in Deliveries |-> CASE live[d] = "unlogged" -> "forgotten"
                                        [] live[d] \in {"new", "forgotten"} -> live[d]
                                        [] OTHER -> "done"]
    /\ read' = [d \in Deliveries |-> 0]
    /\ recovery' = FirstRecovery
    /\ UNCHANGED <<file, retryCount, received, aborted>>

Returned(r) == recovery[r].pc = "done"

RestartInProcess ==
    /\ restarts < MaxRestarts
    /\ restarts' = restarts + 1
    /\ \E r \in Recoveries :
          /\ Returned(r) /\ \A other \in 1 .. r - 1 : ~Returned(other)
          /\ Becomes(r, At("load"))
    /\ UNCHANGED <<file, retryCount, live, read, received, aborted>>

(***************************************************************************)
(* Restarts go on for ever once deliveries and recoveries have returned.   *)
(***************************************************************************)
Restart ==
    /\ \A r \in Recoveries : Returned(r)
    /\ \A d \in Deliveries : live[d] \in {"new", "forgotten", "done"}
    /\ recovery' = FirstRecovery
    /\ UNCHANGED <<file, retryCount, live, read, received, aborted, restarts>>

LiveStep(d) ==
    \/ \E o \in Outcomes : Send(d, o)
    \/ Abort(d)
    \/ AckDelivery(d)
    \/ FailRead(d)
    \/ FailWrite(d)

RecoveryStep(r) ==
    \/ LoadPendingDeliveries(r)
    \/ Handle(r)
    \/ \E o \in Outcomes, late \in BOOLEAN : Resend(r, o, late)
    \/ RecoveryAck(r)
    \/ RecoveryFailRead(r)
    \/ RecoveryFailWrite(r)

Next ==
    \/ \E d \in Deliveries, written \in BOOLEAN : EnqueueDelivery(d, written)
    \/ \E d \in Deliveries : LiveStep(d)
    \/ \E r \in Recoveries : RecoveryStep(r)
    \/ Crash
    \/ RestartInProcess
    \/ Restart

(***************************************************************************)
(* Calls of the channel and of the file system return, and the gateway is  *)
(* restarted now and then.                                                 *)
(***************************************************************************)
Fairness ==
    /\ WF_vars(\E d \in Deliveries : LiveStep(d))
    /\ WF_vars(\E r \in Recoveries : RecoveryStep(r))
    /\ WF_vars(Restart)

Spec == Init /\ [][Next]_vars /\ Fairness

-----------------------------------------------------------------------------
(***************************************************************************)
(* A delivery that was written ahead and did not reach the recipient is    *)
(* still on disk, in the queue or in failed/, unless its sender aborted    *)
(* it: whatever crashes, restarts and overlapping recoveries there were.   *)
(* It is claimed of deliveries without bestEffort: the error of a          *)
(* best-effort send of the recovery is swallowed, and the entry removed.   *)
(***************************************************************************)
NothingLost ==
    \A d \in Deliveries :
        \/ file[d] # {}
        \/ d \in received
        \/ d \in aborted
        \/ live[d] \in Unlogged

(***************************************************************************)
(* An entry in the queue directory is delivered or given up: with a        *)
(* restart now and then, no entry is kept for ever.                        *)
(***************************************************************************)
QueueEmpties == \A d \in Deliveries : []<>("queue" \notin file[d])
=============================================================================
