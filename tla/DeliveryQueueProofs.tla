------------------------- MODULE DeliveryQueueProofs -------------------------
(***************************************************************************)
(* That a delivery written ahead is never lost, for every number of        *)
(* deliveries, retries and restarts and every backoff table and budget,    *)
(* provided that no delivery is best-effort (recovery re-sends without the *)
(* onError of the caller, so the errors of such a delivery are swallowed   *)
(* and its entry is acknowledged).                                         *)
(***************************************************************************)
EXTENDS DeliveryQueue, TLAPS

(***************************************************************************)
(* NothingLost is not inductive: the step that removes an entry is apart   *)
(* from the send that justifies it.  The strengthening says that whoever   *)
(* is about to acknowledge has seen the message arrive or be aborted, and  *)
(* says it of each recovery under way: none relies on what another did.    *)
(***************************************************************************)
CurrentOK ==
    \A r \in Recoveries :
        recovery[r].pc \in {"send", "ack", "fail", "write"} => recovery[r].current \in Deliveries

LiveAckIsEarned ==
    \A d \in Deliveries : live[d] = "ack" => d \in received \/ d \in aborted

RecoveryAckIsEarned ==
    \A r \in Recoveries : recovery[r].pc = "ack" => recovery[r].current \in received

AckIsEarned == LiveAckIsEarned /\ RecoveryAckIsEarned

IInv == TypeOK /\ CurrentOK /\ AckIsEarned /\ NothingLost

(***************************************************************************)
(* What is said of one recovery, apart from its type.                      *)
(***************************************************************************)
Sound(state) == state.pc \in {"send", "ack", "fail", "write"} => state.current \in Deliveries

(***************************************************************************)
(* A recovery that loads the entries, or has returned, has a type.         *)
(***************************************************************************)
LEMMA AtType ==
  ASSUME NEW pc \in RecoveryStates
  PROVE  At(pc) \in Recovery /\ At(pc).pc = pc
  BY DeliveryAssumption DEF At, Recovery

LEMMA FirstRecoveryType ==
  /\ FirstRecovery \in [Recoveries -> Recovery]
  /\ \A r \in Recoveries : FirstRecovery[r].pc \in {"load", "done"}
  <1>1. "load" \in RecoveryStates /\ "done" \in RecoveryStates
    BY DEF RecoveryStates
  <1>2. \A r \in Recoveries : (IF r = 1 THEN "load" ELSE "done") \in {"load", "done"}
    OBVIOUS
  <1>3. \A pc \in {"load", "done"} : At(pc) \in Recovery /\ At(pc).pc = pc
    BY <1>1, AtType
  <1>4. \A r \in Recoveries : \E pc \in {"load", "done"} : FirstRecovery[r] = At(pc)
    BY <1>2 DEF FirstRecovery
  <1>5. \A r \in Recoveries : FirstRecovery[r] \in Recovery
    BY <1>3, <1>4
  <1>6. \A r \in Recoveries : FirstRecovery[r].pc \in {"load", "done"}
    BY <1>3, <1>4
  <1>7. FirstRecovery = [r \in Recoveries |-> FirstRecovery[r]]
    BY DEF FirstRecovery
  <1> QED
    BY <1>5, <1>6, <1>7

(***************************************************************************)
(* A step of one recovery keeps the types if its new state has one.        *)
(***************************************************************************)
LEMMA BecomesType ==
  ASSUME recovery \in [Recoveries -> Recovery], CurrentOK,
         NEW r \in Recoveries, NEW state \in Recovery, Sound(state), Becomes(r, state)
  PROVE  recovery' \in [Recoveries -> Recovery] /\ CurrentOK'
  <1>1. recovery' \in [Recoveries -> Recovery]
    BY DEF Becomes
  <1>2. recovery'[r] = state /\ \A other \in Recoveries : other # r => recovery'[other] = recovery[other]
    BY DEF Becomes
  <1>3. CurrentOK'
    <2> SUFFICES ASSUME NEW other \in Recoveries,
                        recovery'[other].pc \in {"send", "ack", "fail", "write"}
                 PROVE  recovery'[other].current \in Deliveries
      BY DEF CurrentOK, Deliveries, Recoveries
    <2> QED
      BY <1>2 DEF CurrentOK, Sound
  <1> QED
    BY <1>1, <1>3

(***************************************************************************)
(* The initial states satisfy the invariant.                               *)
(***************************************************************************)
LEMMA InitIInv == Init => IInv
  <1> SUFFICES ASSUME Init PROVE IInv
    OBVIOUS
  <1>1. TypeOK
    BY DeliveryAssumption, FirstRecoveryType DEF Init, TypeOK, LiveStates, Unlogged, Deliveries
  <1>2. \A r \in Recoveries : recovery[r].pc \in {"load", "done"}
    BY FirstRecoveryType DEF Init
  <1>3. CurrentOK /\ RecoveryAckIsEarned
    BY <1>2 DEF CurrentOK, RecoveryAckIsEarned
  <1>4. LiveAckIsEarned /\ NothingLost
    BY DEF Init, LiveAckIsEarned, NothingLost, Unlogged
  <1> QED
    BY <1>1, <1>3, <1>4 DEF IInv, AckIsEarned

(***************************************************************************)
(* computeBackoffMs is defined for every count.                            *)
(***************************************************************************)
LEMMA BackoffType == \A count \in Nat : BackoffOf(count) \in Nat
  BY DeliveryAssumption DEF BackoffOf

(***************************************************************************)
(* The operations on the files keep their types.                           *)
(***************************************************************************)
FilesOK == file \in [Deliveries -> SUBSET {"queue", "failed"}] /\ retryCount \in [Deliveries -> Nat]

LEMMA FilesType ==
  ASSUME FilesOK, NEW d \in Deliveries, NEW count \in Nat,
         Unlink(d) \/ WriteBack(d, count) \/ MoveToFailed(d)
  PROVE  FilesOK'
  <1>1. CASE Unlink(d)
    BY <1>1 DEF FilesOK, Unlink
  <1>2. CASE WriteBack(d, count)
    BY <1>2 DEF FilesOK, WriteBack
  <1>3. CASE MoveToFailed(d)
    <2>1. \E S \in SUBSET {"queue", "failed"} : file' = [file EXCEPT ![d] = S]
      BY <1>3 DEF FilesOK, MoveToFailed
    <2> QED
      BY <1>3, <2>1 DEF FilesOK, MoveToFailed
  <1> QED
    BY <1>1, <1>2, <1>3

(***************************************************************************)
(* The entry a recovery takes from its list is an entry.                   *)
(***************************************************************************)
LEMMA TodoType ==
  ASSUME TypeOK, NEW r \in Recoveries, NEW entry \in recovery[r].todo
  PROVE  entry.id \in Deliveries /\ entry.retryCount \in Nat
  BY DEF TypeOK, Recovery, Entry

(***************************************************************************)
(* The states a recovery passes through have types.                        *)
(***************************************************************************)
LEMMA NextEntryType ==
  ASSUME TypeOK, NEW r \in Recoveries
  PROVE  LET state == [recovery[r] EXCEPT !.pc = "next", !.current = 0, !.reread = 0]
         IN  state \in Recovery /\ state.pc = "next"
  <1>1. recovery[r] \in Recovery /\ "next" \in RecoveryStates
    BY DEF TypeOK, RecoveryStates
  <1>2. 0 \in 0 .. N /\ 0 \in Nat
    BY DeliveryAssumption
  <1> QED
    BY <1>1, <1>2 DEF Recovery

LEMMA TakeUpType ==
  ASSUME TypeOK, NEW r \in Recoveries, NEW entry \in recovery[r].todo
  PROVE  LET state == [recovery[r] EXCEPT !.pc = "send", !.todo = @ \ {entry}, !.current = entry.id,
                                          !.elapsed = @ + BackoffOf(entry.retryCount)]
         IN  state \in Recovery /\ state.pc = "send" /\ Sound(state)
  <1>1. entry.id \in Deliveries /\ entry.id \in 0 .. N
    BY DeliveryAssumption, TodoType DEF Deliveries
  <1>2. BackoffOf(entry.retryCount) \in Nat
    BY TodoType, BackoffType
  <1>3. recovery[r].elapsed + BackoffOf(entry.retryCount) \in Nat
    BY <1>2 DEF TypeOK, Recovery
  <1> QED
    BY <1>1, <1>3 DEF TypeOK, Recovery, RecoveryStates, Sound

LEMMA ResendType ==
  ASSUME TypeOK, CurrentOK, NEW r \in Recoveries, recovery[r].pc = "send", NEW o \in Outcomes,
         NEW late \in BOOLEAN
  PROVE  LET state == [recovery[r] EXCEPT
                 !.pc      = IF Fails(recovery[r].current, o, FALSE) THEN "fail" ELSE "ack",
                 !.elapsed = IF late THEN Budget ELSE @]
         IN  /\ state \in Recovery
             /\ Sound(state)
             /\ state.pc = "ack" => ~Fails(recovery[r].current, o, FALSE)
             /\ state.current = recovery[r].current
  <1>1. recovery[r].current \in Deliveries
    BY DEF CurrentOK
  <1> QED
    BY <1>1, DeliveryAssumption DEF TypeOK, Recovery, RecoveryStates, Sound

(***************************************************************************)
(* Every step of a recovery keeps the types, and its delivery one.         *)
(***************************************************************************)
LEMMA HandleType ==
  ASSUME TypeOK, CurrentOK, NEW r \in Recoveries, Handle(r)
  PROVE  TypeOK' /\ CurrentOK'
  <1> USE DEF TypeOK
  <1>1. CASE FinishRecovery(r)
    <2>1. At("done") \in Recovery /\ At("done").pc = "done"
      BY AtType DEF RecoveryStates
    <2>2. recovery' \in [Recoveries -> Recovery] /\ CurrentOK'
      BY <1>1, <2>1, BecomesType DEF FinishRecovery, Sound
    <2> QED
      BY <1>1, <2>2 DEF Handle, FinishRecovery
  <1>2. ASSUME NEW entry \in recovery[r].todo, GiveUp(r, entry)
        PROVE  TypeOK' /\ CurrentOK'
    <2>1. FilesOK'
      BY <1>2, TodoType, FilesType, 0 \in Nat DEF GiveUp, FilesOK
    <2> DEFINE state == [recovery[r] EXCEPT !.todo = @ \ {entry}]
    <2>2. state \in Recovery /\ state.pc = recovery[r].pc
      BY DEF Recovery
    <2>3. state.pc = "next"
      BY <2>2 DEF Handle
    <2>4. Becomes(r, state)
      BY <1>2 DEF GiveUp
    <2> HIDE DEF state
    <2>5. recovery' \in [Recoveries -> Recovery] /\ CurrentOK'
      BY <2>2, <2>3, <2>4, BecomesType DEF Sound
    <2> QED
      BY <2>1, <2>5 DEF Handle, FilesOK
  <1>3. ASSUME NEW entry \in recovery[r].todo, TakeUp(r, entry)
        PROVE  TypeOK' /\ CurrentOK'
    <2> DEFINE state == [recovery[r] EXCEPT !.pc = "send", !.todo = @ \ {entry},
                                            !.current = entry.id,
                                            !.elapsed = @ + BackoffOf(entry.retryCount)]
    <2>1. state \in Recovery /\ Sound(state)
      BY TakeUpType
    <2>2. Becomes(r, state) /\ UNCHANGED <<file, retryCount>>
      BY <1>3 DEF TakeUp
    <2> HIDE DEF state
    <2>3. recovery' \in [Recoveries -> Recovery] /\ CurrentOK'
      BY <2>1, <2>2, BecomesType
    <2> QED
      BY <2>2, <2>3 DEF Handle
  <1> QED
    BY <1>1, <1>2, <1>3 DEF Handle, Postpone

LEMMA RecoveryStepType ==
  ASSUME TypeOK, CurrentOK, NEW r \in Recoveries, RecoveryStep(r)
  PROVE  TypeOK' /\ CurrentOK'
  <1> USE DEF TypeOK
  <1>1. CASE LoadPendingDeliveries(r)
    <2> DEFINE loaded == {[id |-> d, retryCount |-> retryCount[d]] :
                             d \in {e \in Deliveries : "queue" \in file[e]}}
               state == [recovery[r] EXCEPT !.pc = "next", !.todo = loaded]
    <2>1. loaded \subseteq Entry
      BY DEF Entry
    <2>2. Becomes(r, state)
      BY <1>1 DEF LoadPendingDeliveries
    <2> HIDE DEF loaded
    <2>3. state \in Recovery /\ state.pc = "next"
      BY <2>1 DEF Recovery, RecoveryStates
    <2> HIDE DEF state
    <2>4. recovery' \in [Recoveries -> Recovery] /\ CurrentOK'
      BY <2>2, <2>3, BecomesType DEF Sound
    <2> QED
      BY <1>1, <2>4 DEF LoadPendingDeliveries
  <1>2. CASE Handle(r)
    BY <1>2, HandleType
  <1>3. ASSUME NEW o \in Outcomes, NEW late \in BOOLEAN, Resend(r, o, late)
        PROVE  TypeOK' /\ CurrentOK'
    <2> DEFINE state == [recovery[r] EXCEPT
                   !.pc      = IF Fails(recovery[r].current, o, FALSE) THEN "fail" ELSE "ack",
                   !.elapsed = IF late THEN Budget ELSE @]
    <2>1. recovery[r].pc = "send" /\ Becomes(r, state)
      BY <1>3 DEF Resend
    <2>2. state \in Recovery /\ Sound(state)
      BY <2>1, ResendType
    <2>3. recovery[r].current \in Deliveries
      BY <2>1 DEF CurrentOK
    <2>4. received' \subseteq Deliveries
      BY <1>3, <2>3 DEF Resend, Receive
    <2> HIDE DEF state
    <2>5. recovery' \in [Recoveries -> Recovery] /\ CurrentOK'
      BY <2>1, <2>2, BecomesType
    <2> QED
      BY <1>3, <2>4, <2>5 DEF Resend
  <1> DEFINE after == [recovery[r] EXCEPT !.pc = "next", !.current = 0, !.reread = 0]
  <1>4. after \in Recovery /\ Sound(after)
    BY NextEntryType DEF Sound
  <1>5. ASSUME NextEntry(r)
        PROVE  recovery' \in [Recoveries -> Recovery] /\ CurrentOK'
    <2>1. Becomes(r, after)
      BY <1>5 DEF NextEntry
    <2> HIDE DEF after
    <2> QED
      BY <1>4, <2>1, BecomesType
  <1> HIDE DEF after
  <1>6. CASE RecoveryAck(r)
    <2>1. recovery[r].current \in Deliveries
      BY <1>6 DEF RecoveryAck, CurrentOK
    <2>2. FilesOK'
      BY <1>6, <2>1, FilesType, 0 \in Nat DEF RecoveryAck, FilesOK
    <2> QED
      BY <1>5, <1>6, <2>2 DEF RecoveryAck, FilesOK
  <1>7. CASE RecoveryFailRead(r)
    <2>1. recovery[r].current \in Deliveries
      BY <1>7 DEF RecoveryFailRead, CurrentOK
    <2> DEFINE state == [recovery[r] EXCEPT !.pc = "write",
                                            !.reread = retryCount[recovery[r].current]]
    <2>2. state \in Recovery /\ state.current = recovery[r].current
      BY <2>1 DEF Recovery, RecoveryStates
    <2>3. Becomes(r, state) \/ NextEntry(r)
      BY <1>7 DEF RecoveryFailRead
    <2> HIDE DEF state
    <2>4. recovery' \in [Recoveries -> Recovery] /\ CurrentOK'
      BY <1>5, <2>1, <2>2, <2>3, BecomesType DEF Sound
    <2> QED
      BY <1>7, <2>4 DEF RecoveryFailRead
  <1>8. CASE RecoveryFailWrite(r)
    <2>1. recovery[r].current \in Deliveries /\ recovery[r].reread \in Nat
      BY <1>8 DEF RecoveryFailWrite, CurrentOK, Recovery
    <2>2. FilesOK'
      BY <1>8, <2>1, FilesType DEF RecoveryFailWrite, FilesOK
    <2> QED
      BY <1>5, <1>8, <2>2 DEF RecoveryFailWrite, FilesOK
  <1> QED
    BY <1>1, <1>2, <1>3, <1>6, <1>7, <1>8 DEF RecoveryStep

(***************************************************************************)
(* Every step keeps the types.                                             *)
(***************************************************************************)
LEMMA LiveStepType ==
  ASSUME TypeOK, CurrentOK, NEW d \in Deliveries, LiveStep(d)
  PROVE  TypeOK' /\ CurrentOK'
  <1> USE DEF TypeOK
  <1>1. ASSUME NEW o \in Outcomes, Send(d, o)
        PROVE  TypeOK' /\ CurrentOK'
    <2>1. received' \subseteq Deliveries
      BY <1>1 DEF Send, Receive
    <2>2. \E state \in LiveStates : live' = [live EXCEPT ![d] = state]
      BY <1>1 DEF Send, Goto, LiveStates, Unlogged
    <2>3. CurrentOK'
      BY <1>1 DEF Send, CurrentOK
    <2> QED
      BY <1>1, <2>1, <2>2, <2>3 DEF Send
  <1>2. CASE Abort(d)
    BY <1>2 DEF Abort, Goto, LiveStates, Unlogged, CurrentOK
  <1>3. CASE AckDelivery(d)
    <2>1. FilesOK'
      BY <1>3, FilesType, 0 \in Nat DEF AckDelivery, FilesOK
    <2> QED
      BY <1>3, <2>1 DEF AckDelivery, Goto, LiveStates, Unlogged, FilesOK, CurrentOK
  <1>4. CASE FailRead(d)
    BY <1>4 DEF FailRead, Goto, LiveStates, Unlogged, CurrentOK
  <1>5. CASE FailWrite(d)
    <2>1. FilesOK'
      BY <1>5, FilesType DEF FailWrite, FilesOK
    <2> QED
      BY <1>5, <2>1 DEF FailWrite, Goto, LiveStates, Unlogged, FilesOK, CurrentOK
  <1> QED
    BY <1>1, <1>2, <1>3, <1>4, <1>5 DEF LiveStep

LEMMA TypeStep == TypeOK /\ CurrentOK /\ [Next]_vars => TypeOK' /\ CurrentOK'
  <1> SUFFICES ASSUME TypeOK, CurrentOK, [Next]_vars PROVE TypeOK' /\ CurrentOK'
    OBVIOUS
  <1> USE DEF TypeOK
  <1>0. N \in Nat /\ MaxRestarts \in Nat
    BY DeliveryAssumption
  <1>1. ASSUME NEW d \in Deliveries, NEW written \in BOOLEAN, EnqueueDelivery(d, written)
        PROVE  TypeOK' /\ CurrentOK'
    BY <1>1 DEF EnqueueDelivery, Goto, LiveStates, Unlogged, CurrentOK
  <1>2. ASSUME recovery' = FirstRecovery
        PROVE  recovery' \in [Recoveries -> Recovery] /\ CurrentOK'
    <2>1. \A r \in Recoveries : recovery'[r].pc \in {"load", "done"}
      BY <1>2, FirstRecoveryType
    <2> QED
      BY <1>2, <2>1, FirstRecoveryType DEF CurrentOK, Recoveries
  <1>3. CASE Crash
    <2>1. live' \in [Deliveries -> LiveStates]
      BY <1>3 DEF Crash, LiveStates, Unlogged
    <2> QED
      BY <1>0, <1>2, <1>3, <2>1 DEF Crash
  <1>4. CASE RestartInProcess
    <2>1. PICK r \in Recoveries : Becomes(r, At("load"))
      BY <1>4 DEF RestartInProcess
    <2>2. At("load") \in Recovery /\ At("load").pc = "load"
      BY AtType DEF RecoveryStates
    <2>3. recovery' \in [Recoveries -> Recovery] /\ CurrentOK'
      BY <2>1, <2>2, BecomesType DEF Sound
    <2> QED
      BY <1>0, <1>4, <2>3 DEF RestartInProcess
  <1>5. CASE Restart
    BY <1>2, <1>5 DEF Restart
  <1>6. CASE UNCHANGED vars
    BY <1>6 DEF vars, CurrentOK
  <1> QED
    BY <1>1, <1>3, <1>4, <1>5, <1>6, LiveStepType, RecoveryStepType DEF Next

(***************************************************************************)
(* A send without an error was received, and no step takes one back.       *)
(***************************************************************************)
LEMMA ReceivedWithoutError ==
  ASSUME NEW d \in Deliveries, NEW o \in Outcomes, Receive(d, o), ~o.error
  PROVE  d \in received'
  BY DEF Receive, Outcomes

LEMMA ReceivedGrows ==
  ASSUME NEW d, NEW o \in Outcomes, Receive(d, o)
  PROVE  received \subseteq received'
  BY DEF Receive

(***************************************************************************)
(* A step of one recovery leaves the others' acknowledgements earned.      *)
(***************************************************************************)
LEMMA BecomesEarned ==
  ASSUME recovery \in [Recoveries -> Recovery], RecoveryAckIsEarned, received \subseteq received',
         NEW r \in Recoveries, NEW state, Becomes(r, state),
         state.pc = "ack" => state.current \in received'
  PROVE  RecoveryAckIsEarned'
  <1>1. \A other \in Recoveries : recovery'[other] = IF other = r THEN state ELSE recovery[other]
    BY DEF Becomes
  <1> SUFFICES ASSUME NEW other \in Recoveries, recovery'[other].pc = "ack"
               PROVE  recovery'[other].current \in received'
    BY DEF RecoveryAckIsEarned, Recoveries
  <1> QED
    BY <1>1 DEF RecoveryAckIsEarned

(***************************************************************************)
(* A step that is no acknowledgement keeps the entry of every delivery.    *)
(***************************************************************************)
LEMMA FilesKept ==
  ASSUME TypeOK, NEW d \in Deliveries, NEW count, WriteBack(d, count) \/ MoveToFailed(d)
  PROVE  \A e \in Deliveries : file[e] # {} => file'[e] # {}
  BY DEF TypeOK, WriteBack, MoveToFailed

(***************************************************************************)
(* Every step of a recovery keeps the invariant.  It removes an entry only *)
(* in RecoveryAck, where RecoveryAckIsEarned applies; an entry given up    *)
(* moves to failed/; and a rename puts an entry back.                      *)
(***************************************************************************)
LEMMA RecoveryStepSafe ==
  ASSUME BestEffort = {}, IInv, NEW r \in Recoveries, RecoveryStep(r)
  PROVE  AckIsEarned' /\ NothingLost'
  <1>0. TypeOK /\ CurrentOK /\ LiveAckIsEarned /\ RecoveryAckIsEarned /\ NothingLost
    BY DEF IInv, AckIsEarned
  <1>a. recovery \in [Recoveries -> Recovery] /\ recovery[r] \in Recovery
    BY <1>0 DEF TypeOK
  <1>b. UNCHANGED <<live, aborted>>
    BY DEF RecoveryStep, LoadPendingDeliveries, Handle, Resend, RecoveryAck, RecoveryFailRead,
       RecoveryFailWrite
  <1>c. received \subseteq received'
    BY ReceivedGrows DEF RecoveryStep, LoadPendingDeliveries, Handle, Resend, RecoveryAck,
       RecoveryFailRead, RecoveryFailWrite
  <1>1. LiveAckIsEarned'
    BY <1>0, <1>b, <1>c DEF LiveAckIsEarned
  <1>2. ASSUME \A d \in Deliveries : file[d] # {} => file'[d] # {} \/ d \in received'
        PROVE  NothingLost'
    BY <1>0, <1>b, <1>c, <1>2 DEF NothingLost
  <1>3. ASSUME NextEntry(r)
        PROVE  RecoveryAckIsEarned'
    <2> DEFINE state == [recovery[r] EXCEPT !.pc = "next", !.current = 0, !.reread = 0]
    <2>1. state.pc = "next"
      BY <1>0, NextEntryType
    <2>2. Becomes(r, state)
      BY <1>3 DEF NextEntry
    <2> HIDE DEF state
    <2> QED
      BY <1>0, <1>a, <1>c, <2>1, <2>2, BecomesEarned
  <1>4. CASE LoadPendingDeliveries(r)
    <2>1. PICK todo : Becomes(r, [recovery[r] EXCEPT !.pc = "next", !.todo = todo])
      BY <1>4 DEF LoadPendingDeliveries
    <2> DEFINE state == [recovery[r] EXCEPT !.pc = "next", !.todo = todo]
    <2>2. state.pc = "next"
      BY <1>a DEF Recovery
    <2>3. Becomes(r, state)
      BY <2>1
    <2> HIDE DEF state
    <2>4. RecoveryAckIsEarned'
      BY <1>0, <1>a, <1>c, <2>2, <2>3, BecomesEarned
    <2> QED
      BY <1>1, <1>2, <1>4, <2>4 DEF LoadPendingDeliveries, AckIsEarned
  <1>5. CASE Handle(r)
    <2>1. ASSUME FinishRecovery(r)
          PROVE  AckIsEarned' /\ NothingLost'
      <3>1. At("done").pc = "done"
        BY DEF At
      <3>2. RecoveryAckIsEarned'
        BY <1>0, <1>a, <1>c, <2>1, <3>1, BecomesEarned DEF FinishRecovery
      <3> QED
        BY <1>1, <1>2, <2>1, <3>2 DEF FinishRecovery, AckIsEarned
    <2>2. ASSUME NEW entry \in recovery[r].todo, GiveUp(r, entry)
          PROVE  AckIsEarned' /\ NothingLost'
      <3> DEFINE state == [recovery[r] EXCEPT !.todo = @ \ {entry}]
      <3>1. state.pc = "next" /\ Becomes(r, state)
        BY <1>a, <1>5, <2>2 DEF Handle, GiveUp, Recovery
      <3> HIDE DEF state
      <3>2. RecoveryAckIsEarned'
        BY <1>0, <1>a, <1>c, <3>1, BecomesEarned
      <3>3. \A e \in Deliveries : file[e] # {} => file'[e] # {}
        BY <1>0, <2>2, TodoType, FilesKept DEF GiveUp
      <3> QED
        BY <1>1, <1>2, <3>2, <3>3 DEF AckIsEarned
    <2>3. ASSUME NEW entry \in recovery[r].todo, TakeUp(r, entry)
          PROVE  AckIsEarned' /\ NothingLost'
      <3> DEFINE state == [recovery[r] EXCEPT !.pc = "send", !.todo = @ \ {entry},
                                              !.current = entry.id,
                                              !.elapsed = @ + BackoffOf(entry.retryCount)]
      <3>1. state.pc = "send"
        BY <1>0, TakeUpType
      <3>2. Becomes(r, state) /\ UNCHANGED file
        BY <2>3 DEF TakeUp
      <3> HIDE DEF state
      <3>3. RecoveryAckIsEarned'
        BY <1>0, <1>a, <1>c, <3>1, <3>2, BecomesEarned
      <3> QED
        BY <1>1, <1>2, <3>2, <3>3 DEF AckIsEarned
    <2> QED
      BY <1>5, <2>1, <2>2, <2>3 DEF Handle, Postpone
  <1>6. ASSUME NEW o \in Outcomes, NEW late \in BOOLEAN, Resend(r, o, late)
        PROVE  AckIsEarned' /\ NothingLost'
    <2> DEFINE state == [recovery[r] EXCEPT
                   !.pc      = IF Fails(recovery[r].current, o, FALSE) THEN "fail" ELSE "ack",
                   !.elapsed = IF late THEN Budget ELSE @]
    <2>1. recovery[r].pc = "send" /\ Becomes(r, state) /\ UNCHANGED file
      BY <1>6 DEF Resend
    <2>2. recovery[r].current \in Deliveries
      BY <1>0, <2>1 DEF CurrentOK
    <2>3. /\ state.current = recovery[r].current
          /\ state.pc = "ack" => ~Fails(recovery[r].current, o, FALSE)
      BY <1>0, <2>1, ResendType
    <2>4. ~Fails(recovery[r].current, o, FALSE) => recovery[r].current \in received'
      BY <1>6, <2>2, ReceivedWithoutError DEF Resend, Fails
    <2> HIDE DEF state
    <2>5. RecoveryAckIsEarned'
      BY <1>0, <1>a, <1>c, <2>1, <2>3, <2>4, BecomesEarned
    <2> QED
      BY <1>1, <1>2, <2>1, <2>5 DEF AckIsEarned
  <1>7. CASE RecoveryAck(r)
    <2>1. recovery[r].current \in received'
      BY <1>0, <1>7, <1>c DEF RecoveryAck, RecoveryAckIsEarned
    <2>2. \A d \in Deliveries : d # recovery[r].current => file'[d] = file[d]
      BY <1>0, <1>7 DEF RecoveryAck, Unlink, TypeOK
    <2> QED
      BY <1>1, <1>2, <1>3, <1>7, <2>1, <2>2 DEF RecoveryAck, AckIsEarned
  <1>8. CASE RecoveryFailRead(r)
    <2> DEFINE state == [recovery[r] EXCEPT !.pc = "write",
                                            !.reread = retryCount[recovery[r].current]]
    <2>1. Becomes(r, state) \/ NextEntry(r)
      BY <1>8 DEF RecoveryFailRead
    <2>2. state.pc = "write"
      BY <1>a DEF Recovery
    <2> HIDE DEF state
    <2>3. RecoveryAckIsEarned'
      BY <1>0, <1>3, <1>a, <1>c, <2>1, <2>2, BecomesEarned
    <2> QED
      BY <1>1, <1>2, <1>8, <2>3 DEF RecoveryFailRead, AckIsEarned
  <1>9. CASE RecoveryFailWrite(r)
    <2>1. recovery[r].current \in Deliveries
      BY <1>0, <1>9 DEF RecoveryFailWrite, CurrentOK
    <2>2. \A e \in Deliveries : file[e] # {} => file'[e] # {}
      BY <1>0, <1>9, <2>1, FilesKept DEF RecoveryFailWrite
    <2> QED
      BY <1>1, <1>2, <1>3, <1>9, <2>2 DEF RecoveryFailWrite, AckIsEarned
  <1> QED
    BY <1>4, <1>5, <1>6, <1>7, <1>8, <1>9 DEF RecoveryStep

(***************************************************************************)
(* Every step of a live delivery keeps the invariant.                      *)
(***************************************************************************)
LEMMA LiveStepSafe ==
  ASSUME IInv, NEW d \in Deliveries, LiveStep(d), BestEffort = {}
  PROVE  AckIsEarned' /\ NothingLost'
  <1>0. TypeOK /\ LiveAckIsEarned /\ RecoveryAckIsEarned /\ NothingLost
    BY DEF IInv, AckIsEarned
  <1> USE DEF AckIsEarned, LiveAckIsEarned, RecoveryAckIsEarned, NothingLost
  <1>1. ASSUME NEW o \in Outcomes, Send(d, o)
        PROVE  AckIsEarned' /\ NothingLost'
    <2>1. received \subseteq received'
      BY <1>1, ReceivedGrows DEF Send
    <2>2. live'[d] = "ack" => d \in received'
      <3>1. live'[d] = "ack" => ~o.error
        BY <1>0, <1>1 DEF Send, Goto, TypeOK, Fails
      <3> QED
        BY <1>1, <3>1, ReceivedWithoutError DEF Send
    <2>3. live[d] \notin Unlogged \/ live'[d] \in Unlogged
      BY <1>0, <1>1 DEF Send, Goto, TypeOK, Unlogged
    <2>4. \A e \in Deliveries : e # d => live'[e] = live[e]
      BY <1>0, <1>1 DEF Send, Goto, TypeOK
    <2>5. UNCHANGED <<file, aborted, recovery>>
      BY <1>1 DEF Send
    <2> QED
      BY <1>0, <2>1, <2>2, <2>3, <2>4, <2>5
  <1>2. CASE Abort(d)
    BY <1>0, <1>2 DEF Abort, Goto, Unlogged, TypeOK
  <1>3. CASE AckDelivery(d)
    BY <1>0, <1>3 DEF AckDelivery, Goto, Unlink, Unlogged, TypeOK
  <1>4. CASE FailRead(d) \/ FailWrite(d)
    BY <1>0, <1>4 DEF FailRead, FailWrite, Goto, WriteBack, Unlogged, TypeOK
  <1> QED
    BY <1>1, <1>2, <1>3, <1>4 DEF LiveStep

(***************************************************************************)
(* Every step keeps the invariant.                                         *)
(***************************************************************************)
LEMMA StepIInv == BestEffort = {} /\ IInv /\ [Next]_vars => IInv'
  <1> SUFFICES ASSUME BestEffort = {}, IInv, [Next]_vars
               PROVE  AckIsEarned' /\ NothingLost'
    BY TypeStep DEF IInv
  <1>0. TypeOK /\ LiveAckIsEarned /\ RecoveryAckIsEarned /\ NothingLost
    BY DEF IInv, AckIsEarned
  <1>1. ASSUME NEW d \in Deliveries, NEW written \in BOOLEAN, EnqueueDelivery(d, written)
        PROVE  AckIsEarned' /\ NothingLost'
    BY <1>0, <1>1 DEF EnqueueDelivery, Goto, Unlogged, TypeOK, AckIsEarned, LiveAckIsEarned,
       RecoveryAckIsEarned, NothingLost
  <1>2. ASSUME recovery' = FirstRecovery
        PROVE  RecoveryAckIsEarned'
    BY <1>2, FirstRecoveryType DEF RecoveryAckIsEarned
  <1>3. CASE Crash
    <2>1. \A d \in Deliveries : live'[d] # "ack" /\ (live[d] \in Unlogged => live'[d] \in Unlogged)
      BY <1>3 DEF Crash, Unlogged
    <2> QED
      BY <1>0, <1>2, <1>3, <2>1 DEF Crash, AckIsEarned, LiveAckIsEarned, NothingLost
  <1>4. CASE RestartInProcess
    <2>1. PICK r \in Recoveries : Becomes(r, At("load"))
      BY <1>4 DEF RestartInProcess
    <2>2. At("load").pc = "load" /\ received \subseteq received'
      BY <1>4 DEF At, RestartInProcess
    <2>3. RecoveryAckIsEarned'
      BY <1>0, <2>1, <2>2, BecomesEarned DEF TypeOK
    <2> QED
      BY <1>0, <1>4, <2>3 DEF RestartInProcess, AckIsEarned, LiveAckIsEarned, NothingLost
  <1>5. CASE Restart
    BY <1>0, <1>2, <1>5 DEF Restart, AckIsEarned, LiveAckIsEarned, NothingLost
  <1>6. CASE UNCHANGED vars
    BY <1>0, <1>6 DEF vars, AckIsEarned, LiveAckIsEarned, RecoveryAckIsEarned, NothingLost
  <1> QED
    BY <1>1, <1>3, <1>4, <1>5, <1>6, LiveStepSafe, RecoveryStepSafe DEF Next

(***************************************************************************)
(* The variables of every behaviour have their types.                      *)
(***************************************************************************)
THEOREM TypeCorrect == Spec => []TypeOK
  <1>1. Init => TypeOK /\ CurrentOK
    BY InitIInv DEF IInv
  <1>2. TypeOK /\ CurrentOK /\ [Next]_vars => TypeOK' /\ CurrentOK'
    BY TypeStep
  <1> QED
    BY <1>1, <1>2, PTL DEF Spec

(***************************************************************************)
(* A delivery that deliverOutboundPayloads has written ahead is never      *)
(* lost, if no delivery is best-effort.                                    *)
(***************************************************************************)
THEOREM NeverLost == BestEffort = {} /\ Spec => []NothingLost
  <1> SUFFICES ASSUME BestEffort = {} PROVE Spec => []NothingLost
    OBVIOUS
  <1>1. Init => IInv
    BY InitIInv
  <1>2. IInv /\ [Next]_vars => IInv'
    BY StepIInv
  <1>3. IInv => NothingLost
    BY DEF IInv
  <1> QED
    BY <1>1, <1>2, <1>3, PTL DEF Spec
=============================================================================
