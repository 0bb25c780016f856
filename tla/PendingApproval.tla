---------------------------- MODULE PendingApproval ----------------------------
(***************************************************************************)
(* PendingApprovalManager of bridge/pkg/secretary/pending_approval.go: the *)
(* calls of RequestApproval that wait for a user's answer, and the calls   *)
(* of HandleResponse that bring one.                                       *)
(*                                                                         *)
(* The map of pending approvals is guarded by m.mu, but a response looks   *)
(* its channel up under the lock and sends on it afterwards, and a request *)
(* removes its entry only after it has decided.  A response names a step   *)
(* and nothing else.                                                       *)
(*                                                                         *)
(* One manager serves all executions and files a request under the ID of   *)
(* its step in the template: two workflows of one template, or two runs of *)
(* one workflow, ask for the same step, at once or one after the other.    *)
(* StepOf is therefore any function.                                       *)
(*                                                                         *)
(* Abstracted away: the fields asked for, the event and the push message   *)
(* that carry a request, and the length of the timeout.                    *)
(***************************************************************************)
EXTENDS Integers, FiniteSets

CONSTANTS
  Requests,     \* calls of RequestApproval
  Steps,        \* step IDs
  StepOf,       \* StepOf[r]: the step r asks for
  Responses,    \* bound: answers that users send
  None          \* no entry

ASSUME StepOfAssumption == StepOf \in [Requests -> Steps]

ASSUME NoneAssumption == None \notin Requests

ASSUME ResponsesAssumption == Responses \in Nat

VARIABLES
  at,         \* where each call of RequestApproval is
  result,     \* what its select chose
  pending,    \* m.pending: the request whose channel is registered
  channel,    \* each responseCh, of capacity one
  messages,   \* responses on their way: pii_response events
  sends,      \* calls of HandleResponse between the lookup and the send
  answers,    \* history: what users have answered to each request
  open        \* history: the calls for its step in progress when it began

approvalVars == <<at, result, pending, channel, messages, sends, answers, open>>

Answer == {"approved", "denied"}

(* about is the request the user was looking at.  The event does not carry *)
(* it: the code sees StepOf[about] only.                                   *)
Message == [about : Requests, answer : Answer]

Send == [to : Requests, answer : Answer, about : Requests]

ApprovalTypeOK ==
  /\ at \in [Requests -> {"idle", "registered", "waiting", "decided", "returned"}]
  /\ result \in [Requests -> Answer \cup {"none", "timedOut", "cancelled"}]
  /\ pending \in [Steps -> Requests \cup {None}]
  /\ channel \in [Requests -> Answer \cup {"empty"}]
  /\ messages \subseteq Message
  /\ sends \subseteq Send
  /\ answers \in [Requests -> SUBSET Answer]
  /\ open \in [Requests -> SUBSET Requests]

ApprovalInit ==
  /\ at = [r \in Requests |-> "idle"]
  /\ result = [r \in Requests |-> "none"]
  /\ pending = [s \in Steps |-> None]
  /\ channel = [r \in Requests |-> "empty"]
  /\ messages = {}
  /\ sends = {}
  /\ answers = [r \in Requests |-> {}]
  /\ open = [r \in Requests |-> {}]

-----------------------------------------------------------------------------
(* RequestApproval *)

InProgress(r) == at[r] \in {"registered", "waiting", "decided"}

(* An entry that is there already is overwritten. *)
Register(r) ==
  /\ at[r] = "idle"
  /\ at' = [at EXCEPT ![r] = "registered"]
  /\ pending' = [pending EXCEPT ![StepOf[r]] = r]
  /\ open' = [open EXCEPT ![r] = {q \in Requests : StepOf[q] = StepOf[r] /\ InProgress(q)}]
  /\ UNCHANGED <<result, channel, messages, sends, answers>>

Publish(r) ==
  /\ at[r] = "registered"
  /\ at' = [at EXCEPT ![r] = "waiting"]
  /\ UNCHANGED <<result, pending, channel, messages, sends, answers, open>>

Decide(r, outcome) ==
  /\ at[r] = "waiting"
  /\ at' = [at EXCEPT ![r] = "decided"]
  /\ result' = [result EXCEPT ![r] = outcome]

Receive(r) ==
  /\ channel[r] # "empty"
  /\ Decide(r, channel[r])
  /\ channel' = [channel EXCEPT ![r] = "empty"]
  /\ UNCHANGED <<pending, messages, sends, answers, open>>

(* Mutant: the select has neither a timer nor the context. *)
GiveUpNever(r, reason) == FALSE

(* The timer has fired, or the context was cancelled.  An answer that is   *)
(* ready too may lose: the select chooses.                                 *)
GiveUp(r, reason) ==
  /\ Decide(r, reason)
  /\ UNCHANGED <<pending, channel, messages, sends, answers, open>>

(* The deferred deletion: whatever is registered under the step goes. *)
Cleanup(r) ==
  /\ at[r] = "decided"
  /\ at' = [at EXCEPT ![r] = "returned"]
  /\ pending' = [pending EXCEPT ![StepOf[r]] = None]
  /\ UNCHANGED <<result, channel, messages, sends, answers, open>>

-----------------------------------------------------------------------------
Given == {m \in Message : m.answer \in answers[m.about]}

(* A user answers a request that was published, at any time after.  Bound: *)
(* each answer to a request is sent once, and Responses in all.            *)
Respond(r, answer) ==
  /\ at[r] \notin {"idle", "registered"}
  /\ answer \notin answers[r] /\ Cardinality(Given) < Responses
  /\ messages' = messages \cup {[about |-> r, answer |-> answer]}
  /\ answers' = [answers EXCEPT ![r] = @ \cup {answer}]
  /\ UNCHANGED <<at, result, pending, channel, sends, open>>

(* Mutant: a response goes to whichever request is pending. *)
HandleResponseAnyStep(m) ==
  /\ m \in messages
  /\ messages' = messages \ {m}
  /\ sends' = sends \cup {[to |-> r, answer |-> m.answer, about |-> m.about] :
                            r \in {pending[s] : s \in Steps} \ {None}}
  /\ UNCHANGED <<at, result, pending, channel, answers, open>>

(* Mutant: the entry is deleted when it is looked up. *)
HandleResponseDeletes(m) ==
  LET s == StepOf[m.about] IN
  /\ m \in messages
  /\ messages' = messages \ {m}
  /\ sends' = IF pending[s] = None THEN sends
              ELSE sends \cup {[to |-> pending[s], answer |-> m.answer, about |-> m.about]}
  /\ pending' = [pending EXCEPT ![s] = None]
  /\ UNCHANGED <<at, result, channel, answers, open>>

(* HandleResponse, up to the unlock; without an entry the response is lost. *)
HandleResponse(m) ==
  LET ch == pending[StepOf[m.about]] IN
  /\ m \in messages
  /\ messages' = messages \ {m}
  /\ sends' = IF ch = None THEN sends
              ELSE sends \cup {[to |-> ch, answer |-> m.answer, about |-> m.about]}
  /\ UNCHANGED <<at, result, pending, channel, answers, open>>

(* The send does not block: an answer for a full channel is discarded. *)
SendAnswer(d) ==
  /\ d \in sends
  /\ sends' = sends \ {d}
  /\ channel' = IF channel[d.to] = "empty" THEN [channel EXCEPT ![d.to] = d.answer] ELSE channel
  /\ UNCHANGED <<at, result, pending, messages, answers, open>>

Waits(r) ==
  \/ Publish(r)
  \/ Receive(r)
  \/ \E reason \in {"timedOut", "cancelled"} : GiveUp(r, reason)
  \/ Cleanup(r)

ApprovalNext ==
  \/ \E r \in Requests :
       \/ Register(r)
       \/ Waits(r)
       \/ \E answer \in Answer : Respond(r, answer)
  \/ \E m \in messages : HandleResponse(m)
  \/ \E d \in sends : SendAnswer(d)

(* A call of RequestApproval is scheduled and its timer fires. *)
ApprovalSpec ==
  /\ ApprovalInit /\ [][ApprovalNext]_approvalVars
  /\ \A r \in Requests : WF_approvalVars(Waits(r))

-----------------------------------------------------------------------------
(* A request is granted, or refused, only by an answer that a user gave to *)
(* it or to a call for the same step that had begun before it: neither     *)
(* late answers, nor several in flight, let the answer to another step     *)
(* decide it, nor the answer to a call that came later and took its place  *)
(* in the map.  More does not hold: an answer to an earlier call for the   *)
(* step decides the later one.                                             *)
ResultIsTheAnswer ==
  \A r \in Requests : result[r] \in Answer =>
    \E q \in Requests :
      StepOf[q] = StepOf[r] /\ r \notin open[q] /\ result[r] \in answers[q]

(* A request that waits can be found, unless another call for its step     *)
(* meddled: one that began while it was in progress and took its place, or *)
(* one that was in progress when it began and has since deleted the entry. *)
(* Calls for the step that were over by then do no harm.                   *)
WaitingIsPending ==
  \A r \in Requests : at[r] \in {"registered", "waiting"} /\ pending[StepOf[r]] # r =>
    \E q \in Requests : r \in open[q] \/ (q \in open[r] /\ at[q] = "returned")

(* No entry is left behind: when a call has returned, its channel is not   *)
(* in the map.                                                             *)
ReturnedIsForgotten ==
  \A r \in Requests : at[r] = "returned" => pending[StepOf[r]] # r

(* Every request is decided and returns, answered or not. *)
RequestReturns ==
  \A r \in Requests : at[r] # "idle" ~> at[r] = "returned"
=============================================================================
