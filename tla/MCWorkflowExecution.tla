------------------------- MODULE MCWorkflowExecution -------------------------
(* A workflow of two chained steps, and one of a single step, which in some  *)
(* runs has no agent or is its own successor.                               *)
EXTENDS WorkflowExecution, TLC

CONSTANTS w1, w2, s1, s2, s3

MCTemplate   == [w \in Workflows |-> IF w = w1 THEN <<s1, s2>> ELSE <<s3>>]
MCFirstOrder == [w \in Workflows |-> 0]
Chained      == w1 :> (s1 :> s2 @@ s2 :> NoStep) @@ w2 :> (s3 :> NoStep)
Looping      == w1 :> (s1 :> s2 @@ s2 :> NoStep) @@ w2 :> (s3 :> s3)
OneAgent     == s1 :> 1 @@ s2 :> 1 @@ s3 :> 0
TwoAgents    == s1 :> 2 @@ s2 :> 1 @@ s3 :> 0
=============================================================================
