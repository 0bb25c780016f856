------------------------ MODULE MCWorkflowOrchestrator ------------------------
(* Two workflows, one with three steps and one without a template. *)
EXTENDS WorkflowOrchestrator

CONSTANTS w1, w2, s1, s2, s3

MCWorkflows  == {w1, w2}
MCSteps      == {s1, s2, s3}
MCTemplate   == w1 :> <<s1, s2, s3>> @@ w2 :> <<>>
MCFirstOrder == w1 :> 0 @@ w2 :> 0
=============================================================================
