-------------------------- MODULE MCPendingApproval --------------------------
(* Three requests: two for one step, as two workflows of one template make  *)
(* them, and one for another.                                               *)
EXTENDS PendingApproval, TLC

CONSTANTS r1, r2, r3, s1, s2

SharedStep == r1 :> s1 @@ r2 :> s1 @@ r3 :> s2
=============================================================================
