------------------------- MODULE MCDependencyValidator -------------------------
(* Every template of up to three steps over three IDs, and every successor   *)
(* function over four well-formed steps.                                     *)
EXTENDS DependencyValidator

CONSTANTS a, b, c, d

MaxSteps == 3

MCStepIDs == {a, b, c, d}

AnyStep == [id : {a, b, c, NoStep}, next : {a, b, c, NoStep}, member : BOOLEAN]

Four == <<a, b, c, d>>

MCTemplates ==
  UNION {[1..n -> AnyStep] : n \in 0..MaxSteps}
    \cup {[i \in 1..4 |-> [id |-> Four[i], next |-> next[i], member |-> FALSE]] :
             next \in [1..4 -> MCStepIDs \cup {NoStep}]}
=============================================================================
