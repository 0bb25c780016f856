---------------------------- MODULE MCCronService ----------------------------
(***************************************************************************)
(* A one-shot that is due at time 1 and a job that fires at every time.    *)
(***************************************************************************)
EXTENDS CronService

OneShotAt == [j \in {1} |-> 1]
OneBackoff == <<1>>
=============================================================================
