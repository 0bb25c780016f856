-------------------------- MODULE MCDeliveryQueue --------------------------
(***************************************************************************)
(* BACKOFF_MS in units of 5 s: 5 s, 25 s, 2 min and 10 min.                *)
(***************************************************************************)
EXTENDS DeliveryQueue

MCBackoff == <<1, 5, 24, 120>>
=============================================================================
