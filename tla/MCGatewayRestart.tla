-------------------------- MODULE MCGatewayRestart --------------------------
(***************************************************************************)
(* Two turns of a session, the first of which enqueues work in the main    *)
(* lane, and a command of the main lane beside it.                         *)
(***************************************************************************)
EXTENDS GatewayRestart

CONSTANTS main, session, turn1, work1, turn2, command

MCLaneOf == [c \in Commands |-> IF c \in {turn1, turn2} THEN session ELSE main]
MCOuter == [c \in Commands |-> IF c = work1 THEN turn1 ELSE NoCommand]
=============================================================================
