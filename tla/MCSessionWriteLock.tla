------------------------- MODULE MCSessionWriteLock -------------------------
(***************************************************************************)
(* Three callers in one process, one of them under the lock of another     *)
(* when they allow it, and one in another process.                         *)
(***************************************************************************)
EXTENDS SessionWriteLock, TLC

CONSTANTS p1, p2, c1, c2, c3, c4

MCProc   == c1 :> p1 @@ c2 :> p1 @@ c3 :> p2 @@ c4 :> p1
MCParent == c1 :> None @@ c2 :> None @@ c3 :> None @@ c4 :> c1
=============================================================================
