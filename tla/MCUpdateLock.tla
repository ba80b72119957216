---------------------------- MODULE MCUpdateLock ----------------------------
(* Three programs that release the lock without its token, as all but the   *)
(* archive CLI do.  The lock's other checks are in MCAutoUpdate.            *)
EXTENDS UpdateLock

CONSTANTS p1, p2, p3

ThreeProcs == {p1, p2, p3}
NoProc     == {}
=============================================================================
