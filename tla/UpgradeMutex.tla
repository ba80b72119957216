---------------------------- MODULE UpgradeMutex ----------------------------
(***************************************************************************)
(* What the update lock promises (shared/update-lock.js, the header): the  *)
(* programs that upgrade ~/.ownmind do it one at a time.  UpdateLock       *)
(* implements it; AutoUpdate uses it for the lock it takes.                *)
(***************************************************************************)
CONSTANT Procs

VARIABLE holders    \* the programs that hold the lock and may upgrade

Init == holders = {}

Enter(p) == holders = {} /\ holders' = {p}

\* By release, by leaving the lock behind, or by being killed.
Exit(p) == p \in holders /\ holders' = holders \ {p}

Next == \E p \in Procs : Enter(p) \/ Exit(p)

Spec == Init /\ [][Next]_holders
=============================================================================
