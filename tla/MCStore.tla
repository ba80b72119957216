------------------------------ MODULE MCStore ------------------------------
(***************************************************************************)
(* The memory store with requests one at a time, and the lessons of        *)
(* sessions that become memories with requests that overlap.  A behaviour  *)
(* runs one of the two, as in MCMachine.                                   *)
(***************************************************************************)
EXTENDS MCMemory, SessionLessons

CONSTANTS l1, l2

VARIABLE part

MCLessons == {l1, l2}
MCAlike == {<<l1, l2>>}

KeptInit == part \in {"memories", "lessons"} /\ Init /\ LessonsInit

KeptNext ==
  /\ UNCHANGED part
  /\ IF part = "memories" THEN Next ELSE UNCHANGED vars
  /\ IF part = "lessons" THEN LessonsNext ELSE UNCHANGED lessonVars

KeptSpec == KeptInit /\ [][KeptNext]_<<vars, lessonVars, part>>
=============================================================================
