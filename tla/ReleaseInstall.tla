--------------------------- MODULE ReleaseInstall ---------------------------
(***************************************************************************)
(* What an unattended update promises of the tree a machine runs from      *)
(* (shared/archive-update.js, the failure rules of its header): outside a  *)
(* swap the tree does not change; a swap leads to a newer release, changes *)
(* entries of that release only, and is resumed, never rolled back or      *)
(* given up for another; its last step names the release, once the whole   *)
(* of it is in.  ArchiveSwap implements it.                                *)
(***************************************************************************)
EXTENDS Naturals

CONSTANTS
  Releases,   \* numbers, the newer the higher
  Ships,      \* Ships[v]: the entries release v has
  Marker,     \* the entry that names the release the tree is
  None        \* no such entry; no swap

VARIABLES
  tree,       \* tree[e]: the release of entry e
  target      \* the release a swap leads to

Installed == tree[Marker]

Init == target = None /\ \A e \in Ships[Installed] : tree[e] = Installed

Open(v) ==
  /\ target = None /\ v > Installed
  /\ target' = v
  /\ UNCHANGED tree

\* An entry is taken away, put back, or replaced.
Move(e) ==
  /\ target # None /\ e \in Ships[target] \ {Marker}
  /\ \E v \in Releases \cup {None} :
       /\ v # None => v <= target
       /\ tree' = [tree EXCEPT ![e] = v]
  /\ UNCHANGED target

Finish ==
  /\ target # None /\ \A e \in Ships[target] \ {Marker} : tree[e] = target
  /\ tree' = [tree EXCEPT ![Marker] = target]
  /\ target' = None

Next == (\E v \in Releases : Open(v)) \/ (\E v \in Releases : \E e \in Ships[v] : Move(e)) \/ Finish

Spec == Init /\ [][Next]_<<tree, target>>
=============================================================================
