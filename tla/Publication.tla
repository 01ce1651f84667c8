---------------------------- MODULE Publication -----------------------------
(***************************************************************************)
(* What a content server promises about updates, with all machinery left   *)
(* out: there is one persisted export, it can always be loaded again, and  *)
(* whenever nobody is busy updating, exactly that export is served.  Only  *)
(* until the first export has been persisted may the served dimensions be  *)
(* a leftover of failed attempts.                                          *)
(***************************************************************************)
CONSTANTS Dimensions, Exports, Loadable, DimsOf, None

VARIABLES
  world,     \* the persisted export, None before the first one
  served     \* what each dimension is served from, None while that changes

Tree(e) == [d \in Dimensions |-> IF d \in DimsOf[e] THEN e ELSE None]

Init == world = None /\ served = None

(* An update, a restore or a restart begins.                               *)
Begin == served # None /\ served' = None /\ world' = world

(* A new export is persisted, perhaps as the last step of the update.      *)
Publish(e) ==
  /\ served = None
  /\ world' = e
  /\ served' \in {None, Tree(e)}

(* The update is over.                                                     *)
Settle ==
  /\ served = None
  /\ IF world = None
       THEN served' \in [Dimensions -> Exports \cup {None}]
       ELSE served' = Tree(world)
  /\ world' = world

Next == Begin \/ Settle \/ \E e \in Loadable : Publish(e)

Spec == Init /\ [][Next]_<<world, served>>
=============================================================================
