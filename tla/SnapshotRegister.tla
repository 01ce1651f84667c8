-------------------------- MODULE SnapshotRegister --------------------------
(* What the rest of the server relies on: the current snapshot is a        *)
(* register.  A write that is interrupted damages it, and whoever reads it *)
(* then sees the damage, but nobody sees anything that was never written.  *)
CONSTANTS Readers, Snapshots, None, Torn

VARIABLES value, got

Init == value = None /\ got = [r \in Readers |-> None]

Write(e) == value' = e /\ got' = got
Damage == value' = Torn /\ got' = got
Read(r) == got' = [got EXCEPT ![r] = value] /\ value' = value

(* The process is started again, perhaps in the middle of a write.         *)
Restart == value' \in {value, Torn} /\ got' = [r \in Readers |-> None]

Next == (\E e \in Snapshots : Write(e)) \/ Damage \/ (\E r \in Readers : Read(r)) \/ Restart

Spec == Init /\ [][Next]_<<value, got>>
=============================================================================
