----------------------------- MODULE MCHistory ------------------------------
(* Small instances of History for TLC.                                     *)
EXTENDS History

CONSTANTS w1, w2, r1, s1, s2, none, torn

MCAdders == {w1, w2}
MCReaders == {r1}
MCSnapshots == {s1, s2}
=============================================================================
