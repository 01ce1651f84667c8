------------------------------- MODULE MCRepo -------------------------------
(* Small instances of Repo for TLC, and the properties its runs check.     *)
EXTENDS Repo, FiniteSets

CONSTANTS
  starter, other, third, updater, dimr, poller,   \* goroutines
  a, b,                                           \* dimensions
  both, onlyA, onlyB, faulty, broken,             \* exports
  nil

MCDimensions == {a, b}

(* both replaces every dimension, onlyA and onlyB drop one, in faulty one  *)
(* is refused, broken does not parse.                                      *)
AllExports == {both, onlyA, onlyB, faulty, broken}
BadOnes == {both, faulty, broken}
SomeExports == {both, onlyA, faulty, broken}
GoodAndFaulty == {both, faulty}

MCDimsOf ==
  [e \in Exports |-> CASE e = onlyA -> {a} [] e = onlyB -> {b} [] e = broken -> {}
                      [] OTHER -> {a, b}]
MCFaultyIn == [e \in Exports |-> IF e = faulty THEN {b} ELSE {}]
MCMalformed == Exports \cap {broken}

NoEvents == {}
Crashes == {"crash"}
Faults == {"unreadable", "refused", "torn", "crash", "empty"}
Shutdown == {"shutdown"}
=============================================================================
