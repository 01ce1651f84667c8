------------------------------ MODULE MCServing -----------------------------
(* Small instances of Serving for TLC.                                     *)
EXTENDS Serving

CONSTANTS
  starter, updater, dimr, poller,        \* goroutines
  a, b,                                  \* dimensions
  both, onlyA, onlyB, faulty, broken,    \* exports
  nil

MCDimensions == {a, b}

(* both has the page in a dimension and an alias of the root in the other, *)
(* onlyA and onlyB drop one, faulty has a dimension that is refused,       *)
(* broken does not parse.                                                  *)
AllExports == {both, onlyA, onlyB, faulty, broken}
SomeExports == {both, onlyA, faulty, broken}

MCDimsOf ==
  [e \in Exports |-> CASE e = onlyA -> {a} [] e = onlyB -> {b} [] e = broken -> {}
                      [] OTHER -> {a, b}]
MCFaultyIn == [e \in Exports |-> IF e = faulty THEN {b} ELSE {}]
MCMalformed == Exports \cap {broken}
MCHasPage ==
  [e \in Exports |-> CASE e = onlyB -> {b} [] e = both -> {a, b} [] e = faulty -> {b} [] OTHER -> {}]
MCHasRoot == MCDimsOf
MCIsAlias == [e \in Exports |-> {b} \cap MCDimsOf[e]]
MCAsked == {<<a, b>>, <<b>>}
NoExports == {}

Crashes == {"crash"}
NoEvents == {}
=============================================================================
