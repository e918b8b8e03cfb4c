---------------------------- MODULE MCFinalizeRun ----------------------------
(* Instances of FinalizeRun for TLC. *)
EXTENDS FinalizeRun

CONSTANTS a, b, x

ScopeAB == <<a, b>>
ChildFirst == {<<a, b>>}
ParentFirst == {<<b, a>>}
Cycle == {<<a, b>>, <<b, a>>}

Mixed == [t \in Tables |-> IF t = a THEN Aspects ELSE {"indexes"}]
Little == [t \in Tables |-> {"columns"}]
=============================================================================
