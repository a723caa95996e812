------------------------------ MODULE MCSlotBatch ------------------------------
(* Instances of SlotBatch for TLC.                                          *)
EXTENDS SlotBatch

CONSTANTS a, b

MCPrompts == {<<a, b, a>>, <<b, a, b, b>>, <<a, b, a, b, a, b>>}

Scenario(kinds, faults) == [kinds |-> kinds, faults |-> faults]

MCScenarios == { Scenario({"single"}, {"full", "fatal"}), Scenario({"single", "parent"}, {"fatal"}),
                 Scenario({"parent"}, {"throw"}) }
=============================================================================
