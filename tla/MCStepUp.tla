------------------------------ MODULE MCStepUp ------------------------------
(* Instances of StepUp for TLC: a unit with and one without throttling, two *)
(* message sizes; the second kind starts higher and is raised by more.      *)
EXTENDS StepUp

OneAndEleven == <<1, 11>>
TwoSizes     == <<0, 2048>>
StartAt      == [k \in Kinds |-> IF k = "echo" THEN 1 ELSE 2]
RaiseBy      == [k \in Kinds |-> IF k = "echo" THEN 1 ELSE 2]
=============================================================================
