----------------------------- MODULE MCRunStore -----------------------------
(* Two steps, independent or in a chain.                                   *)
EXTENDS RunStore

CONSTANTS a, b

TwoSteps == {a, b}
\* Independent steps, a chain, and a cycle, which validPlan refuses.
SmallPlans == {[s \in TwoSteps |-> {}],
               [s \in TwoSteps |-> IF s = b THEN {a} ELSE {}],
               [s \in TwoSteps |-> TwoSteps \ {s}]}
=============================================================================
