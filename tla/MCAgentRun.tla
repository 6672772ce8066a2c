----------------------------- MODULE MCAgentRun -----------------------------
(* Small runs of AgentRun: one step, or two in a chain.                    *)
EXTENDS AgentRun, TLC

CONSTANTS a, b, w1, w2, o

OneStep == {a}
TwoSteps == {a, b}
OnePlan == {[s \in {a} |-> {}]}
ChainPlan == {[s \in {a, b} |-> IF s = b THEN {a} ELSE {}]}
OneOwner == [w \in {w1, w2} |-> o]
SoloOwner == [w \in {w1} |-> o]
WorkerSymmetry == Permutations({w1, w2})
=============================================================================
