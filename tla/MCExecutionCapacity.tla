------------------------ MODULE MCExecutionCapacity ------------------------
(* Small tenants: limits that differ, so that the tenant and the run refuse *)
(* and a deployment would raise them.                                       *)
EXTENDS ExecutionCapacity

TwoPolicies == {[tenant |-> 1, run |-> 1], [tenant |-> 2, run |-> 1]}
=============================================================================
