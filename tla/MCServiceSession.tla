-------------------------- MODULE MCServiceSession --------------------------
(* Two invocations, of one session or of two.                              *)
EXTENDS ServiceSession

CONSTANTS s1, s2, i1, i2

SharedOrApart == {[i \in {i1, i2} |-> s1], [i \in {i1, i2} |-> IF i = i1 THEN s1 ELSE s2]}
=============================================================================
