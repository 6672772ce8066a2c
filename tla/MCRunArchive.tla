---------------------------- MODULE MCRunArchive ----------------------------
(* Two scanners, one run with two deliveries, and a clock that reaches the *)
(* end of the hot retention.                                               *)
EXTENDS RunArchive
=============================================================================
