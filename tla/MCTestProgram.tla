---------------------------- MODULE MCTestProgram ----------------------------
(***************************************************************************)
(* testpp and the C sample, for TLC.                                       *)
(***************************************************************************)
EXTENDS TestProgram

AllNames == UNION {DOMAIN Programs[m] : m \in 0..2} \cup {"nosuch"}
AllRequests ==
  {[to |-> s.to, seq |-> s.seq] : s \in {r \in ToSet(TestMain \o SampleMain) :
                                           r.do \in {"sync", "async"}}}
=============================================================================
