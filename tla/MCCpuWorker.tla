---------------------------- MODULE MCCpuWorker -----------------------------
(* A worker with two requests for TLC: the first is embedded, the second goes *)
(* before it.                                                               *)
EXTENDS CpuWorker

PairPrompts  == << <<1, 2>>, <<1>> >>
PairNew      == <<2, 1>>
PairPriority == <<0, 1>>
=============================================================================
