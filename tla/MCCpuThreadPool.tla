--------------------------- MODULE MCCpuThreadPool ---------------------------
(* Calls that are shared (in chunks of 1 and of 2), not worth sharing and     *)
(* empty; a grain of 0 is taken as 1.                                         *)
EXTENDS CpuThreadPool

CallsOfAllKinds ==
    << [begin |-> 0, end |-> 3, grain |-> 2],
       [begin |-> 1, end |-> 2, grain |-> 1],
       [begin |-> 1, end |-> 3, grain |-> 0],
       [begin |-> 2, end |-> 2, grain |-> 1],
       [begin |-> 0, end |-> 2, grain |-> 1] >>
=============================================================================
