------------------------- MODULE MCQueryExecution -------------------------
(* QueryExecution instantiated for TLC: three statement types whose      *)
(* timeouts differ, so that a type-keyed limit is exercised, and a clock *)
(* that saturates two intervals past the longest limit.                  *)
EXTENDS QueryExecution

MCStmtTypes == {"DDL", "DML", "UTILITY"}

MCTimeoutLimit == [t \in MCStmtTypes |-> IF t = "DDL" THEN 2 ELSE 1]

MCMaxElapsed == 4

=============================================================================
