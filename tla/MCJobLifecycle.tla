--------------------------- MODULE MCJobLifecycle ---------------------------
(* JobLifecycle on small instances: three messages, or two for a batch job,  *)
(* whose executions are long.                                                *)
EXTENDS JobLifecycle
CONSTANTS t1, t2, t3
MCSendable == [k \in Kinds |-> IF k = "batch" THEN {t1, t2} ELSE Tasks]
=============================================================================
