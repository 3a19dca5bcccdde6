------------------------- MODULE JobLifecycleClaims -------------------------
(* What comments and documents of the repository say of a job's life, stated *)
(* over JobLifecycle.  Each of these is refuted by a run of its own: the     *)
(* README tells which line says it and what the counterexample shows.        *)
EXTENDS MCJobLifecycle

(* Recovery resumes "unfinished jobs without an active worker" only: no      *)
(* worker executes the job when a second message is sent for it.             *)
ResumesIdleJobs == [][(\E t \in Tasks : Redispatch(t)) => Running = {}]_vars
=============================================================================
