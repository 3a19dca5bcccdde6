--------------------------- MODULE ExecutionLease ---------------------------
(* What the job platform promises about the executions of one job: a queue   *)
(* message is consumed at most once, and no two messages of the same job are *)
(* executed at the same time.  JobLifecycle is checked to implement this.    *)
CONSTANTS Tasks, NoTask

VARIABLES holder,  \* the task that is executing the job, or NoTask
          spent    \* messages consumed so far

vars == <<holder, spent>>

Init == holder = NoTask /\ spent = {}

(* A worker starts executing a message while nobody executes the job. *)
Acquire(t) ==
    /\ holder = NoTask
    /\ t \notin spent
    /\ holder' = t
    /\ spent' = spent \cup {t}

(* The execution returns, fails, is killed or crashes. *)
Release ==
    /\ holder # NoTask
    /\ holder' = NoTask
    /\ UNCHANGED spent

(* A revoked message is thrown away unexecuted. *)
Discard(t) ==
    /\ t \notin spent
    /\ spent' = spent \cup {t}
    /\ UNCHANGED holder

Next == Release \/ \E t \in Tasks : Acquire(t) \/ Discard(t)

Spec == Init /\ [][Next]_vars
=============================================================================
