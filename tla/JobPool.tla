------------------------------- MODULE JobPool -------------------------------
(***************************************************************************)
(* What sched_start promises to its caller: a pool of pending jobs.  A     *)
(* host takes one job at a time, a job is taken at most once and only by a *)
(* host that may run it, and a taken job is completed before the pool      *)
(* closes.  Sched implements this module.                                  *)
(***************************************************************************)
CONSTANTS
    Job,        \* the jobs of the pool
    Worker,     \* the hosts
    Nobody      \* the worker of a job nobody has taken; not in Worker

VARIABLES
    may,        \* the worker allowed to take each job, or Nobody
    state,      \* PENDING, RUNNING or DONE
    worker,     \* the worker that took each job
    open        \* the pool still accepts work

pool == <<may, state, worker, open>>

PoolInit ==
    /\ may \in [Job -> Worker \cup {Nobody}]
    /\ state = [j \in Job |-> "PENDING"]
    /\ worker = [j \in Job |-> Nobody]
    /\ open = TRUE

Busy(w) == \E j \in Job : worker[j] = w /\ state[j] = "RUNNING"

Take(w, j) ==
    /\ open
    /\ state[j] = "PENDING"
    /\ may[j] = w
    /\ ~Busy(w)
    /\ state' = [state EXCEPT ![j] = "RUNNING"]
    /\ worker' = [worker EXCEPT ![j] = w]
    /\ UNCHANGED <<may, open>>

Complete(j) ==
    /\ open
    /\ state[j] = "RUNNING"
    /\ state' = [state EXCEPT ![j] = "DONE"]
    /\ UNCHANGED <<may, worker, open>>

Close ==
    /\ open
    /\ \A j \in Job : state[j] # "RUNNING"
    /\ open' = FALSE
    /\ UNCHANGED <<may, state, worker>>

PoolNext ==
    \/ \E w \in Worker, j \in Job : Take(w, j)
    \/ \E j \in Job : Complete(j)
    \/ Close

PoolSpec == PoolInit /\ [][PoolNext]_pool
==============================================================================
