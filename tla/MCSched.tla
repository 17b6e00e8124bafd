------------------------------- MODULE MCSched -------------------------------
(***************************************************************************)
(* Instances of Sched for TLC.                                             *)
(***************************************************************************)
EXTENDS Sched

\* Two jobs on two hosts: each its own host, a choice that falls to the first
\* match, and a job no host can run.
PairMatch == {<<{1}, {2}>>, <<{1, 2}, {1}>>, <<{2}, {}>>}

\* Three jobs on two hosts: two of them share a host, or no host can run one,
\* or no host can run any.
SharedMatch == {<<{1}, {1, 2}, {2}>>, <<{2}, {1}, {}>>, <<{}, {}, {}>>}

\* One job per host, so that the runners array has to grow.
OneEach == {[t \in Task |-> {t}]}

\* A job forced again with the marks of a clean or of a broken run.
Reopened(h, bad) ==
    [host |-> h, tests |-> TRUE,
     step |-> [s \in Step |-> [seconds |-> -1, failed |-> bad, errors |-> bad]]]

FreshJobs == {job \in PendingJob : job.host = NoHost}

\* Three representatives: one never run, one never run without tests, and one
\* forced again on host 1 after a broken run.
SomeJobs == FreshJobs \cup {Reopened(1, TRUE)}

PlainJob == {job \in FreshJobs : ~job.tests}

\* Events shorter than the clock's second.
Instant == {0}

-----------------------------------------------------------------------------
(* Sched implements JobPool: a task belongs to the host of its runner.     *)

WorkerOf(t) ==
    IF tstate[t] = "PENDING" THEN NoHost ELSE runners[trunner[t].slot]

\* The host of a task as sched_start sees it on entry.
Allowed(t) == CHOOSE h \in Host \cup {NoHost} : HostFor(t, report0[t].host, h)

Pool == INSTANCE JobPool WITH
    Job    <- Task,
    Worker <- Host,
    Nobody <- NoHost,
    may    <- [t \in Task |-> Allowed(t)],
    state  <- tstate,
    worker <- [t \in Task |-> WorkerOf(t)],
    open   <- mpc # "returned"

\* sched_start keeps the promise of JobPool.
ImplementsJobPool == Pool!PoolSpec
==============================================================================
