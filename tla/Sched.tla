-------------------------------- MODULE Sched --------------------------------
(***************************************************************************)
(* The scheduler of nbuild (src/nbuild/sched.c) together with the part of  *)
(* the report (src/nbuild/report.c) that its runner threads write.         *)
(*                                                                         *)
(* sched_start turns every selected job into a task, gives the task a      *)
(* runner (one per host, kept in a growable array), copies the packages to *)
(* the master, starts one thread per runner and waits for all of them.     *)
(* Each thread boots its host and then takes pending tasks of its own      *)
(* until none is left, recording a "build" and a "test" step per job.      *)
(*                                                                         *)
(* Tasks, hosts and runner slots are numbered from 1, in array order.  The *)
(* critical sections of the scheduler's mutex are single actions: every    *)
(* access to task->state happens inside one of them.                       *)
(***************************************************************************)
EXTENDS Integers, Sequences

CONSTANTS
    NTasks,        \* number of selected jobs (one task per job)
    NHosts,        \* number of hosts the workflow can use
    MinArray,      \* i_MINIMUN_ARRAY_SIZE, the first capacity of an array
    MatchChoices,  \* which hosts can run each job: a set of [Task -> SUBSET Host]
    JobChoices,    \* the report records a selected job may start from
    Elapsed        \* the wall clock differences, in seconds, an event can measure

Task     == 1..NTasks
Host     == 1..NHosts
Slot     == 1..NHosts      \* slots of the runners array; hosts are unique in it
NoHost   == 0              \* NULL, and the empty host name of a report job
Removed  == NHosts + 1     \* a host name of the report the workflow no longer has
HostName == 0..(NHosts + 1)
Step     == {"build", "test"}

ASSUME SchedAssumption ==
    /\ NTasks \in Nat \ {0}
    /\ NHosts \in Nat \ {0}
    /\ MinArray \in Nat \ {0}
    /\ MatchChoices \subseteq [Task -> SUBSET Host]
    /\ MatchChoices # {}
    /\ JobChoices # {}
    /\ Elapsed \subseteq Int

VARIABLES
    matches,    \* the hosts whose platform and generators fit each job
    withTests,  \* some entry of 'tests' has an executable
    report,     \* the RJob of each selected job
    report0,    \* history: 'report' when sched_start was called
    tstate,     \* task->state
    trunner,    \* task->runner: an address inside the runners array
    runners,    \* the host of every slot of the runners array
    nallocs,    \* capacity of the runners array
    block,      \* memory block that holds the runners array
    packages,   \* packages present in the temporary directory of the master
    mpc,        \* program counter of sched_start
    next,       \* loop index of sched_start
    pc,         \* program counter of the thread of each slot
    cur,        \* the task a thread is working on, 0 for none
    phase,      \* the step a thread is working on
    outcome,    \* what host_run_build or host_run_test returned to the thread
    verdict     \* history: how the build of each task ended in this call

report_vars  == <<report, report0>>
task_vars    == <<tstate, trunner>>
array_vars   == <<runners, nallocs, block>>
main_vars    == <<matches, withTests, packages, mpc, next>>
thread_vars  == <<pc, cur, phase, outcome, verdict>>
vars         == <<report_vars, task_vars, array_vars, main_vars, thread_vars>>

-----------------------------------------------------------------------------
(* The records of the report.                                              *)

\* REvent.seconds with its error message and the error count of the step.
StepRecord == [seconds : Int, failed : BOOLEAN, errors : BOOLEAN]
JobRecord  == [host : HostName, tests : BOOLEAN, step : [Step -> StepRecord]]
Outcome    == [failed : BOOLEAN, errors : BOOLEAN]

IsDone(ev) == ev.seconds > 0

\* A job record before its first run: dbind leaves the event at zero seconds.
FreshStep == [seconds |-> 0, failed |-> FALSE, errors |-> FALSE]

\* A step whose event was opened again by report_force_jobs: the message and
\* the counters of the earlier run stay until the step is recorded again.
ReopenedStep == [seconds : {-1}, failed : BOOLEAN, errors : BOOLEAN]

\* The record of a job report_select_jobs or report_force_jobs has selected.
PendingJob ==
    [host : {NoHost}, tests : BOOLEAN, step : {[s \in Step |-> FreshStep]}]
    \cup
    [host : HostName \ {NoHost}, tests : BOOLEAN, step : [Step -> ReopenedStep]]

ASSUME JobChoicesAssumption == JobChoices \subseteq PendingJob

\* Mutant of CanTest: only the error count of the build is looked at.
CanTestAfterFailure(job) ==
    /\ job.tests
    /\ ~IsDone(job.step["test"])
    /\ ~job.step["build"].errors

\* report_job_can_test: two steps, the test not done, the build done and clean.
CanTest(job) ==
    /\ job.tests
    /\ ~IsDone(job.step["test"])
    /\ IsDone(job.step["build"])
    /\ ~job.step["build"].failed
    /\ ~job.step["build"].errors

\* A job record with another content for one of its steps, or another host.
WithStep(job, st, ev) ==
    [host |-> job.host, tests |-> job.tests, step |-> [job.step EXCEPT ![st] = ev]]
WithHost(job, h) == [host |-> h, tests |-> job.tests, step |-> job.step]

\* report_job_init (i_event_init): the event opens, its old message stays.
OpenEvent(job, st) ==
    WithStep(job, st, [seconds |-> -1,
                       failed  |-> job.step[st].failed,
                       errors  |-> job.step[st].errors])

\* report_job_end (i_event_end): the elapsed time and the error message.
CloseEvent(job, st, seconds, failed) ==
    WithStep(job, st, [seconds |-> seconds, failed |-> failed, errors |-> job.step[st].errors])

\* report_job: the host name and the error count.
RecordResult(job, st, h, errors) ==
    WithHost(WithStep(job, st, [seconds |-> job.step[st].seconds,
                                failed  |-> job.step[st].failed,
                                errors  |-> errors]), h)

\* Mutant of Seconds: an event of less than a second keeps its zero.
SecondsRaw(elapsed) == elapsed

\* i_event_end: an event that lasted less than a second counts as one.
Seconds(elapsed) == IF elapsed = 0 THEN 1 ELSE elapsed

-----------------------------------------------------------------------------
(* Hosts, runners and tasks.                                               *)

\* host_match_job: the first host, in the order of the list, that fits the job.
FirstMatch(t, h) == h \in matches[t] /\ \A g \in matches[t] : h <= g

\* Mutant of HostFor: the host of an earlier loop is forgotten.
HostForAnew(t, name, h) == IF matches[t] = {} THEN h = NoHost ELSE FirstMatch(t, h)

\* The host of a task whose job the report names a host for (host_by_name), or
\* names none for (host_match_job); NoHost when there is no such host.
HostFor(t, name, h) ==
    IF name # NoHost THEN h = (IF name \in Host THEN name ELSE NoHost)
    ELSE IF matches[t] = {} THEN h = NoHost
    ELSE FirstMatch(t, h)

\* Mutant of Capacity: the array grows, and may move, with every element.
CapacityTight == nallocs + 1

Address    == [block : Nat, slot : Nat]
Null       == [block |-> 0, slot |-> 0]
Addr(s)    == [block |-> block, slot |-> s]
Capacity   == IF Len(runners) = nallocs THEN 2 * nallocs ELSE nallocs

\* i_add_runner on a host that has a runner already.
ReuseRunner(t, s) ==
    /\ trunner' = [trunner EXCEPT ![t] = Addr(s)]
    /\ UNCHANGED array_vars

\* i_add_runner on a new host: arrst_new0 may move the array to a new block.
NewRunner(t, h) ==
    /\ runners' = Append(runners, h)
    /\ nallocs' = Capacity
    /\ block' = IF Capacity > nallocs THEN block + 1 ELSE block
    /\ trunner' = [trunner EXCEPT ![t] = [block |-> block', slot |-> Len(runners) + 1]]

-----------------------------------------------------------------------------
Init ==
    /\ matches \in MatchChoices
    /\ withTests \in BOOLEAN
    /\ report \in [Task -> JobChoices]
    /\ report0 = report
    /\ tstate = [t \in Task |-> "PENDING"]
    /\ trunner = [t \in Task |-> Null]
    /\ runners = <<>>
    /\ nallocs = MinArray
    /\ block = 1
    /\ packages = {}
    /\ mpc = "assign"
    /\ next = 1
    /\ pc = [s \in Slot |-> "none"]
    /\ cur = [s \in Slot |-> 0]
    /\ phase = [s \in Slot |-> "build"]
    /\ outcome = [s \in Slot |-> [failed |-> FALSE, errors |-> FALSE]]
    /\ verdict = [t \in Task |-> "none"]

-----------------------------------------------------------------------------
(* The caller's thread: sched_start.                                       *)

\* One iteration of the loop that gives every task a runner.
AssignTask ==
    /\ mpc = "assign"
    /\ next \in Task
    /\ \E h \in Host \cup {NoHost} :
          /\ HostFor(next, report[next].host, h)
          /\ \/ /\ h = NoHost
                /\ UNCHANGED <<trunner, array_vars>>
             \/ /\ h # NoHost
                /\ \E s \in 1..Len(runners) : runners[s] = h /\ ReuseRunner(next, s)
             \/ /\ h # NoHost
                /\ \A s \in 1..Len(runners) : runners[s] # h
                /\ NewRunner(next, h)
    /\ next' = next + 1
    /\ UNCHANGED <<report_vars, tstate, matches, withTests, packages, mpc, thread_vars>>

\* No host can run any of the jobs: sched_start gives up.
NoRunners ==
    /\ mpc = "assign"
    /\ next = NTasks + 1
    /\ Len(runners) = 0
    /\ mpc' = "returned"
    /\ UNCHANGED <<report_vars, task_vars, array_vars, matches, withTests, packages,
                   next, thread_vars>>

\* i_prepare_before_runners: both copies are tried and the second result
\* replaces the first.
PreparePackages ==
    /\ mpc = "assign"
    /\ next = NTasks + 1
    /\ Len(runners) > 0
    /\ \E srcOk, testOk \in BOOLEAN :
          LET ok == IF withTests THEN testOk ELSE srcOk
          IN  /\ packages' = (IF srcOk THEN {"src"} ELSE {})
                             \cup (IF withTests /\ testOk THEN {"test"} ELSE {})
              /\ mpc' = IF ok THEN "spawn" ELSE "returned"
    /\ next' = 1
    /\ UNCHANGED <<report_vars, task_vars, array_vars, matches, withTests, thread_vars>>

\* bthread_create for the next runner, while earlier threads already run.
Spawn ==
    /\ mpc = "spawn"
    /\ next \in 1..Len(runners)
    /\ pc' = [pc EXCEPT ![next] = "boot"]
    /\ next' = next + 1
    /\ mpc' = IF next = Len(runners) THEN "join" ELSE mpc
    /\ UNCHANGED <<report_vars, task_vars, array_vars, matches, withTests, packages,
                   cur, phase, outcome, verdict>>

\* Mutant of JoinAll: only the last runner started is waited for.
JoinLast ==
    /\ mpc = "join"
    /\ pc[Len(runners)] \in {"noboot", "exit"}
    /\ mpc' = "returned"
    /\ UNCHANGED <<report_vars, task_vars, array_vars, matches, withTests, packages,
                   next, thread_vars>>

\* bthread_wait on every runner, then i_destroy_scheduler.
JoinAll ==
    /\ mpc = "join"
    /\ \A s \in 1..Len(runners) : pc[s] \in {"noboot", "exit"}
    /\ mpc' = "returned"
    /\ UNCHANGED <<report_vars, task_vars, array_vars, matches, withTests, packages,
                   next, thread_vars>>

-----------------------------------------------------------------------------
(* The thread of slot s: i_run_runner_thread.                              *)

Goto(s, from, to) ==
    /\ pc[s] = from
    /\ pc' = [pc EXCEPT ![s] = to]

\* nboot_boot: without a host the thread ends and its tasks stay pending.
Boot(s) ==
    /\ \E up \in BOOLEAN : Goto(s, "boot", IF up THEN "select" ELSE "noboot")
    /\ UNCHANGED <<report_vars, task_vars, array_vars, main_vars, cur, phase,
                   outcome, verdict>>

\* Mutant of Selectable: a runner takes the tasks of the others too.
SelectableByAll(s) == {t \in Task : tstate[t] = "PENDING"}

Selectable(s) ==
    {t \in Task : tstate[t] = "PENDING" /\ trunner[t] = Addr(s)}

\* Mutant of SelectTask: the task is not claimed inside the critical section.
SelectUnclaimed(s) ==
    /\ Goto(s, "select", "built?")
    /\ \E t \in Selectable(s) : cur' = [cur EXCEPT ![s] = t]
    /\ UNCHANGED <<report_vars, task_vars, array_vars, main_vars, phase, outcome, verdict>>

\* Mutant of SelectTask: the index has moved on when it is kept.
SelectNext(s) ==
    /\ Goto(s, "select", "built?")
    /\ \E t \in Selectable(s) :
          /\ cur' = [cur EXCEPT ![s] = t + 1]
          /\ tstate' = [tstate EXCEPT ![t] = "RUNNING"]
    /\ UNCHANGED <<report_vars, trunner, array_vars, main_vars, phase, outcome, verdict>>

\* i_select_task_for_runner: the first pending task that points to this runner.
SelectTask(s) ==
    /\ Goto(s, "select", "built?")
    /\ \E t \in Selectable(s) :
          /\ \A u \in Selectable(s) : t <= u
          /\ cur' = [cur EXCEPT ![s] = t]
          /\ tstate' = [tstate EXCEPT ![t] = "RUNNING"]
    /\ UNCHANGED <<report_vars, trunner, array_vars, main_vars, phase, outcome, verdict>>

\* No task is left: nboot_shutdown, and the thread ends.
Shutdown(s) ==
    /\ Selectable(s) = {}
    /\ Goto(s, "select", "exit")
    /\ UNCHANGED <<report_vars, task_vars, array_vars, main_vars, cur, phase,
                   outcome, verdict>>

OpenStep(s, st) ==
    /\ phase' = [phase EXCEPT ![s] = st]
    /\ report' = [report EXCEPT ![cur[s]] = OpenEvent(@, st)]
    /\ UNCHANGED <<report0, task_vars, array_vars, main_vars, cur, outcome, verdict>>

\* The build step runs unless the report says it is done.
BeginBuild(s) ==
    /\ pc[s] = "built?"
    /\ IF IsDone(report[cur[s]].step["build"])
       THEN /\ Goto(s, "built?", "tested?")
            /\ UNCHANGED <<report_vars, task_vars, array_vars, main_vars, cur, phase,
                           outcome, verdict>>
       ELSE /\ Goto(s, "built?", "run")
            /\ OpenStep(s, "build")

BeginTest(s) ==
    /\ pc[s] = "tested?"
    /\ CanTest(report[cur[s]])
    /\ Goto(s, "tested?", "run")
    /\ OpenStep(s, "test")

SkipTest(s) ==
    /\ pc[s] = "tested?"
    /\ ~CanTest(report[cur[s]])
    /\ Goto(s, "tested?", "finish")
    /\ UNCHANGED <<report_vars, task_vars, array_vars, main_vars, cur, phase,
                   outcome, verdict>>

\* host_run_build and host_run_test.  A build with errors in its log fails; a
\* test may count failed checks and still succeed.  Neither can succeed when
\* its package never reached the master.
RunStep(s) ==
    /\ Goto(s, "run", "end")
    /\ \E o \in Outcome :
          /\ phase[s] = "build" => (o.errors => o.failed)
          /\ (phase[s] = "build" /\ "src" \notin packages) => o.failed
          /\ (phase[s] = "test" /\ "test" \notin packages) => o.failed
          /\ outcome' = [outcome EXCEPT ![s] = o]
          /\ verdict' = IF phase[s] = "build"
                        THEN [verdict EXCEPT ![cur[s]] =
                                 IF o.failed THEN "broken" ELSE "clean"]
                        ELSE verdict
    /\ UNCHANGED <<report_vars, task_vars, array_vars, main_vars, cur, phase>>

EndStep(s) ==
    /\ Goto(s, "end", "record")
    /\ \E e \in Elapsed :
          report' = [report EXCEPT ![cur[s]] =
                        CloseEvent(@, phase[s], Seconds(e), outcome[s].failed)]
    /\ UNCHANGED <<report0, task_vars, array_vars, main_vars, cur, phase, outcome, verdict>>

RecordStep(s) ==
    /\ Goto(s, "record", IF phase[s] = "build" THEN "tested?" ELSE "finish")
    /\ report' = [report EXCEPT ![cur[s]] =
                     RecordResult(@, phase[s], runners[s], outcome[s].errors)]
    /\ UNCHANGED <<report0, task_vars, array_vars, main_vars, cur, phase, outcome, verdict>>

\* Mutant of FinishTask: the task goes back to the queue.
FinishPending(s) ==
    /\ Goto(s, "finish", "select")
    /\ tstate' = [tstate EXCEPT ![cur[s]] = "PENDING"]
    /\ cur' = [cur EXCEPT ![s] = 0]
    /\ UNCHANGED <<report_vars, trunner, array_vars, main_vars, phase, outcome, verdict>>

\* i_finish_runner_task.
FinishTask(s) ==
    /\ Goto(s, "finish", "select")
    /\ tstate' = [tstate EXCEPT ![cur[s]] = "DONE"]
    /\ cur' = [cur EXCEPT ![s] = 0]
    /\ UNCHANGED <<report_vars, trunner, array_vars, main_vars, phase, outcome, verdict>>

-----------------------------------------------------------------------------
Thread(s) ==
    \/ Boot(s) \/ SelectTask(s) \/ Shutdown(s)
    \/ BeginBuild(s) \/ BeginTest(s) \/ SkipTest(s)
    \/ RunStep(s) \/ EndStep(s) \/ RecordStep(s) \/ FinishTask(s)

Main == AssignTask \/ NoRunners \/ PreparePackages \/ Spawn \/ JoinAll

\* sched_start has returned; nothing of it is left.
Returned == mpc = "returned" /\ UNCHANGED vars

Next == Main \/ (\E s \in Slot : Thread(s)) \/ Returned

Spec == Init /\ [][Next]_vars

\* The caller's thread and every runner thread keep running, and every remote
\* command (boot, build, test) ends.
Fairness == WF_vars(Main) /\ \A s \in Slot : WF_vars(Thread(s))

FairSpec == Spec /\ Fairness

-----------------------------------------------------------------------------
(* Properties.                                                             *)

PC == {"none", "boot", "noboot", "select", "built?", "run", "end", "record",
       "tested?", "finish", "exit"}

\* The pcs at which a thread holds a task.
Working == {"built?", "run", "end", "record", "tested?", "finish"}

\* The type invariant of the scheduler.
TypeOK ==
    /\ matches \in [Task -> SUBSET Host]
    /\ withTests \in BOOLEAN
    /\ report \in [Task -> JobRecord]
    /\ report0 \in [Task -> JobRecord]
    /\ tstate \in [Task -> {"PENDING", "RUNNING", "DONE"}]
    /\ trunner \in [Task -> Address]
    /\ runners \in Seq(Host)
    /\ nallocs \in Nat \ {0}
    /\ block \in Nat \ {0}
    /\ packages \in SUBSET {"src", "test"}
    /\ mpc \in {"assign", "spawn", "join", "returned"}
    /\ next \in Nat
    /\ pc \in [Slot -> PC]
    /\ cur \in [Slot -> 0..NTasks]
    /\ phase \in [Slot -> Step]
    /\ outcome \in [Slot -> Outcome]
    /\ verdict \in [Task -> {"none", "clean", "broken"}]

\* A task is RUNNING exactly while one thread works on it, and that thread is
\* the task's own runner: the cassert of i_select_task_for_runner (sched.c:227)
\* and the promise that a runner's thread may write its RJob without a lock.
TaskOwnership ==
    /\ \A s \in Slot :
          pc[s] \in Working =>
             /\ cur[s] \in Task
             /\ tstate[cur[s]] = "RUNNING"
             /\ trunner[cur[s]] = Addr(s)
    /\ \A t \in Task :
          tstate[t] = "RUNNING" => \E s \in Slot : pc[s] \in Working /\ cur[s] = t
    /\ \A r, s \in Slot :
          pc[r] \in Working /\ pc[s] \in Working /\ cur[r] = cur[s] => r = s

\* A test runs only on top of a build that this same call of sched_start ran
\* and found clean: messages and counters left in the report by an earlier,
\* forced run never decide it (report_job_can_test).
TestNeedsCleanBuild ==
    \A s \in Slot :
        (pc[s] \in {"run", "end", "record"} /\ phase[s] = "test")
            => verdict[cur[s]] = "clean"

\* A job whose host did not boot, or which has no host, keeps its report
\* exactly as it was, so the next loop selects it again.
PendingJobUntouched ==
    \A t \in Task : tstate[t] = "PENDING" => report[t] = report0[t]

\* A finished task has its build recorded as done, under the name of the host
\* of the task's runner, with the verdict of this call.  (Needs a wall clock
\* that does not go back: Elapsed \subseteq Nat.)
DoneTaskIsRecorded ==
    \A t \in Task : tstate[t] = "DONE" =>
        /\ IsDone(report[t].step["build"])
        /\ report[t].host = runners[trunner[t].slot]
        /\ report[t].step["build"].failed = (verdict[t] = "broken")

\* The cassert of report_job (report.c:789): once a job has a host name the
\* name never changes, whoever records a step.
HostNameIsSticky ==
    [][\A t \in Task :
          report[t].host # NoHost => report'[t].host = report[t].host]_vars

\* The thread of a host that has booted does not end before every task of its
\* host is done.
BootedRunnersDrain ==
    \A s \in 1..Len(runners) : pc[s] = "exit" =>
        \A t \in Task : HostFor(t, report0[t].host, runners[s]) => tstate[t] = "DONE"

\* The comment of i_prepare_before_runners (sched.c:370-374): the source
\* package is ready on the master before any runner starts.
SourcePackageReady ==
    \A s \in Slot : pc[s] = "boot" => "src" \in packages

\* sched_start returns once every remote command ends.
SchedReturns == <>(mpc = "returned")
==============================================================================
