----------------------------- MODULE SchedProofs -----------------------------
(***************************************************************************)
(* Proofs about Sched for any number of jobs and hosts, any capability of  *)
(* the hosts, any capacity of the runners array and any wall clock; and    *)
(* that Sched implements JobPool, with the refinement mapping of MCSched.  *)
(***************************************************************************)
EXTENDS MCSched, FiniteSetTheorems, WellFoundedInduction, TLAPS

-----------------------------------------------------------------------------
(* The inductive invariant, as a conjunction of named parts.               *)

\* Threads exist only for the slots sched_start has filled, and none exists
\* while the slots are still being filled.
ThreadsInv ==
    /\ mpc = "assign" => \A s \in Slot : pc[s] = "none"
    /\ mpc = "spawn" => \A s \in Slot : s >= next => pc[s] = "none"
    /\ \A s \in Slot : pc[s] # "none" => s \in 1..Len(runners)

\* The task a working thread holds is its own and is running.
HoldsInv ==
    \A s \in Slot :
        pc[s] \in Working =>
            /\ cur[s] \in Task
            /\ tstate[cur[s]] = "RUNNING"
            /\ trunner[cur[s]] = Addr(s)

\* Every running task is held by a thread.
HeldInv ==
    \A t \in Task :
        tstate[t] = "RUNNING" => \E s \in Slot : pc[s] \in Working /\ cur[s] = t

\* Every job sched_start receives has a build that is not done.
EntryInv == \A t \in Task : ~IsDone(report0[t].step["build"])

IInv == TypeOK /\ ThreadsInv /\ HoldsInv

-----------------------------------------------------------------------------
LEMMA InitType == Init => TypeOK
  <1> SUFFICES ASSUME Init PROVE TypeOK
    OBVIOUS
  <1>1. report \in [Task -> JobRecord]
    <2>1. FreshStep \in StepRecord
      BY DEF FreshStep, StepRecord
    <2>2. ReopenedStep \subseteq StepRecord
      BY DEF ReopenedStep, StepRecord
    <2>3. PendingJob \subseteq JobRecord
      BY <2>1, <2>2, SchedAssumption DEF PendingJob, JobRecord, HostName, NoHost
    <2> QED
      BY <2>3, JobChoicesAssumption DEF Init
  <1>2. trunner \in [Task -> Address]
    BY DEF Init, Null, Address
  <1>3. cur \in [Slot -> 0..NTasks]
    BY SchedAssumption DEF Init
  <1>4. outcome \in [Slot -> Outcome]
    BY DEF Init, Outcome
  <1> QED
    BY <1>1, <1>2, <1>3, <1>4, SchedAssumption
    DEF Init, TypeOK, Step, PC, Host

-----------------------------------------------------------------------------
(* One lemma per handler for the type invariant.                           *)

LEMMA WithStepType ==
  ASSUME NEW job \in JobRecord, NEW st \in Step, NEW ev \in StepRecord
  PROVE  WithStep(job, st, ev) \in JobRecord
  BY DEF WithStep, JobRecord

LEMMA OpenEventType ==
  ASSUME NEW job \in JobRecord, NEW st \in Step
  PROVE  OpenEvent(job, st) \in JobRecord
  <1>1. job.step[st] \in StepRecord
    BY DEF JobRecord
  <1> QED
    BY <1>1, WithStepType DEF OpenEvent, StepRecord

LEMMA CloseEventType ==
  ASSUME NEW job \in JobRecord, NEW st \in Step, NEW n \in Int, NEW failed \in BOOLEAN
  PROVE  CloseEvent(job, st, n, failed) \in JobRecord
  <1>1. job.step[st] \in StepRecord
    BY DEF JobRecord
  <1> QED
    BY <1>1, WithStepType DEF CloseEvent, StepRecord

LEMMA RecordResultType ==
  ASSUME NEW job \in JobRecord, NEW st \in Step, NEW h \in HostName, NEW errors \in BOOLEAN
  PROVE  RecordResult(job, st, h, errors) \in JobRecord
  <1> DEFINE ev == [seconds |-> job.step[st].seconds,
                    failed  |-> job.step[st].failed,
                    errors  |-> errors]
  <1>1. ev \in StepRecord
    BY DEF JobRecord, StepRecord
  <1>2. WithStep(job, st, ev) \in JobRecord
    BY <1>1, WithStepType
  <1> QED
    BY <1>2 DEF RecordResult, WithHost, JobRecord

LEMMA SecondsType ==
  ASSUME NEW e \in Int
  PROVE  Seconds(e) \in Int
  BY DEF Seconds

-----------------------------------------------------------------------------
(* The invariant is inductive.                                             *)

LEMMA InitIInv == Init => IInv
  <1> SUFFICES ASSUME Init PROVE IInv
    OBVIOUS
  <1>1. TypeOK
    BY InitType
  <1>2. ThreadsInv
    BY DEF Init, ThreadsInv
  <1>3. HoldsInv
    BY DEF Init, HoldsInv, Working
  <1> QED
    BY <1>1, <1>2, <1>3 DEF IInv

LEMMA AssignTaskIInv == IInv /\ AssignTask => IInv'
  <1> SUFFICES ASSUME IInv, AssignTask PROVE IInv'
    OBVIOUS
  <1> USE DEF IInv
  <1>1. /\ mpc = "assign" /\ mpc' = mpc /\ next \in Task /\ next' = next + 1
        /\ UNCHANGED <<report, report0, tstate, matches, withTests, packages>>
        /\ UNCHANGED <<pc, cur, phase, outcome, verdict>>
    BY DEF AssignTask, report_vars, thread_vars
  <1> DEFINE ArrayType == /\ trunner \in [Task -> Address]
                          /\ runners \in Seq(Host)
                          /\ nallocs \in Nat \ {0}
                          /\ block \in Nat \ {0}
  <1>2. ArrayType'
    <2>1. PICK h \in Host \cup {NoHost} :
            \/ UNCHANGED <<trunner, array_vars>>
            \/ \E s \in 1..Len(runners) : ReuseRunner(next, s)
            \/ h # NoHost /\ NewRunner(next, h)
      BY DEF AssignTask
    <2>2. CASE UNCHANGED <<trunner, array_vars>>
      BY <2>2 DEF TypeOK, array_vars
    <2>3. ASSUME NEW s \in 1..Len(runners), ReuseRunner(next, s)
          PROVE  ArrayType'
      BY <2>3, <1>1 DEF TypeOK, ReuseRunner, Addr, Address, array_vars
    <2>4. CASE h # NoHost /\ NewRunner(next, h)
      <3>1. h \in Host
        BY <2>4
      <3>2. Capacity \in Nat \ {0}
        BY DEF Capacity, TypeOK
      <3>3. block' \in Nat \ {0}
        BY <2>4 DEF TypeOK, NewRunner
      <3>4. [block |-> block', slot |-> Len(runners) + 1] \in Address
        BY <3>3 DEF Address, TypeOK
      <3> QED
        BY <2>4, <1>1, <3>1, <3>2, <3>3, <3>4 DEF TypeOK, NewRunner
    <2> QED
      BY <2>1, <2>2, <2>3, <2>4
  <1>3. TypeOK'
    BY <1>1, <1>2 DEF TypeOK, Task
  <1>4. ThreadsInv'
    BY <1>1 DEF ThreadsInv
  <1>5. HoldsInv'
    BY <1>1 DEF ThreadsInv, HoldsInv, Working
  <1> QED
    BY <1>3, <1>4, <1>5

LEMMA MainIInv == IInv /\ Main => IInv'
  <1> SUFFICES ASSUME IInv, Main PROVE IInv'
    OBVIOUS
  <1> USE DEF IInv, report_vars, task_vars, array_vars, thread_vars
  <1>1. CASE AssignTask
    BY <1>1, AssignTaskIInv
  <1>2. CASE NoRunners
    BY <1>2 DEF NoRunners, TypeOK, ThreadsInv, HoldsInv, Addr
  <1>3. CASE PreparePackages
    BY <1>3 DEF PreparePackages, TypeOK, ThreadsInv, HoldsInv, Addr
  <1>4. CASE Spawn
    <2>1. TypeOK'
      <3>1. pc' \in [Slot -> PC]
        BY <1>4 DEF Spawn, TypeOK, PC
      <3>2. mpc' \in {"assign", "spawn", "join", "returned"} /\ next' \in Nat
        BY <1>4 DEF Spawn, TypeOK
      <3> QED
        BY <1>4, <3>1, <3>2 DEF Spawn, TypeOK
    <2>2. ThreadsInv'
      BY <1>4 DEF Spawn, TypeOK, ThreadsInv
    <2>3. HoldsInv'
      BY <1>4 DEF Spawn, TypeOK, HoldsInv, Working, Addr
    <2> QED
      BY <2>1, <2>2, <2>3
  <1>5. CASE JoinAll
    BY <1>5 DEF JoinAll, TypeOK, ThreadsInv, HoldsInv, Addr
  <1> QED
    BY <1>1, <1>2, <1>3, <1>4, <1>5 DEF Main

\* A step of thread s that leaves the array and the caller alone and changes
\* neither its task nor the task's state preserves what concerns all threads.
LEMMA GotoIInv ==
  ASSUME IInv, NEW s \in Slot, NEW from \in PC, NEW to \in PC, Goto(s, from, to),
         from # "none", to # "none", to \in Working => from \in Working,
         UNCHANGED <<array_vars, main_vars, cur, trunner, tstate>>
  PROVE  pc' \in [Slot -> PC] /\ ThreadsInv' /\ HoldsInv'
  <1> USE DEF IInv, Goto, array_vars, main_vars
  <1>1. pc' \in [Slot -> PC]
    BY DEF TypeOK
  <1>2. \A r \in Slot : pc'[r] = IF r = s THEN to ELSE pc[r]
    BY DEF TypeOK
  <1>3. ThreadsInv'
    BY <1>2 DEF ThreadsInv
  <1>4. HoldsInv'
    BY <1>2 DEF HoldsInv, Addr
  <1> QED
    BY <1>1, <1>3, <1>4

LEMMA OpenStepIInv ==
  ASSUME IInv, NEW s \in Slot, NEW st \in Step, NEW from \in PC,
         cur[s] \in Task, from \in Working, Goto(s, from, "run"), OpenStep(s, st)
  PROVE  IInv'
  <1>1. pc' \in [Slot -> PC] /\ ThreadsInv' /\ HoldsInv'
    BY GotoIInv DEF OpenStep, PC, Working, task_vars
  <1>2. OpenEvent(report[cur[s]], st) \in JobRecord
    BY OpenEventType DEF IInv, TypeOK
  <1>3. report' \in [Task -> JobRecord]
    BY <1>2 DEF OpenStep, IInv, TypeOK
  <1>4. phase' \in [Slot -> Step]
    BY DEF OpenStep, IInv, TypeOK
  <1> QED
    BY <1>1, <1>3, <1>4 DEF OpenStep, IInv, TypeOK, main_vars, array_vars, task_vars

LEMMA ThreadIInv ==
  ASSUME IInv, NEW s \in Slot, Thread(s)
  PROVE  IInv'
  <1> USE DEF IInv, task_vars, report_vars
  <1>0. pc[s] # "none" => s \in 1..Len(runners)
    BY DEF ThreadsInv
  <1>1. CASE Boot(s)
    <2>1. PICK up \in BOOLEAN : Goto(s, "boot", IF up THEN "select" ELSE "noboot")
      BY <1>1 DEF Boot
    <2>2. pc' \in [Slot -> PC] /\ ThreadsInv' /\ HoldsInv'
      BY <1>1, <2>1, GotoIInv DEF Boot, PC, Working
    <2> QED
      BY <1>1, <2>2 DEF Boot, TypeOK, main_vars, array_vars
  <1>2. CASE SelectTask(s)
    <2>1. PICK t \in Selectable(s) :
             /\ cur' = [cur EXCEPT ![s] = t]
             /\ tstate' = [tstate EXCEPT ![t] = "RUNNING"]
      BY <1>2 DEF SelectTask
    <2>2. t \in Task /\ tstate[t] = "PENDING" /\ trunner[t] = Addr(s)
      BY <2>1 DEF Selectable
    <2>3. \A r \in Slot : pc'[r] = IF r = s THEN "built?" ELSE pc[r]
      BY <1>2 DEF SelectTask, Goto, TypeOK
    <2>4. TypeOK'
      <3>1. pc' \in [Slot -> PC]
        BY <1>2 DEF SelectTask, Goto, TypeOK, PC
      <3>2. cur' \in [Slot -> 0..NTasks]
        BY <2>1, <2>2 DEF TypeOK, Task
      <3>3. tstate' \in [Task -> {"PENDING", "RUNNING", "DONE"}]
        BY <2>1, <2>2 DEF TypeOK
      <3> QED
        BY <1>2, <3>1, <3>2, <3>3 DEF SelectTask, TypeOK, main_vars, array_vars
    <2>5. ThreadsInv'
      BY <1>0, <1>2, <2>3 DEF ThreadsInv, SelectTask, Goto, main_vars, array_vars
    <2>6. HoldsInv'
      <3> SUFFICES ASSUME NEW r \in Slot, pc'[r] \in Working
                   PROVE  /\ cur'[r] \in Task
                          /\ tstate'[cur'[r]] = "RUNNING"
                          /\ trunner'[cur'[r]] = Addr(r)'
        BY DEF HoldsInv
      <3>1. Addr(r)' = Addr(r) /\ trunner' = trunner
        BY <1>2 DEF SelectTask, Addr, array_vars
      <3>2. CASE r = s
        BY <2>1, <2>2, <3>1, <3>2 DEF TypeOK
      <3>3. CASE r # s
        <4>1. pc[r] \in Working /\ cur'[r] = cur[r]
          BY <2>1, <2>3, <3>3 DEF TypeOK
        <4> QED
          BY <2>1, <2>2, <3>1, <4>1 DEF HoldsInv, TypeOK
      <3> QED
        BY <3>2, <3>3
    <2> QED
      BY <2>4, <2>5, <2>6
  <1>3. CASE Shutdown(s)
    <2>1. pc' \in [Slot -> PC] /\ ThreadsInv' /\ HoldsInv'
      BY <1>3, GotoIInv DEF Shutdown, PC, Working
    <2> QED
      BY <1>3, <2>1 DEF Shutdown, TypeOK, main_vars, array_vars
  <1>4. CASE BeginBuild(s)
    <2>1. cur[s] \in Task
      BY <1>4 DEF BeginBuild, HoldsInv, Working
    <2>2. CASE Goto(s, "built?", "run") /\ OpenStep(s, "build")
      BY <2>1, <2>2, OpenStepIInv DEF PC, Working, Step
    <2>3. CASE /\ Goto(s, "built?", "tested?")
               /\ UNCHANGED <<report_vars, task_vars, array_vars, main_vars, cur, phase,
                              outcome, verdict>>
      <3>1. pc' \in [Slot -> PC] /\ ThreadsInv' /\ HoldsInv'
        BY <2>3, GotoIInv DEF PC, Working
      <3> QED
        BY <2>3, <3>1 DEF TypeOK, main_vars, array_vars
    <2> QED
      BY <1>4, <2>2, <2>3 DEF BeginBuild
  <1>5. CASE BeginTest(s)
    <2>1. cur[s] \in Task
      BY <1>5 DEF BeginTest, HoldsInv, Working
    <2> QED
      BY <1>5, <2>1, OpenStepIInv DEF BeginTest, PC, Working, Step
  <1>6. CASE SkipTest(s)
    <2>1. pc' \in [Slot -> PC] /\ ThreadsInv' /\ HoldsInv'
      BY <1>6, GotoIInv DEF SkipTest, PC, Working
    <2> QED
      BY <1>6, <2>1 DEF SkipTest, TypeOK, main_vars, array_vars
  <1>7. CASE RunStep(s)
    <2>1. pc' \in [Slot -> PC] /\ ThreadsInv' /\ HoldsInv'
      BY <1>7, GotoIInv DEF RunStep, PC, Working
    <2>2. outcome' \in [Slot -> Outcome]
      BY <1>7 DEF RunStep, TypeOK
    <2>3. verdict' \in [Task -> {"none", "clean", "broken"}]
      BY <1>7 DEF RunStep, TypeOK
    <2> QED
      BY <1>7, <2>1, <2>2, <2>3 DEF RunStep, TypeOK, main_vars, array_vars
  <1>8. CASE EndStep(s)
    <2>1. cur[s] \in Task
      BY <1>8 DEF EndStep, Goto, HoldsInv, Working
    <2>2. pc' \in [Slot -> PC] /\ ThreadsInv' /\ HoldsInv'
      BY <1>8, GotoIInv DEF EndStep, PC, Working
    <2>3. report' \in [Task -> JobRecord]
      <3>1. PICK e \in Elapsed :
               report' = [report EXCEPT ![cur[s]] =
                             CloseEvent(@, phase[s], Seconds(e), outcome[s].failed)]
        BY <1>8 DEF EndStep
      <3>2. Seconds(e) \in Int
        BY SecondsType, SchedAssumption
      <3>3. /\ report[cur[s]] \in JobRecord
            /\ phase[s] \in Step
            /\ outcome[s].failed \in BOOLEAN
        BY <2>1 DEF TypeOK, Outcome
      <3>4. CloseEvent(report[cur[s]], phase[s], Seconds(e), outcome[s].failed) \in JobRecord
        BY <3>2, <3>3, CloseEventType
      <3> QED
        BY <2>1, <3>1, <3>4 DEF TypeOK
    <2> QED
      BY <1>8, <2>2, <2>3 DEF EndStep, TypeOK, main_vars, array_vars
  <1>9. CASE RecordStep(s)
    <2>1. cur[s] \in Task
      BY <1>9 DEF RecordStep, Goto, HoldsInv, Working
    <2>2. pc' \in [Slot -> PC] /\ ThreadsInv' /\ HoldsInv'
      BY <1>9, GotoIInv DEF RecordStep, PC, Working
    <2>3. report' \in [Task -> JobRecord]
      <3>1. s \in 1..Len(runners)
        BY <1>0, <1>9 DEF RecordStep, Goto
      <3>2. runners[s] \in HostName
        BY <3>1, SchedAssumption DEF TypeOK, Host, HostName
      <3>3. /\ report[cur[s]] \in JobRecord
            /\ phase[s] \in Step
            /\ outcome[s].errors \in BOOLEAN
        BY <2>1 DEF TypeOK, Outcome
      <3>4. RecordResult(report[cur[s]], phase[s], runners[s], outcome[s].errors) \in JobRecord
        BY <3>2, <3>3, RecordResultType
      <3> QED
        BY <1>9, <2>1, <3>4 DEF RecordStep, TypeOK
    <2> QED
      BY <1>9, <2>2, <2>3 DEF RecordStep, TypeOK, main_vars, array_vars
  <1>10. CASE FinishTask(s)
    <2>1. cur[s] \in Task /\ trunner[cur[s]] = Addr(s)
      BY <1>10 DEF FinishTask, Goto, HoldsInv, Working
    <2>2. \A r \in Slot : pc'[r] = IF r = s THEN "select" ELSE pc[r]
      BY <1>10 DEF FinishTask, Goto, TypeOK
    <2>3. TypeOK'
      <3>1. pc' \in [Slot -> PC]
        BY <1>10 DEF FinishTask, Goto, TypeOK, PC
      <3>2. cur' \in [Slot -> 0..NTasks]
        BY <1>10, SchedAssumption DEF FinishTask, TypeOK
      <3>3. tstate' \in [Task -> {"PENDING", "RUNNING", "DONE"}]
        BY <1>10 DEF FinishTask, TypeOK
      <3> QED
        BY <1>10, <3>1, <3>2, <3>3 DEF FinishTask, TypeOK, main_vars, array_vars
    <2>4. ThreadsInv'
      BY <1>0, <1>10, <2>2 DEF ThreadsInv, FinishTask, Goto, main_vars, array_vars
    <2>5. HoldsInv'
      <3> SUFFICES ASSUME NEW r \in Slot, pc'[r] \in Working
                   PROVE  /\ cur'[r] \in Task
                          /\ tstate'[cur'[r]] = "RUNNING"
                          /\ trunner'[cur'[r]] = Addr(r)'
        BY DEF HoldsInv
      <3>1. r # s /\ pc[r] \in Working
        BY <2>2 DEF Working
      <3>2. cur'[r] = cur[r] /\ trunner' = trunner /\ Addr(r)' = Addr(r)
        BY <1>10, <3>1 DEF FinishTask, TypeOK, Addr, array_vars
      <3>3. cur[r] # cur[s]
        <4>1. trunner[cur[r]] = Addr(r)
          BY <3>1 DEF HoldsInv
        <4>2. Addr(r).slot = r /\ Addr(s).slot = s
          BY DEF Addr
        <4> QED
          BY <2>1, <3>1, <4>1, <4>2
      <3> QED
        BY <1>10, <2>1, <3>1, <3>2, <3>3 DEF HoldsInv, FinishTask, TypeOK
    <2> QED
      BY <2>3, <2>4, <2>5
  <1> QED
    BY <1>1, <1>2, <1>3, <1>4, <1>5, <1>6, <1>7, <1>8, <1>9, <1>10 DEF Thread

THEOREM InvariantHolds == Spec => []IInv
  <1>1. IInv /\ [Next]_vars => IInv'
    <2> SUFFICES ASSUME IInv, [Next]_vars PROVE IInv'
      OBVIOUS
    <2>1. CASE Main
      BY <2>1, MainIInv
    <2>2. ASSUME NEW s \in Slot, Thread(s) PROVE IInv'
      BY <2>2, ThreadIInv
    <2>3. CASE UNCHANGED vars
      BY <2>3 DEF vars, report_vars, task_vars, array_vars, main_vars, thread_vars,
                  IInv, TypeOK, ThreadsInv, HoldsInv, Addr
    <2> QED
      BY <2>1, <2>2, <2>3 DEF Next, Returned
  <1> QED
    BY <1>1, InitIInv, PTL DEF Spec

\* Every variable of the scheduler keeps its type, whatever the interleaving.
THEOREM TypeCorrect == Spec => []TypeOK
  BY InvariantHolds, PTL DEF IInv

-----------------------------------------------------------------------------
(* What a step of one thread leaves alone.                                 *)

LEMMA ThreadFrame ==
  ASSUME IInv, NEW s \in Slot, Thread(s)
  PROVE  /\ \A r \in Slot : r # s => /\ pc'[r] = pc[r]
                                     /\ cur'[r] = cur[r]
                                     /\ phase'[r] = phase[r]
                                     /\ outcome'[r] = outcome[r]
         /\ \A t \in Task :
               (report'[t] # report[t] \/ verdict'[t] # verdict[t])
                   => pc[s] \in Working /\ t = cur[s]
         /\ \A t \in Task : tstate'[t] = "PENDING" => tstate[t] = "PENDING"
         /\ report0' = report0
  <1> USE DEF IInv, TypeOK, Goto, report_vars, task_vars
  <1>1. CASE Boot(s)
    BY <1>1 DEF Boot
  <1>2. CASE SelectTask(s)
    <2>1. PICK t \in Selectable(s) :
             /\ cur' = [cur EXCEPT ![s] = t]
             /\ tstate' = [tstate EXCEPT ![t] = "RUNNING"]
      BY <1>2 DEF SelectTask
    <2> QED
      BY <1>2, <2>1 DEF SelectTask, Selectable
  <1>3. CASE Shutdown(s)
    BY <1>3 DEF Shutdown
  <1>4. CASE BeginBuild(s)
    BY <1>4 DEF BeginBuild, OpenStep, Working
  <1>5. CASE BeginTest(s)
    BY <1>5 DEF BeginTest, OpenStep, Working
  <1>6. CASE SkipTest(s)
    BY <1>6 DEF SkipTest
  <1>7. CASE RunStep(s)
    <2>1. PICK o \in Outcome :
             /\ outcome' = [outcome EXCEPT ![s] = o]
             /\ verdict' = IF phase[s] = "build"
                           THEN [verdict EXCEPT ![cur[s]] =
                                    IF o.failed THEN "broken" ELSE "clean"]
                           ELSE verdict
      BY <1>7 DEF RunStep
    <2> QED
      BY <1>7, <2>1 DEF RunStep, Working
  <1>8. CASE EndStep(s)
    BY <1>8 DEF EndStep, Working
  <1>9. CASE RecordStep(s)
    BY <1>9 DEF RecordStep, Working
  <1>10. CASE FinishTask(s)
    BY <1>10 DEF FinishTask
  <1> QED
    BY <1>1, <1>2, <1>3, <1>4, <1>5, <1>6, <1>7, <1>8, <1>9, <1>10 DEF Thread

\* Two threads never hold the same task.
LEMMA HoldersDiffer ==
  ASSUME HoldsInv, NEW r \in Slot, NEW s \in Slot, r # s,
         pc[r] \in Working, pc[s] \in Working
  PROVE  cur[r] # cur[s]
  <1>1. trunner[cur[r]] = Addr(r) /\ trunner[cur[s]] = Addr(s)
    BY DEF HoldsInv
  <1>2. Addr(r).slot = r /\ Addr(s).slot = s
    BY DEF Addr
  <1> QED
    BY <1>1, <1>2

LEMMA HeldStep ==
  ASSUME IInv, HeldInv, NEW s \in Slot, Thread(s)
  PROVE  HeldInv'
  <1> SUFFICES ASSUME NEW t \in Task, tstate'[t] = "RUNNING"
               PROVE  \E r \in Slot : pc'[r] \in Working /\ cur'[r] = t
    BY DEF HeldInv
  <1> USE DEF IInv, TypeOK, Goto
  <1>1. CASE SelectTask(s)
    <2>1. PICK u \in Selectable(s) :
             /\ cur' = [cur EXCEPT ![s] = u]
             /\ tstate' = [tstate EXCEPT ![u] = "RUNNING"]
      BY <1>1 DEF SelectTask
    <2>2. pc'[s] = "built?" /\ cur'[s] = u /\ pc[s] = "select"
      BY <1>1, <2>1 DEF SelectTask
    <2>3. CASE t = u
      BY <2>2, <2>3 DEF Working
    <2>4. CASE t # u
      <3>1. tstate[t] = "RUNNING"
        BY <2>1, <2>4 DEF Selectable
      <3>2. PICK r \in Slot : pc[r] \in Working /\ cur[r] = t
        BY <3>1 DEF HeldInv
      <3>3. r # s
        BY <2>2, <3>2 DEF Working
      <3> QED
        BY <3>2, <3>3, ThreadFrame
    <2> QED
      BY <2>3, <2>4
  <1>2. CASE FinishTask(s)
    <2>1. tstate[t] = "RUNNING" /\ t # cur[s]
      <3>1. cur[s] \in Task /\ tstate' = [tstate EXCEPT ![cur[s]] = "DONE"]
        BY <1>2 DEF FinishTask, HoldsInv, Working
      <3> QED
        BY <3>1
    <2>2. PICK r \in Slot : pc[r] \in Working /\ cur[r] = t
      BY <2>1 DEF HeldInv
    <2>3. r # s
      BY <2>1, <2>2
    <2> QED
      BY <2>2, <2>3, ThreadFrame
  <1>3. CASE ~SelectTask(s) /\ ~FinishTask(s)
    <2>1. /\ tstate' = tstate
          /\ cur' = cur
          /\ pc[s] \in Working => pc'[s] \in Working
      BY <1>3 DEF Thread, Boot, Shutdown, BeginBuild, BeginTest, SkipTest, OpenStep,
                  RunStep, EndStep, RecordStep, task_vars, Working
    <2>2. PICK r \in Slot : pc[r] \in Working /\ cur[r] = t
      BY <2>1 DEF HeldInv
    <2>3. r # s => pc'[r] = pc[r]
      BY ThreadFrame
    <2>4. pc'[r] \in Working /\ cur'[r] = t
      BY <2>1, <2>2, <2>3
    <2> QED
      BY <2>4
  <1> QED
    BY <1>1, <1>2, <1>3

\* sched.c:227 and the unlocked writes of the runner threads: a running task
\* is held by exactly one thread, its own.
THEOREM OwnershipHolds == Spec => []TaskOwnership
  <1>1. Init => HeldInv
    BY DEF Init, HeldInv
  <1>2. IInv /\ HeldInv /\ [Next]_vars => HeldInv'
    <2> SUFFICES ASSUME IInv, HeldInv, [Next]_vars PROVE HeldInv'
      OBVIOUS
    <2>1. CASE Main
      <3>1. /\ tstate' = tstate /\ cur' = cur
            /\ \A s \in Slot : pc[s] \in Working => pc'[s] \in Working
        <4>1. CASE Spawn
          <5>1. \A s \in Slot : pc[s] \in Working => s # next
            BY <4>1 DEF Spawn, IInv, TypeOK, ThreadsInv, Working
          <5> QED
            BY <4>1, <5>1 DEF Spawn, task_vars, IInv, TypeOK
        <4> QED
          BY <2>1, <4>1 DEF Main, AssignTask, NoRunners, PreparePackages, JoinAll,
                            task_vars, thread_vars
      <3> QED
        BY <3>1 DEF HeldInv
    <2>2. ASSUME NEW s \in Slot, Thread(s) PROVE HeldInv'
      BY <2>2, HeldStep
    <2>3. CASE UNCHANGED vars
      BY <2>3 DEF vars, task_vars, thread_vars, HeldInv
    <2> QED
      BY <2>1, <2>2, <2>3 DEF Next, Returned
  <1>3. IInv /\ HeldInv => TaskOwnership
    BY HoldersDiffer DEF IInv, HoldsInv, HeldInv, TaskOwnership
  <1> QED
    BY <1>1, <1>2, <1>3, InvariantHolds, PTL DEF Spec

-----------------------------------------------------------------------------
(* Jobs that did not run.                                                  *)

LEMMA PendingStep ==
  ASSUME IInv, PendingJobUntouched, [Next]_vars
  PROVE  PendingJobUntouched'
  <1>1. CASE Main
    BY <1>1 DEF Main, AssignTask, NoRunners, PreparePackages, Spawn, JoinAll,
                PendingJobUntouched, report_vars, task_vars
  <1>2. ASSUME NEW s \in Slot, Thread(s)
        PROVE  PendingJobUntouched'
    <2> SUFFICES ASSUME NEW t \in Task, tstate'[t] = "PENDING"
                 PROVE  report'[t] = report0'[t]
      BY DEF PendingJobUntouched
    <2>1. tstate[t] = "PENDING" /\ report0' = report0
      BY <1>2, ThreadFrame
    <2>2. report'[t] # report[t] => pc[s] \in Working /\ t = cur[s]
      BY <1>2, ThreadFrame
    <2>3. report'[t] = report[t]
      BY <2>1, <2>2 DEF IInv, HoldsInv
    <2> QED
      BY <2>1, <2>3 DEF PendingJobUntouched
  <1>3. CASE UNCHANGED vars
    BY <1>3 DEF vars, PendingJobUntouched, report_vars, task_vars
  <1> QED
    BY <1>1, <1>2, <1>3 DEF Next, Returned

\* A job that no thread took leaves sched_start as it entered, so the next
\* loop finds it pending again.
THEOREM PendingHolds == Spec => []PendingJobUntouched
  <1>1. Init => PendingJobUntouched
    BY DEF Init, PendingJobUntouched
  <1> QED
    BY <1>1, PendingStep, InvariantHolds, PTL DEF Spec

-----------------------------------------------------------------------------
(* Tests run on clean builds only.                                         *)

\* What thread s knows about the build of the task it holds.
BuildKnown(s) ==
    /\ pc[s] = "built?" => ~IsDone(report[cur[s]].step["build"])
    /\ (pc[s] \in {"end", "record"} /\ phase[s] = "build")
          => verdict[cur[s]] = IF outcome[s].failed THEN "broken" ELSE "clean"
    /\ (pc[s] = "record" /\ phase[s] = "build")
          => report[cur[s]].step["build"].failed = outcome[s].failed
    /\ pc[s] = "tested?"
          => verdict[cur[s]] = IF report[cur[s]].step["build"].failed
                               THEN "broken" ELSE "clean"
    /\ (pc[s] \in {"run", "end", "record"} /\ phase[s] = "test")
          => verdict[cur[s]] = "clean"

BuildInv == \A s \in Slot : BuildKnown(s)

LEMMA InitEntry == Init => EntryInv
  <1> SUFFICES ASSUME Init, NEW t \in Task
               PROVE  ~IsDone(report0[t].step["build"])
    BY DEF EntryInv
  <1>1. report0[t] \in PendingJob
    BY JobChoicesAssumption DEF Init
  <1>2. \A job \in PendingJob : ~IsDone(job.step["build"])
    BY DEF PendingJob, ReopenedStep, FreshStep, IsDone, Step
  <1> QED
    BY <1>1, <1>2

\* Another thread's step does not change what thread r knows.
LEMMA OthersKnow ==
  ASSUME IInv, NEW s \in Slot, Thread(s), NEW r \in Slot, r # s, BuildKnown(r)
  PROVE  BuildKnown(r)'
  <1>1. /\ pc'[r] = pc[r] /\ cur'[r] = cur[r]
        /\ phase'[r] = phase[r] /\ outcome'[r] = outcome[r]
    BY ThreadFrame
  <1>2. CASE pc[r] \in Working
    <2>1. cur[r] \in Task /\ (pc[s] \in Working => cur[r] # cur[s])
      BY <1>2, HoldersDiffer DEF IInv, HoldsInv
    <2>2. report'[cur[r]] = report[cur[r]] /\ verdict'[cur[r]] = verdict[cur[r]]
      BY <2>1, ThreadFrame
    <2> QED
      BY <1>1, <2>2 DEF BuildKnown
  <1>3. CASE pc[r] \notin Working
    BY <1>1, <1>3 DEF BuildKnown, Working
  <1> QED
    BY <1>2, <1>3

LEMMA OpenKnow ==
  ASSUME IInv, NEW s \in Slot, cur[s] \in Task, NEW st \in Step, NEW from \in PC,
         Goto(s, from, "run"), OpenStep(s, st),
         st = "test" => verdict[cur[s]] = "clean"
  PROVE  BuildKnown(s)'
  BY DEF IInv, TypeOK, Goto, OpenStep, BuildKnown

LEMMA BuildStep ==
  ASSUME IInv, PendingJobUntouched, EntryInv, NEW s \in Slot, Thread(s), BuildKnown(s)
  PROVE  BuildKnown(s)'
  <1> USE DEF IInv, TypeOK, Goto
  <1>0. pc[s] \in Working => cur[s] \in Task
    BY DEF HoldsInv
  <1>1. CASE Boot(s) \/ Shutdown(s) \/ FinishTask(s)
    <2>1. pc'[s] \in {"select", "noboot", "exit"}
      BY <1>1 DEF Boot, Shutdown, FinishTask
    <2> QED
      BY <2>1 DEF BuildKnown
  <1>2. CASE SelectTask(s)
    <2>1. PICK t \in Selectable(s) : cur' = [cur EXCEPT ![s] = t]
      BY <1>2 DEF SelectTask
    <2>2. t \in Task /\ report[t] = report0[t]
      BY <2>1 DEF Selectable, PendingJobUntouched
    <2>3. pc'[s] = "built?" /\ cur'[s] = t /\ report' = report
      BY <1>2, <2>1 DEF SelectTask, report_vars
    <2>4. ~IsDone(report'[cur'[s]].step["build"])
      BY <2>2, <2>3 DEF EntryInv
    <2> QED
      BY <2>3, <2>4 DEF BuildKnown
  <1>3. CASE BeginBuild(s)
    <2>1. cur[s] \in Task /\ ~IsDone(report[cur[s]].step["build"])
      BY <1>0, <1>3 DEF BeginBuild, BuildKnown, Working
    <2>2. Goto(s, "built?", "run") /\ OpenStep(s, "build")
      BY <1>3, <2>1 DEF BeginBuild
    <2> QED
      BY <2>1, <2>2, OpenKnow DEF Step, PC
  <1>4. CASE BeginTest(s)
    <2>1. cur[s] \in Task /\ verdict[cur[s]] = "clean"
      BY <1>0, <1>4 DEF BeginTest, BuildKnown, CanTest, Working
    <2> QED
      BY <1>4, <2>1, OpenKnow DEF BeginTest, Step, PC
  <1>5. CASE SkipTest(s)
    BY <1>5 DEF SkipTest, BuildKnown
  <1>6. CASE RunStep(s)
    <2>1. PICK o \in Outcome :
             /\ outcome' = [outcome EXCEPT ![s] = o]
             /\ verdict' = IF phase[s] = "build"
                           THEN [verdict EXCEPT ![cur[s]] =
                                    IF o.failed THEN "broken" ELSE "clean"]
                           ELSE verdict
      BY <1>6 DEF RunStep
    <2>2. cur[s] \in Task /\ pc[s] = "run" /\ pc'[s] = "end" /\ phase[s] \in Step
      BY <1>0, <1>6 DEF RunStep, Working
    <2>3. cur' = cur /\ phase' = phase
      BY <1>6 DEF RunStep
    <2>4. CASE phase[s] = "build"
      BY <2>1, <2>2, <2>3, <2>4 DEF BuildKnown
    <2>5. CASE phase[s] = "test"
      BY <2>1, <2>2, <2>3, <2>5 DEF BuildKnown
    <2> QED
      BY <2>2, <2>4, <2>5 DEF Step
  <1>7. CASE EndStep(s)
    <2>1. PICK e \in Elapsed :
             report' = [report EXCEPT ![cur[s]] =
                           CloseEvent(@, phase[s], Seconds(e), outcome[s].failed)]
      BY <1>7 DEF EndStep
    <2>2. cur[s] \in Task /\ pc[s] = "end" /\ pc'[s] = "record" /\ phase[s] \in Step
      BY <1>0, <1>7 DEF EndStep, Working
    <2>3. UNCHANGED <<cur, phase, outcome, verdict>>
      BY <1>7 DEF EndStep
    <2>4. phase[s] = "build"
            => report'[cur[s]].step["build"].failed = outcome[s].failed
      BY <2>1, <2>2 DEF CloseEvent, WithStep, JobRecord
    <2> QED
      BY <2>2, <2>3, <2>4 DEF BuildKnown, Step
  <1>8. CASE RecordStep(s)
    <2>1. cur[s] \in Task /\ pc[s] = "record" /\ phase[s] \in Step
      BY <1>0, <1>8 DEF RecordStep, Working
    <2>2. UNCHANGED <<cur, phase, outcome, verdict>>
      BY <1>8 DEF RecordStep
    <2>3. CASE phase[s] = "test"
      <3>1. pc'[s] = "finish"
        BY <1>8, <2>3 DEF RecordStep
      <3> QED
        BY <3>1 DEF BuildKnown
    <2>4. CASE phase[s] = "build"
      <3>1. pc'[s] = "tested?"
        BY <1>8, <2>4 DEF RecordStep
      <3>2. report'[cur[s]].step["build"].failed = report[cur[s]].step["build"].failed
        BY <1>8, <2>1, <2>4 DEF RecordStep, RecordResult, WithHost, WithStep, JobRecord
      <3> QED
        BY <2>1, <2>2, <2>4, <3>1, <3>2 DEF BuildKnown
    <2> QED
      BY <2>1, <2>3, <2>4 DEF Step
  <1> QED
    BY <1>1, <1>2, <1>3, <1>4, <1>5, <1>6, <1>7, <1>8 DEF Thread

LEMMA BuildInvHolds == Spec => [](EntryInv /\ BuildInv)
  <1>1. Init => EntryInv /\ BuildInv
    BY InitEntry DEF Init, BuildInv, BuildKnown
  <1>2. /\ IInv /\ PendingJobUntouched /\ EntryInv /\ BuildInv
        /\ [Next]_vars
        => EntryInv' /\ BuildInv'
    <2> SUFFICES ASSUME IInv, PendingJobUntouched, EntryInv, BuildInv, [Next]_vars
                 PROVE  EntryInv' /\ BuildInv'
      OBVIOUS
    <2>1. CASE Main
      <3>1. /\ UNCHANGED <<report, report0, cur, phase, outcome, verdict>>
            /\ \A s \in Slot : pc'[s] = pc[s] \/ pc'[s] = "boot"
        BY <2>1 DEF Main, AssignTask, NoRunners, PreparePackages, Spawn, JoinAll,
                    report_vars, thread_vars, IInv, TypeOK
      <3> QED
        BY <3>1 DEF EntryInv, BuildInv, BuildKnown
    <2>2. ASSUME NEW s \in Slot, Thread(s) PROVE EntryInv' /\ BuildInv'
      <3>1. EntryInv'
        BY <2>2, ThreadFrame DEF EntryInv
      <3>2. ASSUME NEW r \in Slot PROVE BuildKnown(r)'
        <4>1. BuildKnown(r) /\ BuildKnown(s)
          BY DEF BuildInv
        <4>2. CASE r = s
          BY <2>2, <4>1, <4>2, BuildStep
        <4>3. CASE r # s
          BY <2>2, <4>1, <4>3, OthersKnow
        <4> QED
          BY <4>2, <4>3
      <3> QED
        BY <3>1, <3>2 DEF BuildInv
    <2>3. CASE UNCHANGED vars
      BY <2>3 DEF vars, report_vars, thread_vars, EntryInv, BuildInv, BuildKnown
    <2> QED
      BY <2>1, <2>2, <2>3 DEF Next, Returned
  <1> QED
    BY <1>1, <1>2, InvariantHolds, PendingHolds, PTL DEF Spec

\* report_job_can_test: a test runs only on a build that this call of
\* sched_start found clean, whatever marks earlier runs left in the report.
THEOREM TestNeedsCleanBuildHolds == Spec => []TestNeedsCleanBuild
  <1>1. BuildInv => TestNeedsCleanBuild
    BY DEF BuildInv, BuildKnown, TestNeedsCleanBuild
  <1> QED
    BY <1>1, BuildInvHolds, PTL

-----------------------------------------------------------------------------
(* The host of a task.                                                     *)

\* A nonempty set of hosts has a first one.
LEMMA FirstHost == \A S \in SUBSET Host : S # {} => \E h \in S : \A g \in S : h <= g
  <1> SUFFICES ASSUME NEW S \in SUBSET Host, S # {} PROVE \E h \in S : \A g \in S : h <= g
    OBVIOUS
  <1> DEFINE Below == {1..h : h \in S}
             R == StrictSubsetOrdering(Host)
  <1>1. S \subseteq Nat /\ \A h \in S : 1..h \subseteq Host /\ IsFiniteSet(1..h)
    BY SchedAssumption, FS_Interval DEF Host
  <1>2. PICK U \in Below : \A V \in Below : <<V, U>> \notin R
    <2>1. IsWellFoundedOn(R, FiniteSubsetsOf(Host))
      BY FS_StrictSubsetOrderingWellFounded
    <2>2. Below # {} /\ Below \subseteq FiniteSubsetsOf(Host)
      BY <1>1 DEF FiniteSubsetsOf
    <2> HIDE DEF Below, R
    <2> QED
      BY <2>1, <2>2, WFMin
  <1>3. PICK h \in S : U = 1..h
    BY <1>2
  <1>4. ASSUME NEW g \in S PROVE h <= g
    <2>1. ~(1..g \subseteq 1..h /\ 1..g # 1..h)
      <3>1. 1..g \in SUBSET Host /\ 1..h \in SUBSET Host
        BY <1>1
      <3>2. <<1..g, 1..h>> \notin R
        BY <1>2, <1>3
      <3> QED
        BY <3>1, <3>2, Zenon DEF StrictSubsetOrdering
    <2>2. CASE g < h
      <3>1. h \in 1..h /\ h \notin 1..g /\ 1..g \subseteq 1..h
        BY <1>1, <2>2, SchedAssumption DEF Host
      <3> QED
        BY <2>1, <3>1
    <2> QED
      BY <1>1, <2>2
  <1> QED
    BY <1>4

\* sched_start finds one host for a job, or none.
LEMMA OneHostFor ==
  ASSUME matches \in [Task -> SUBSET Host], NEW t \in Task, NEW name \in HostName
  PROVE  /\ \E h \in Host \cup {NoHost} : HostFor(t, name, h)
         /\ \A g, h \in Host \cup {NoHost} : HostFor(t, name, g) /\ HostFor(t, name, h) => g = h
  <1>1. Host \subseteq Nat
    BY SchedAssumption DEF Host
  <1>2. \E h \in Host \cup {NoHost} : HostFor(t, name, h)
    <2>1. CASE name # NoHost \/ matches[t] = {}
      BY <2>1 DEF HostFor
    <2>2. CASE name = NoHost /\ matches[t] # {}
      <3>1. PICK h \in matches[t] : \A g \in matches[t] : h <= g
        BY <2>2, FirstHost
      <3>2. h \in Host
        OBVIOUS
      <3>3. HostFor(t, name, h)
        BY <2>2, <3>1 DEF HostFor, FirstMatch
      <3> QED
        BY <3>2, <3>3
    <2> QED
      BY <2>1, <2>2
  <1>3. ASSUME NEW g \in Host \cup {NoHost}, NEW h \in Host \cup {NoHost},
               HostFor(t, name, g), HostFor(t, name, h)
        PROVE  g = h
    <2>1. CASE name # NoHost \/ matches[t] = {}
      BY <1>3, <2>1 DEF HostFor
    <2>2. CASE name = NoHost /\ matches[t] # {}
      <3>1. g \in matches[t] /\ h \in matches[t] /\ g <= h /\ h <= g
        BY <1>3, <2>2 DEF HostFor, FirstMatch
      <3> QED
        BY <1>1, <3>1
    <2> QED
      BY <2>1, <2>2
  <1> QED
    BY <1>2, <1>3

-----------------------------------------------------------------------------
(* Runners.                                                                *)

\* A host has one runner at most, and a task is given that of its host.
RunnersInv ==
    /\ mpc = "assign" => report = report0 /\ \A t \in Task : tstate[t] = "PENDING"
    /\ \A r, s \in 1..Len(runners) : runners[r] = runners[s] => r = s
    /\ \A t \in Task : trunner[t] # Null =>
          /\ trunner[t].slot \in 1..Len(runners)
          /\ HostFor(t, report0[t].host, runners[trunner[t].slot])

\* Every task that has a host is given a runner, before any thread starts.
AssignedInv ==
    \A t \in Task, h \in Host :
        HostFor(t, report0[t].host, h) /\ (mpc = "assign" => t < next) => trunner[t] # Null

\* The array stays where it is while it is no larger than it was at first.
StillInv ==
    Len(runners) <= MinArray =>
        /\ nallocs = MinArray
        /\ \A t \in Task : trunner[t] # Null => trunner[t].block = block

PoolInv == RunnersInv /\ AssignedInv /\ StillInv

LEMMA InitPoolInv == Init => PoolInv
  <1> SUFFICES ASSUME Init PROVE PoolInv
    OBVIOUS
  <1>1. /\ report = report0 /\ Len(runners) = 0 /\ nallocs = MinArray /\ next = 1 /\ mpc = "assign"
        /\ \A t \in Task : trunner[t] = Null /\ tstate[t] = "PENDING"
    BY DEF Init
  <1> QED
    BY <1>1, SchedAssumption DEF PoolInv, RunnersInv, AssignedInv, StillInv, Task

LEMMA AssignPoolInv ==
  ASSUME IInv, PoolInv, AssignTask
  PROVE  PoolInv'
  <1> USE DEF IInv, TypeOK
  <1>1. /\ mpc = "assign" /\ next \in Task /\ next' = next + 1 /\ mpc' = mpc
        /\ UNCHANGED <<report, report0, matches, tstate>> /\ report = report0
    BY DEF AssignTask, report_vars, PoolInv, RunnersInv
  <1>0. (mpc = "assign" => report = report0 /\ \A t \in Task : tstate[t] = "PENDING")'
    BY <1>1 DEF PoolInv, RunnersInv
  <1>2. PICK h \in Host \cup {NoHost} :
          /\ HostFor(next, report[next].host, h)
          /\ \/ /\ h = NoHost
                /\ UNCHANGED <<trunner, array_vars>>
             \/ /\ h # NoHost
                /\ \E s \in 1..Len(runners) : runners[s] = h /\ ReuseRunner(next, s)
             \/ /\ h # NoHost
                /\ \A s \in 1..Len(runners) : runners[s] # h
                /\ NewRunner(next, h)
    BY DEF AssignTask
  <1>3. \A t \in Task : \A g : HostFor(t, report0[t].host, g)' <=> HostFor(t, report0[t].host, g)
    BY <1>1 DEF HostFor, FirstMatch
  <1>4. \A t \in Task : t < next' <=> t < next \/ t = next
    BY <1>1 DEF Task
  <1>5. report0[next].host \in HostName
    BY <1>1 DEF JobRecord
  <1>6. HostFor(next, report0[next].host, h)
    BY <1>1, <1>2
  <1>7. CASE h = NoHost /\ UNCHANGED <<trunner, array_vars>>
    <2>1. \A g \in Host : ~HostFor(next, report0[next].host, g)
      <3>1. NoHost \notin Host
        BY DEF Host, NoHost
      <3> QED
        BY <1>1, <1>5, <1>6, <1>7, <3>1, OneHostFor
    <2>2. RunnersInv'
      BY <1>1, <1>3, <1>7 DEF PoolInv, RunnersInv, array_vars
    <2>3. AssignedInv'
      BY <1>1, <1>3, <1>4, <1>7, <2>1 DEF PoolInv, AssignedInv
    <2>4. StillInv'
      BY <1>7 DEF PoolInv, StillInv, array_vars
    <2> QED
      BY <2>2, <2>3, <2>4 DEF PoolInv
  <1>8. CASE \E s \in 1..Len(runners) : runners[s] = h /\ ReuseRunner(next, s)
    <2>1. PICK s \in 1..Len(runners) : runners[s] = h /\ ReuseRunner(next, s)
      BY <1>8
    <2>2. /\ trunner' = [trunner EXCEPT ![next] = [block |-> block, slot |-> s]]
          /\ UNCHANGED <<runners, nallocs, block>>
      BY <2>1 DEF ReuseRunner, Addr, array_vars
    <2>3. trunner'[next].slot = s /\ trunner'[next].block = block /\ trunner'[next] # Null
      BY <1>1, <2>2 DEF Null
    <2>4. \A t \in Task \ {next} : trunner'[t] = trunner[t]
      BY <2>2
    <2>5. RunnersInv'
      <3>1. \A r, u \in 1..Len(runners') : runners'[r] = runners'[u] => r = u
        BY <2>2 DEF PoolInv, RunnersInv
      <3>2. ASSUME NEW t \in Task, trunner'[t] # Null
            PROVE  /\ trunner'[t].slot \in 1..Len(runners')
                   /\ HostFor(t, report0[t].host, runners'[trunner'[t].slot])
        BY <1>6, <2>1, <2>2, <2>3, <2>4, <3>2 DEF PoolInv, RunnersInv
      <3> QED
        BY <1>0, <1>1, <1>3, <3>1, <3>2 DEF RunnersInv
    <2>6. AssignedInv'
      BY <1>1, <1>3, <1>4, <2>3, <2>4 DEF PoolInv, AssignedInv
    <2>7. StillInv'
      BY <2>2, <2>3, <2>4 DEF PoolInv, StillInv
    <2> QED
      BY <2>5, <2>6, <2>7 DEF PoolInv
  <1>9. CASE /\ h # NoHost
             /\ \A s \in 1..Len(runners) : runners[s] # h
             /\ NewRunner(next, h)
    <2>1. /\ runners' = Append(runners, h)
          /\ nallocs' = Capacity
          /\ block' = IF Capacity > nallocs THEN block + 1 ELSE block
          /\ trunner' = [trunner EXCEPT ![next] = [block |-> block', slot |-> Len(runners) + 1]]
      BY <1>9 DEF NewRunner
    <2>2. /\ Len(runners') = Len(runners) + 1 /\ runners'[Len(runners) + 1] = h
          /\ \A s \in 1..Len(runners) : runners'[s] = runners[s]
          /\ Len(runners) \in Nat
      BY <1>9, <2>1
    <2>3. /\ trunner'[next].slot = Len(runners) + 1 /\ trunner'[next].block = block'
          /\ trunner'[next] # Null
      BY <1>1, <2>1, <2>2 DEF Null
    <2>4. \A t \in Task \ {next} : trunner'[t] = trunner[t]
      BY <2>1
    <2>5. RunnersInv'
      <3>0. 1..Len(runners') = (1..Len(runners)) \cup {Len(runners) + 1}
        BY <2>2
      <3>1. \A r, s \in 1..Len(runners') : runners'[r] = runners'[s] => r = s
        <4>1. \A r, s \in 1..Len(runners) : runners[r] = runners[s] => r = s
          BY DEF PoolInv, RunnersInv
        <4> QED
          BY <1>9, <2>2, <3>0, <4>1
      <3>2. ASSUME NEW t \in Task, trunner'[t] # Null
            PROVE  /\ trunner'[t].slot \in 1..Len(runners')
                   /\ HostFor(t, report0[t].host, runners'[trunner'[t].slot])
        <4>1. CASE t = next
          BY <1>6, <2>2, <2>3, <4>1
        <4>2. CASE t # next
          <5>1. trunner'[t] = trunner[t]
            BY <2>4, <4>2
          <5>2. /\ trunner[t].slot \in 1..Len(runners)
                /\ HostFor(t, report0[t].host, runners[trunner[t].slot])
            BY <3>2, <5>1 DEF PoolInv, RunnersInv
          <5>3. runners'[trunner[t].slot] = runners[trunner[t].slot]
            BY <2>2, <5>2
          <5> QED
            BY <3>0, <5>1, <5>2, <5>3
        <4> QED
          BY <4>1, <4>2
      <3> QED
        BY <1>0, <1>1, <1>3, <3>1, <3>2 DEF RunnersInv
    <2>6. AssignedInv'
      BY <1>1, <1>3, <1>4, <2>3, <2>4 DEF PoolInv, AssignedInv
    <2>7. StillInv'
      <3> SUFFICES ASSUME Len(runners') <= MinArray
                   PROVE  /\ nallocs' = MinArray
                          /\ \A t \in Task : trunner'[t] # Null => trunner'[t].block = block'
        BY DEF StillInv
      <3>1. /\ Len(runners) < MinArray /\ nallocs = MinArray
            /\ \A t \in Task : trunner[t] # Null => trunner[t].block = block
        BY <2>2, SchedAssumption DEF PoolInv, StillInv
      <3>2. nallocs' = MinArray /\ block' = block
        BY <2>1, <2>2, <3>1, SchedAssumption DEF Capacity
      <3> QED
        BY <2>3, <2>4, <3>1, <3>2
    <2> QED
      BY <2>5, <2>6, <2>7 DEF PoolInv
  <1> QED
    BY <1>2, <1>7, <1>8, <1>9

LEMMA PoolInvStep ==
  ASSUME IInv, PoolInv, [Next]_vars
  PROVE  PoolInv'
  <1> USE DEF IInv, TypeOK, report_vars, task_vars, array_vars, main_vars
  <1>1. CASE AssignTask
    BY <1>1, AssignPoolInv
  <1>2. CASE /\ UNCHANGED <<matches, report0, trunner, array_vars>>
             /\ mpc' = "assign" => mpc = "assign" /\ UNCHANGED <<report, tstate, next>>
             /\ mpc = "assign" => mpc' = "assign" \/ next = NTasks + 1
    <2>1. \A t \in Task : \A g : HostFor(t, report0[t].host, g)' <=> HostFor(t, report0[t].host, g)
      BY <1>2 DEF HostFor, FirstMatch
    <2>2. RunnersInv'
      BY <1>2, <2>1 DEF PoolInv, RunnersInv
    <2>3. AssignedInv'
      <3> SUFFICES ASSUME NEW t \in Task, NEW h \in Host, HostFor(t, report0[t].host, h)',
                          mpc' = "assign" => t < next'
                   PROVE  trunner'[t] # Null
        BY DEF AssignedInv
      <3>1. HostFor(t, report0[t].host, h)
        BY <2>1
      <3>2. mpc = "assign" => t < next
        BY <1>2, SchedAssumption DEF Task
      <3> QED
        BY <1>2, <3>1, <3>2 DEF PoolInv, AssignedInv
    <2>4. StillInv'
      BY <1>2 DEF PoolInv, StillInv
    <2> QED
      BY <2>2, <2>3, <2>4 DEF PoolInv
  <1>3. CASE NoRunners \/ PreparePackages \/ Spawn \/ JoinAll
    BY <1>2, <1>3 DEF NoRunners, PreparePackages, Spawn, JoinAll
  <1>4. ASSUME NEW s \in Slot, Thread(s) PROVE PoolInv'
    <2>1. mpc # "assign"
      BY <1>4 DEF ThreadsInv, Thread, Goto, Boot, SelectTask, Shutdown, BeginBuild, BeginTest, SkipTest,
                  RunStep, EndStep, RecordStep, FinishTask
    <2>2. UNCHANGED <<main_vars, report0, trunner, array_vars>>
      BY <1>4 DEF Thread, Boot, SelectTask, Shutdown, BeginBuild, BeginTest, SkipTest, OpenStep,
                  RunStep, EndStep, RecordStep, FinishTask
    <2> QED
      BY <1>2, <2>1, <2>2
  <1>5. CASE UNCHANGED vars
    BY <1>2, <1>5 DEF vars
  <1> QED
    BY <1>1, <1>3, <1>4, <1>5 DEF Next, Main, Returned

LEMMA PoolInvHolds == Spec => []PoolInv
  BY InitPoolInv, PoolInvStep, InvariantHolds, PTL DEF Spec
-----------------------------------------------------------------------------
(* The host name of a record.                                              *)

\* A name that was not there on entry is that of the runner of the task.
NameInv ==
    \A t \in Task : report[t].host # report0[t].host =>
        trunner[t] # Null /\ report[t].host = runners[trunner[t].slot]

\* Only report_job writes the name, that of the thread's host.
LEMMA NameStep ==
  ASSUME IInv, NEW s \in Slot, Thread(s), NEW t \in Task
  PROVE  /\ UNCHANGED <<trunner, runners>>
         /\ report'[t].host # report[t].host =>
               trunner[t] # Null /\ trunner[t].slot = s /\ report'[t].host = runners[s]
  <1> USE DEF IInv, TypeOK, report_vars, task_vars, array_vars
  <1>1. CASE Boot(s) \/ SelectTask(s) \/ Shutdown(s) \/ SkipTest(s) \/ RunStep(s) \/ FinishTask(s)
    BY <1>1 DEF Boot, SelectTask, Shutdown, SkipTest, RunStep, FinishTask
  <1>2. CASE BeginBuild(s) \/ BeginTest(s)
    <2>1. CASE UNCHANGED <<report_vars, task_vars, array_vars>>
      BY <2>1
    <2>2. ASSUME NEW st \in Step, OpenStep(s, st), cur[s] \in Task
          PROVE  UNCHANGED <<trunner, runners>> /\ report'[t].host = report[t].host
      BY <2>2 DEF OpenStep, OpenEvent, WithStep
    <2>3. cur[s] \in Task
      BY <1>2 DEF BeginBuild, BeginTest, HoldsInv, Working
    <2> QED
      BY <1>2, <2>1, <2>2, <2>3 DEF BeginBuild, BeginTest, Step
  <1>3. CASE EndStep(s)
    BY <1>3 DEF EndStep, CloseEvent, WithStep
  <1>4. CASE RecordStep(s)
    <2>1. cur[s] \in Task /\ trunner[cur[s]] = Addr(s)
      BY <1>4 DEF RecordStep, Goto, HoldsInv, Working
    <2>2. trunner[cur[s]] # Null /\ trunner[cur[s]].slot = s
      BY <2>1 DEF Addr, Null
    <2>3. report' = [report EXCEPT ![cur[s]] =
                       RecordResult(@, phase[s], runners[s], outcome[s].errors)]
      BY <1>4 DEF RecordStep
    <2>4. UNCHANGED <<trunner, runners>>
      BY <1>4 DEF RecordStep
    <2> QED
      BY <2>1, <2>2, <2>3, <2>4 DEF RecordResult, WithHost
  <1> QED
    BY <1>1, <1>2, <1>3, <1>4 DEF Thread

LEMMA NameInvHolds == Spec => []NameInv
  <1>1. Init => NameInv
    BY DEF Init, NameInv
  <1>2. IInv /\ PoolInv /\ NameInv /\ [Next]_vars => NameInv'
    <2> SUFFICES ASSUME IInv, PoolInv, NameInv, [Next]_vars PROVE NameInv'
      OBVIOUS
    <2>1. CASE AssignTask
      BY <2>1 DEF AssignTask, PoolInv, RunnersInv, NameInv, report_vars
    <2>2. CASE NoRunners \/ PreparePackages \/ Spawn \/ JoinAll \/ UNCHANGED vars
      <3>1. UNCHANGED <<report, report0, trunner, runners>>
        BY <2>2 DEF NoRunners, PreparePackages, Spawn, JoinAll, vars, report_vars, task_vars, array_vars
      <3> QED
        BY <3>1 DEF NameInv
    <2>3. ASSUME NEW s \in Slot, Thread(s) PROVE NameInv'
      <3>1. report0' = report0
        BY <2>3, ThreadFrame
      <3> QED
        BY <2>3, <3>1, NameStep DEF NameInv
    <2> QED
      BY <2>1, <2>2, <2>3 DEF Next, Main, Returned
  <1> QED
    BY <1>1, <1>2, InvariantHolds, PoolInvHolds, PTL DEF Spec

\* report.c:789: a job that has a host name keeps it, whichever thread records a
\* step, since the runner of a forced job was that of the host its record names.
THEOREM HostNameIsStickyHolds == Spec => HostNameIsSticky
  <1> DEFINE Sticky == \A t \in Task : report[t].host # NoHost => report'[t].host = report[t].host
  <1>1. IInv /\ PoolInv /\ NameInv /\ [Next]_vars => [Sticky]_vars
    <2> SUFFICES ASSUME IInv, PoolInv, NameInv, [Next]_vars,
                        NEW t \in Task, report[t].host # NoHost
                 PROVE  report'[t].host = report[t].host
      OBVIOUS
    <2>1. CASE UNCHANGED report
      BY <2>1
    <2>2. ASSUME NEW s \in Slot, Thread(s), report'[t].host # report[t].host
          PROVE  FALSE
      <3>1. trunner[t] # Null /\ trunner[t].slot = s /\ report'[t].host = runners[s]
        BY <2>2, NameStep
      <3>2. HostFor(t, report0[t].host, runners[s]) /\ runners[s] \in Host
        BY <3>1 DEF PoolInv, RunnersInv, IInv, TypeOK
      <3>3. report[t].host = report0[t].host
        BY <2>2, <3>1 DEF NameInv
      <3>4. NoHost \notin Host
        BY DEF NoHost, Host
      <3> QED
        BY <2>2, <3>1, <3>2, <3>3, <3>4 DEF HostFor
    <2> QED
      BY <2>1, <2>2
      DEF Next, Main, AssignTask, NoRunners, PreparePackages, Spawn, JoinAll, Returned, vars, report_vars
  <1> QED
    BY <1>1, InvariantHolds, PoolInvHolds, NameInvHolds, PTL DEF Spec, HostNameIsSticky
-----------------------------------------------------------------------------
(* What the record of a task that is done says.                            *)

Recorded(t) ==
    /\ IsDone(report[t].step["build"])
    /\ report[t].host = runners[trunner[t].slot]
    /\ report[t].step["build"].failed = (verdict[t] = "broken")

\* What the thread of a task has recorded so far.
RecordKnown(s) ==
    /\ pc[s] = "record" /\ phase[s] = "build" => IsDone(report[cur[s]].step["build"])
    /\ \/ pc[s] \in {"tested?", "finish"}
       \/ pc[s] \in {"run", "end", "record"} /\ phase[s] = "test"
       => Recorded(cur[s])

RecordInv == DoneTaskIsRecorded /\ \A s \in Slot : RecordKnown(s)

\* The step of a thread leaves the records of the others alone.
LEMMA OthersRecorded ==
  ASSUME IInv, NEW s \in Slot, Thread(s), NEW t \in Task, pc[s] \in Working => t # cur[s],
         Recorded(t)
  PROVE  Recorded(t)'
  <1>1. report'[t] = report[t] /\ verdict'[t] = verdict[t]
    BY ThreadFrame
  <1>2. UNCHANGED <<trunner, runners>>
    BY NameStep
  <1> QED
    BY <1>1, <1>2 DEF Recorded

LEMMA RecordKnownStep ==
  ASSUME Elapsed \subseteq Nat, IInv, BuildInv, NEW s \in Slot, RecordKnown(s), Thread(s)
  PROVE  RecordKnown(s)'
  <1> USE DEF IInv, TypeOK, Goto, report_vars, task_vars, array_vars
  <1>0. /\ pc[s] \in Working => cur[s] \in Task /\ trunner[cur[s]].slot = s
        /\ UNCHANGED <<trunner, runners>>
        /\ BuildKnown(s)
    <2>1. 1 \in Task
      BY SchedAssumption DEF Task
    <2>2. UNCHANGED <<trunner, runners>>
      BY <2>1, NameStep
    <2>3. pc[s] \in Working => cur[s] \in Task /\ trunner[cur[s]] = Addr(s)
      BY DEF HoldsInv
    <2>4. Addr(s).slot = s
      BY DEF Addr
    <2> QED
      BY <2>2, <2>3, <2>4 DEF BuildInv
  <1>1. CASE Boot(s) \/ SelectTask(s) \/ Shutdown(s) \/ FinishTask(s)
    <2>1. pc'[s] \in {"select", "noboot", "built?", "exit"}
      BY <1>1 DEF Boot, SelectTask, Shutdown, FinishTask
    <2> QED
      BY <2>1 DEF RecordKnown
  <1>2. CASE BeginBuild(s)
    <2>1. pc'[s] = "run" /\ phase'[s] = "build"
      BY <1>0, <1>2 DEF BeginBuild, BuildKnown, OpenStep
    <2> QED
      BY <2>1 DEF RecordKnown
  <1>3. CASE BeginTest(s)
    <2>1. /\ pc[s] = "tested?" /\ pc'[s] = "run" /\ cur[s] \in Task
          /\ report' = [report EXCEPT ![cur[s]] = OpenEvent(@, "test")]
          /\ UNCHANGED <<cur, verdict>>
      BY <1>0, <1>3 DEF BeginTest, OpenStep, Working
    <2>2. /\ report'[cur[s]].step["build"] = report[cur[s]].step["build"]
          /\ report'[cur[s]].host = report[cur[s]].host
      BY <2>1 DEF OpenEvent, WithStep, JobRecord, Step
    <2> QED
      BY <1>0, <2>1, <2>2 DEF RecordKnown, Recorded
  <1>4. CASE SkipTest(s)
    BY <1>0, <1>4 DEF SkipTest, RecordKnown, Recorded
  <1>5. CASE RunStep(s)
    <2>1. /\ pc[s] = "run" /\ pc'[s] = "end" /\ UNCHANGED <<cur, phase, report>>
          /\ phase[s] # "build" => UNCHANGED verdict
      BY <1>5 DEF RunStep
    <2> QED
      BY <1>0, <2>1 DEF RecordKnown, Recorded
  <1>6. CASE EndStep(s)
    <2>1. PICK e \in Elapsed :
             report' = [report EXCEPT ![cur[s]] =
                           CloseEvent(@, phase[s], Seconds(e), outcome[s].failed)]
      BY <1>6 DEF EndStep
    <2>2. /\ pc[s] = "end" /\ pc'[s] = "record" /\ UNCHANGED <<cur, phase, verdict>>
          /\ cur[s] \in Task /\ phase[s] \in Step
      BY <1>0, <1>6 DEF EndStep, Working
    <2>3. /\ report'[cur[s]].step[phase[s]].seconds = Seconds(e)
          /\ phase[s] = "test" =>
                report'[cur[s]].step["build"] = report[cur[s]].step["build"]
          /\ report'[cur[s]].host = report[cur[s]].host
      BY <2>1, <2>2 DEF CloseEvent, WithStep, JobRecord, Step
    <2>4. Seconds(e) > 0
      BY DEF Seconds
    <2> QED
      BY <1>0, <2>2, <2>3, <2>4 DEF RecordKnown, Recorded, IsDone, Step
  <1>7. CASE RecordStep(s)
    <2>1. /\ report' = [report EXCEPT ![cur[s]] =
                           RecordResult(@, phase[s], runners[s], outcome[s].errors)]
          /\ pc[s] = "record" /\ pc'[s] \in {"tested?", "finish"}
          /\ UNCHANGED <<cur, phase, verdict, outcome>>
          /\ cur[s] \in Task /\ phase[s] \in Step
      BY <1>0, <1>7 DEF RecordStep, Working
    <2>2. /\ report'[cur[s]].step["build"].seconds = report[cur[s]].step["build"].seconds
          /\ report'[cur[s]].step["build"].failed = report[cur[s]].step["build"].failed
          /\ report'[cur[s]].host = runners[s]
      BY <2>1 DEF RecordResult, WithHost, WithStep, JobRecord, Step
    <2>3. IsDone(report[cur[s]].step["build"])
      BY <2>1 DEF RecordKnown, Recorded, Step
    <2>4. report[cur[s]].step["build"].failed = (verdict[cur[s]] = "broken")
      <3>1. CASE phase[s] = "test"
        BY <2>1, <3>1 DEF RecordKnown, Recorded
      <3>2. CASE phase[s] = "build"
        BY <1>0, <2>1, <3>2 DEF BuildKnown, Outcome
      <3> QED
        BY <2>1, <3>1, <3>2 DEF Step
    <2> QED
      <3>1. IsDone(report'[cur[s]].step["build"])
        BY <2>2, <2>3 DEF IsDone
      <3>2. report'[cur[s]].host = runners'[trunner'[cur[s]].slot]
        BY <1>0, <2>1, <2>2 DEF Working
      <3>3. report'[cur[s]].step["build"].failed = (verdict'[cur[s]] = "broken")
        BY <2>1, <2>2, <2>4
      <3>4. Recorded(cur[s])'
        BY <2>1, <3>1, <3>2, <3>3 DEF Recorded
      <3> QED
        BY <2>1, <3>4 DEF RecordKnown
  <1> QED
    BY <1>1, <1>2, <1>3, <1>4, <1>5, <1>6, <1>7 DEF Thread

LEMMA RecordStepInv ==
  ASSUME Elapsed \subseteq Nat, IInv, BuildInv, RecordInv, NEW s \in Slot, Thread(s)
  PROVE  RecordInv'
  <1> USE DEF IInv, TypeOK
  <1>1. ASSUME NEW r \in Slot PROVE RecordKnown(r)'
    <2>1. CASE r = s
      BY <2>1, RecordKnownStep DEF RecordInv
    <2>2. CASE r # s
      <3>1. pc'[r] = pc[r] /\ cur'[r] = cur[r] /\ phase'[r] = phase[r]
        BY <2>2, ThreadFrame
      <3>2. CASE pc[r] \in Working
        <4>1. cur[r] \in Task /\ (pc[s] \in Working => cur[r] # cur[s])
          BY <2>2, <3>2, HoldersDiffer DEF HoldsInv
        <4>2. report'[cur[r]] = report[cur[r]]
          BY <4>1, ThreadFrame
        <4>3. ASSUME Recorded(cur[r]) PROVE Recorded(cur[r])'
          <5>1. PICK t \in Task : t = cur[r]
            BY <4>1
          <5>2. Recorded(t)'
            BY <4>1, <4>3, <5>1, OthersRecorded
          <5> QED
            BY <3>1, <5>1, <5>2 DEF Recorded
        <4> QED
          BY <3>1, <4>2, <4>3 DEF RecordInv, RecordKnown
      <3>3. CASE pc[r] \notin Working
        BY <3>1, <3>3 DEF RecordKnown, Working
      <3> QED
        BY <3>2, <3>3
    <2> QED
      BY <2>1, <2>2
  <1>2. ASSUME NEW t \in Task, tstate'[t] = "DONE" PROVE Recorded(t)'
    <2>1. CASE tstate[t] = "DONE"
      <3>1. Recorded(t)
        BY <2>1 DEF RecordInv, DoneTaskIsRecorded, Recorded
      <3>2. pc[s] \in Working => t # cur[s]
        BY <2>1 DEF HoldsInv
      <3> QED
        BY <3>1, <3>2, OthersRecorded
    <2>2. CASE tstate[t] # "DONE"
      <3>1. FinishTask(s) /\ t = cur[s]
        BY <1>2, <2>2 DEF Thread, Boot, SelectTask, Shutdown, BeginBuild, BeginTest, SkipTest, OpenStep,
                          RunStep, EndStep, RecordStep, FinishTask, task_vars
      <3>2. pc[s] = "finish" /\ UNCHANGED <<report, verdict, trunner, runners>>
        BY <3>1 DEF FinishTask, Goto, report_vars, array_vars
      <3> QED
        BY <3>1, <3>2 DEF RecordInv, RecordKnown, Recorded
    <2> QED
      BY <2>1, <2>2
  <1> QED
    BY <1>1, <1>2 DEF RecordInv, DoneTaskIsRecorded, Recorded

\* Where the wall clock does not go back, a task that is done has its build
\* recorded as done, with the verdict of this call, under the name of its host.
THEOREM DoneTaskIsRecordedHolds ==
  ASSUME Elapsed \subseteq Nat
  PROVE  Spec => []DoneTaskIsRecorded
  <1>1. Init => RecordInv
    BY DEF Init, RecordInv, RecordKnown, DoneTaskIsRecorded
  <1>2. IInv /\ PoolInv /\ BuildInv /\ RecordInv /\ [Next]_vars => RecordInv'
    <2> SUFFICES ASSUME IInv, PoolInv, BuildInv, RecordInv, [Next]_vars
                 PROVE  RecordInv'
      OBVIOUS
    <2>1. CASE AssignTask
      <3>1. UNCHANGED <<tstate, pc>> /\ mpc = "assign"
        BY <2>1 DEF AssignTask, thread_vars
      <3>2. /\ \A t \in Task : tstate[t] = "PENDING"
            /\ \A s \in Slot : pc[s] = "none"
        BY <3>1 DEF PoolInv, RunnersInv, IInv, ThreadsInv
      <3> QED
        BY <3>1, <3>2 DEF RecordInv, RecordKnown, DoneTaskIsRecorded
    <2>2. CASE NoRunners \/ PreparePackages \/ Spawn \/ JoinAll \/ UNCHANGED vars
      <3>1. /\ UNCHANGED <<report, tstate, trunner, runners, cur, phase, verdict>>
            /\ \A s \in Slot : pc'[s] = pc[s] \/ pc'[s] = "boot"
        BY <2>2 DEF NoRunners, PreparePackages, Spawn, JoinAll, vars, report_vars, task_vars, array_vars,
                    thread_vars, IInv, TypeOK
      <3> QED
        BY <3>1 DEF RecordInv, RecordKnown, DoneTaskIsRecorded, Recorded
    <2>3. ASSUME NEW s \in Slot, Thread(s) PROVE RecordInv'
      BY <2>3, RecordStepInv
    <2> QED
      BY <2>1, <2>2, <2>3 DEF Next, Main, Returned
  <1>3. RecordInv => DoneTaskIsRecorded
    BY DEF RecordInv
  <1> QED
    BY <1>1, <1>2, <1>3, InvariantHolds, PoolInvHolds, BuildInvHolds, PTL DEF Spec
-----------------------------------------------------------------------------
(* Threads that have ended.                                                *)

\* sched_start returns when no thread is left.
EndedInv == mpc = "returned" => \A s \in Slot : pc[s] \in {"none", "noboot", "exit"}

LEMMA EndedInvHolds == Spec => []EndedInv
  <1>1. Init => EndedInv
    BY DEF Init, EndedInv
  <1>2. IInv /\ EndedInv /\ [Next]_vars => EndedInv'
    <2> SUFFICES ASSUME IInv, EndedInv, [Next]_vars PROVE EndedInv'
      OBVIOUS
    <2> USE DEF IInv, ThreadsInv
    <2>1. CASE AssignTask \/ NoRunners \/ PreparePackages \/ Spawn
      BY <2>1 DEF AssignTask, NoRunners, PreparePackages, Spawn, EndedInv, thread_vars
    <2>2. CASE JoinAll
      BY <2>2 DEF JoinAll, EndedInv, thread_vars
    <2>3. ASSUME NEW s \in Slot, Thread(s) PROVE EndedInv'
      <3>1. mpc # "returned" /\ mpc' = mpc
        BY <2>3 DEF EndedInv, Thread, Boot, SelectTask, Shutdown, BeginBuild, BeginTest, SkipTest,
                    OpenStep, RunStep, EndStep, RecordStep, FinishTask, Goto, main_vars
      <3> QED
        BY <3>1 DEF EndedInv
    <2>4. CASE UNCHANGED vars
      BY <2>4 DEF vars, main_vars, thread_vars, EndedInv
    <2> QED
      BY <2>1, <2>2, <2>3, <2>4 DEF Next, Main, Returned
  <1> QED
    BY <1>1, <1>2, InvariantHolds, PTL DEF Spec

\* There are no more runners than hosts.
FewRunners == 1..Len(runners) \subseteq Slot

LEMMA FewRunnersStep == ASSUME IInv, PoolInv PROVE FewRunners
  <1>1. /\ runners \in [1..Len(runners) -> Host] /\ Len(runners) \in Nat /\ NHosts \in Nat
        /\ \A r, s \in 1..Len(runners) : runners[r] = runners[s] => r = s
    BY SchedAssumption DEF IInv, TypeOK, PoolInv, RunnersInv
  <1>2. /\ IsFiniteSet(1..Len(runners)) /\ Cardinality(1..Len(runners)) = Len(runners)
        /\ IsFiniteSet(Host) /\ Cardinality(Host) = NHosts
    <2>1. \A n \in Nat : IsFiniteSet(1..n) /\ Cardinality(1..n) = n
      BY FS_Interval
    <2> QED
      BY <1>1, <2>1 DEF Host
  <1>3. ~(Len(runners) > NHosts)
    BY <1>1, <1>2, FS_PigeonHole
  <1> QED
    BY <1>1, <1>3 DEF FewRunners, Slot

LEMMA FewRunnersHolds == Spec => []FewRunners
  BY FewRunnersStep, InvariantHolds, PoolInvHolds, PTL

\* A task that has a host and whose host has a runner is the runner's.
LEMMA TaskOfRunner ==
  ASSUME IInv, PoolInv, mpc # "assign", Len(runners) <= MinArray, NEW s \in 1..Len(runners),
         NEW t \in Task, HostFor(t, report0[t].host, runners[s])
  PROVE  trunner[t] = Addr(s)
  <1> USE DEF IInv, TypeOK
  <1>1. runners[s] \in Host /\ report0[t].host \in HostName
    BY DEF JobRecord
  <1>2. trunner[t] # Null
    BY <1>1 DEF PoolInv, AssignedInv
  <1>3. /\ trunner[t].slot \in 1..Len(runners)
        /\ HostFor(t, report0[t].host, runners[trunner[t].slot])
    BY <1>2 DEF PoolInv, RunnersInv
  <1>4. runners[trunner[t].slot] = runners[s]
    BY <1>1, <1>3, OneHostFor
  <1>5. trunner[t].slot = s
    BY <1>3, <1>4 DEF PoolInv, RunnersInv
  <1>6. trunner[t].block = block
    BY <1>2 DEF PoolInv, StillInv
  <1> QED
    BY <1>5, <1>6 DEF Addr, Address

\* A thread that has booted goes on until the tasks of its host are done, as long
\* as the array of runners has never grown: all the hosts in use fit in its
\* first capacity.
THEOREM BootedRunnersDrainHolds == Spec => [](Len(runners) <= MinArray => BootedRunnersDrain)
  <1> DEFINE Drain == Len(runners) <= MinArray => BootedRunnersDrain
  <1>1. Init => Drain
    BY DEF Init, BootedRunnersDrain
  <1>2. IInv /\ PoolInv /\ TaskOwnership /\ FewRunners' /\ Drain /\ [Next]_vars => Drain'
    <2> SUFFICES ASSUME IInv, PoolInv, TaskOwnership, FewRunners', Drain, [Next]_vars,
                        Len(runners') <= MinArray,
                        NEW s \in 1..Len(runners'), pc'[s] = "exit", NEW t \in Task,
                        HostFor(t, report0[t].host, runners[s])'
                 PROVE  tstate'[t] = "DONE"
      BY DEF BootedRunnersDrain
    <2> USE DEF IInv, TypeOK
    <2>0. s \in Slot
      BY DEF FewRunners
    <2>1. CASE AssignTask
      <3>1. pc'[s] = pc[s] /\ mpc = "assign"
        BY <2>1 DEF AssignTask, thread_vars
      <3> QED
        BY <2>0, <3>1 DEF ThreadsInv
    <2>2. CASE /\ UNCHANGED <<matches, report0, runners, tstate>>
               /\ pc'[s] = "exit" => pc[s] = "exit"
      <3>1. HostFor(t, report0[t].host, runners[s])
        BY <2>2 DEF HostFor, FirstMatch
      <3> QED
        BY <2>2, <3>1 DEF BootedRunnersDrain
    <2>3. CASE NoRunners \/ PreparePackages \/ Spawn \/ JoinAll \/ UNCHANGED vars
      BY <2>0, <2>2, <2>3
      DEF NoRunners, PreparePackages, Spawn, JoinAll, vars, report_vars, task_vars, array_vars,
          main_vars, thread_vars
    <2>4. ASSUME NEW r \in Slot, Thread(r) PROVE tstate'[t] = "DONE"
      <3>1. UNCHANGED <<matches, report0, runners, nallocs, block, mpc, trunner>> /\ mpc # "assign"
        BY <2>4 DEF ThreadsInv, Thread, Boot, SelectTask, Shutdown, BeginBuild, BeginTest, SkipTest,
                    OpenStep, RunStep, EndStep, RecordStep, FinishTask, Goto, report_vars, task_vars,
                    array_vars, main_vars
      <3>2. s \in 1..Len(runners) /\ HostFor(t, report0[t].host, runners[s])
        BY <3>1 DEF HostFor, FirstMatch
      <3>3. CASE r = s /\ Shutdown(s)
        <4>1. trunner[t] = Addr(s)
          BY <3>1, <3>2, TaskOfRunner
        <4>2. tstate[t] # "PENDING" /\ pc[s] = "select" /\ tstate' = tstate
          BY <3>3, <4>1 DEF Shutdown, Selectable, Goto, task_vars
        <4>3. ASSUME tstate[t] = "RUNNING" PROVE FALSE
          <5>1. PICK u \in Slot : pc[u] \in Working /\ cur[u] = t
            BY <4>3 DEF TaskOwnership
          <5>2. Addr(u) = Addr(s)
            BY <4>1, <5>1 DEF HoldsInv
          <5>3. u = s
            BY <5>2 DEF Addr
          <5> QED
            BY <4>2, <5>1, <5>3 DEF Working
        <4> QED
          BY <4>2, <4>3
      <3>4. CASE ~(r = s /\ Shutdown(s))
        <4>1. pc[s] = "exit"
          <5>1. CASE r = s
            BY <2>4, <3>4, <5>1 DEF Thread, Boot, SelectTask, BeginBuild, BeginTest, SkipTest,
                                    RunStep, EndStep, RecordStep, FinishTask, Goto
          <5>2. CASE r # s
            BY <2>0, <2>4, <5>2, ThreadFrame
          <5> QED
            BY <5>1, <5>2
        <4>2. tstate[t] = "DONE"
          BY <3>1, <3>2, <4>1 DEF BootedRunnersDrain
        <4>3. FinishTask(r) => cur[r] # t
          BY <4>2 DEF FinishTask, Goto, HoldsInv, Working
        <4> QED
          BY <2>4, <4>2, <4>3 DEF Thread, Boot, SelectTask, Selectable, Shutdown, BeginBuild, BeginTest,
                                  SkipTest, OpenStep, RunStep, EndStep, RecordStep, FinishTask, task_vars
      <3> QED
        BY <3>3, <3>4
    <2> QED
      BY <2>1, <2>3, <2>4 DEF Next, Main, Returned
  <1> QED
    BY <1>1, <1>2, InvariantHolds, PoolInvHolds, FewRunnersHolds, OwnershipHolds, PTL DEF Spec
-----------------------------------------------------------------------------
(* Sched implements JobPool.                                               *)

MayOf == [t \in Task |-> Allowed(t)]
WorkersOf == [t \in Task |-> WorkerOf(t)]

LEMMA AllowedIsHost ==
  ASSUME TypeOK, NEW t \in Task
  PROVE  /\ Allowed(t) \in Host \cup {NoHost}
         /\ \A h \in Host \cup {NoHost} : HostFor(t, report0[t].host, h) => Allowed(t) = h
  <1> DEFINE Fits(h) == HostFor(t, report0[t].host, h)
  <1>1. report0[t].host \in HostName
    BY DEF TypeOK, JobRecord
  <1>2. /\ \E h \in Host \cup {NoHost} : Fits(h)
        /\ \A g, h \in Host \cup {NoHost} : Fits(g) /\ Fits(h) => g = h
    BY <1>1, OneHostFor DEF TypeOK
  <1> HIDE DEF Fits
  <1>3. /\ (CHOOSE h \in Host \cup {NoHost} : Fits(h)) \in Host \cup {NoHost}
        /\ Fits(CHOOSE h \in Host \cup {NoHost} : Fits(h))
    BY <1>2
  <1>4. Allowed(t) = CHOOSE h \in Host \cup {NoHost} : Fits(h)
    BY DEF Allowed, Fits
  <1>5. /\ Allowed(t) \in Host \cup {NoHost}
        /\ \A h \in Host \cup {NoHost} : Fits(h) => Allowed(t) = h
    BY <1>2, <1>3, <1>4
  <1> QED
    BY <1>5 DEF Fits

\* The hosts of a selected job do not change during a call.
LEMMA MayStays ==
  ASSUME UNCHANGED <<matches, report0>>
  PROVE  MayOf' = MayOf
  BY DEF MayOf, Allowed, HostFor, FirstMatch

LEMMA PoolStarts == Init => Pool!PoolInit
  <1> SUFFICES ASSUME Init PROVE Pool!PoolInit
    OBVIOUS
  <1>1. MayOf \in [Task -> Host \cup {NoHost}]
    BY InitType, AllowedIsHost DEF MayOf
  <1>2. /\ tstate = [t \in Task |-> "PENDING"]
        /\ WorkersOf = [t \in Task |-> NoHost]
        /\ (mpc # "returned") = TRUE
    BY DEF Init, WorkersOf, WorkerOf
  <1> QED
    BY <1>1, <1>2 DEF Pool!PoolInit, MayOf, WorkersOf

PoolFrame == UNCHANGED <<MayOf, tstate, WorkersOf, mpc # "returned">>

\* A step that only moves a thread or the caller.
LEMMA PoolStutters ==
  ASSUME PoolFrame PROVE UNCHANGED Pool!pool
  BY DEF PoolFrame, Pool!pool, MayOf, WorkersOf

LEMMA AssignStutters ==
  ASSUME IInv, PoolInv, AssignTask PROVE PoolFrame
  <1>1. /\ UNCHANGED <<matches, report0, tstate, mpc>>
        /\ \A t \in Task : tstate[t] = "PENDING"
    BY DEF AssignTask, report_vars, PoolInv, RunnersInv
  <1>2. WorkersOf' = WorkersOf
    BY <1>1 DEF WorkersOf, WorkerOf
  <1> QED
    BY <1>1, <1>2, MayStays DEF PoolFrame

\* The caller returns when no task is running.
LEMMA ReturnCloses ==
  ASSUME IInv, PoolInv, TaskOwnership, NoRunners \/ PreparePackages \/ JoinAll, mpc' = "returned"
  PROVE  Pool!Close
  <1> USE DEF report_vars, task_vars, array_vars, main_vars
  <1>1. /\ UNCHANGED <<matches, report0, tstate, trunner, runners>> /\ mpc # "returned"
    BY DEF NoRunners, PreparePackages, JoinAll
  <1>2. MayOf' = MayOf /\ WorkersOf' = WorkersOf
    BY <1>1, MayStays DEF WorkersOf, WorkerOf
  <1>3. \A t \in Task : tstate[t] # "RUNNING"
    <2>1. CASE mpc = "assign"
      BY <2>1 DEF PoolInv, RunnersInv
    <2>2. CASE JoinAll
      <3> SUFFICES ASSUME NEW t \in Task, tstate[t] = "RUNNING" PROVE FALSE
        OBVIOUS
      <3>1. PICK s \in Slot : pc[s] \in Working /\ cur[s] = t
        BY DEF TaskOwnership
      <3>2. s \in 1..Len(runners)
        BY <3>1 DEF IInv, ThreadsInv, Working
      <3> QED
        BY <2>2, <3>1, <3>2 DEF JoinAll, Working
    <2> QED
      BY <2>1, <2>2 DEF NoRunners, PreparePackages
  <1> QED
    BY <1>1, <1>2, <1>3 DEF Pool!Close, MayOf, WorkersOf

LEMMA SelectTakes ==
  ASSUME IInv, PoolInv, TaskOwnership, EndedInv, NEW s \in Slot, SelectTask(s)
  PROVE  \E w \in Host, t \in Task : Pool!Take(w, t)
  <1> USE DEF IInv, TypeOK, report_vars, task_vars, array_vars, main_vars
  <1>1. PICK t \in Selectable(s) :
           /\ cur' = [cur EXCEPT ![s] = t]
           /\ tstate' = [tstate EXCEPT ![t] = "RUNNING"]
    BY DEF SelectTask
  <1>2. /\ t \in Task /\ tstate[t] = "PENDING" /\ trunner[t] = Addr(s)
        /\ pc[s] = "select" /\ UNCHANGED <<matches, report0, trunner, runners, mpc>>
    BY <1>1 DEF Selectable, SelectTask, Goto
  <1>3. s \in 1..Len(runners) /\ runners[s] \in Host /\ mpc # "returned"
    BY <1>2 DEF ThreadsInv, EndedInv
  <1>4. trunner[t].slot = s /\ trunner[t] # Null
    BY <1>2 DEF Addr, Null
  <1>5. MayOf[t] = runners[s]
    <2>1. HostFor(t, report0[t].host, runners[s])
      BY <1>2, <1>4 DEF PoolInv, RunnersInv
    <2> QED
      BY <1>2, <1>3, <2>1, AllowedIsHost DEF MayOf
  <1>6. \A j \in Task : ~(WorkersOf[j] = runners[s] /\ tstate[j] = "RUNNING")
    <2> SUFFICES ASSUME NEW j \in Task, WorkersOf[j] = runners[s], tstate[j] = "RUNNING"
                 PROVE  FALSE
      OBVIOUS
    <2>1. PICK r \in Slot : pc[r] \in Working /\ cur[r] = j
      BY DEF TaskOwnership
    <2>2. trunner[j] = Addr(r) /\ r \in 1..Len(runners)
      BY <2>1 DEF HoldsInv, ThreadsInv, Working
    <2>3. runners[r] = runners[s]
      BY <2>2 DEF WorkersOf, WorkerOf, Addr
    <2>4. r = s
      BY <1>3, <2>2, <2>3 DEF PoolInv, RunnersInv
    <2> QED
      BY <1>2, <2>1, <2>4 DEF Working
  <1>7. WorkersOf' = [WorkersOf EXCEPT ![t] = runners[s]]
    BY <1>1, <1>2, <1>4 DEF WorkersOf, WorkerOf
  <1>8. MayOf' = MayOf
    BY <1>2, MayStays
  <1>9. Pool!Take(runners[s], t)
    BY <1>1, <1>2, <1>3, <1>5, <1>6, <1>7, <1>8 DEF Pool!Take, Pool!Busy, MayOf, WorkersOf
  <1> QED
    BY <1>2, <1>3, <1>9

LEMMA FinishCompletes ==
  ASSUME IInv, EndedInv, NEW s \in Slot, FinishTask(s)
  PROVE  \E t \in Task : Pool!Complete(t)
  <1> USE DEF IInv, TypeOK, report_vars, task_vars, array_vars, main_vars
  <1>1. /\ cur[s] \in Task /\ tstate[cur[s]] = "RUNNING"
        /\ tstate' = [tstate EXCEPT ![cur[s]] = "DONE"]
        /\ UNCHANGED <<matches, report0, trunner, runners, mpc>> /\ mpc # "returned"
    BY DEF FinishTask, Goto, HoldsInv, EndedInv, Working
  <1>2. WorkersOf' = WorkersOf
    BY <1>1 DEF WorkersOf, WorkerOf
  <1>3. MayOf' = MayOf
    BY <1>1, MayStays
  <1>4. Pool!Complete(cur[s])
    BY <1>1, <1>2, <1>3 DEF Pool!Complete, MayOf, WorkersOf
  <1> QED
    BY <1>1, <1>4

\* sched_start keeps the promise of JobPool for any number of jobs and hosts: a job
\* is taken at most once, by the one host that may run it, which runs one job at a
\* time, and sched_start returns when none is running.
THEOREM SchedImplementsJobPool == Spec => ImplementsJobPool
  <1>1. IInv /\ PoolInv /\ TaskOwnership /\ EndedInv /\ [Next]_vars => [Pool!PoolNext]_Pool!pool
    <2> SUFFICES ASSUME IInv, PoolInv, TaskOwnership, EndedInv, [Next]_vars
                 PROVE  Pool!PoolNext \/ UNCHANGED Pool!pool
      OBVIOUS
    <2> USE DEF report_vars, task_vars, array_vars, main_vars
    <2>1. CASE AssignTask
      BY <2>1, AssignStutters, PoolStutters
    <2>2. CASE (NoRunners \/ PreparePackages \/ JoinAll) /\ mpc' = "returned"
      BY <2>2, ReturnCloses DEF Pool!PoolNext
    <2>3. CASE /\ UNCHANGED <<matches, report0, tstate, trunner, runners>>
               /\ (mpc' # "returned") = (mpc # "returned")
      <3>1. MayOf' = MayOf /\ WorkersOf' = WorkersOf
        BY <2>3, MayStays DEF WorkersOf, WorkerOf
      <3> QED
        BY <2>3, <3>1, PoolStutters DEF PoolFrame
    <2>4. CASE (PreparePackages /\ mpc' # "returned") \/ Spawn \/ UNCHANGED vars
      BY <2>3, <2>4 DEF PreparePackages, Spawn, vars
    <2>5. ASSUME NEW s \in Slot, Thread(s) PROVE Pool!PoolNext \/ UNCHANGED Pool!pool
      <3>1. CASE SelectTask(s)
        BY <3>1, SelectTakes DEF Pool!PoolNext
      <3>2. CASE FinishTask(s)
        BY <3>2, FinishCompletes DEF Pool!PoolNext
      <3>3. CASE ~SelectTask(s) /\ ~FinishTask(s)
        BY <2>3, <2>5, <3>3 DEF Thread, Boot, Shutdown, BeginBuild, BeginTest, SkipTest, OpenStep,
                                RunStep, EndStep, RecordStep
      <3> QED
        BY <3>1, <3>2, <3>3
    <2> QED
      BY <2>1, <2>2, <2>4, <2>5 DEF Next, Main, NoRunners, JoinAll, Returned
  <1> QED
    BY PoolStarts, <1>1, InvariantHolds, PoolInvHolds, OwnershipHolds, EndedInvHolds, PTL
    DEF Spec, ImplementsJobPool, Pool!PoolSpec
==============================================================================
