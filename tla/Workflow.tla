------------------------------- MODULE Workflow -------------------------------
(***************************************************************************)
(* One flow of nbuild over its whole life: the runs of i_run               *)
(* (src/nbuild/workflow.c) one after the other, with the report they load  *)
(* from the drive and save there (src/nbuild/report.c), the packages       *)
(* (src/nbuild/target.c) and the documentation (src/nbuild/prdoc.c).       *)
(*                                                                         *)
(* Between runs, and during them, the repositories get new versions and    *)
(* the user edits workflow.json.  A run can fail at any stage and can be   *)
(* killed at any point: only what reached the drive, and the lock file,    *)
(* outlive it.  Files are copied to the drive in place, so that a failure  *)
(* or a kill in a copy leaves a file that is cut.  The commands of svn may *)
(* fail with nobody seeing it.  sched_start is one step here; Sched models *)
(* its inside.                                                             *)
(*                                                                         *)
(* Loop ids matter to the code only through the question of whether an     *)
(* event was done in the current loop, so an event is marked "now" or      *)
(* "before", and loading a report (report_loop_incr) turns "now" into      *)
(* "before".                                                               *)
(***************************************************************************)
EXTENDS Integers, Sequences, FiniteSets

CONSTANTS
    Item,         \* names of sources and tests
    Dest,         \* target->dest: where each goes, as the first item that goes there
    BuildTxt,     \* the file target_build_file adds to the sources
    JobName,      \* names of jobs
    Priority,     \* job->priority
    Hosted,       \* the jobs some host of the network can run
    Workflows,    \* the contents workflow.json can have
    Forces,       \* the jobs the option -j can match; {} is a run without -j
    MaxVers,      \* bound on the versions of the repository
    MaxDocVers,   \* bound on the versions of the documentation repository
    MaxFaults     \* bound on failures, crashes and hosts that do not boot

Vers        == 1..MaxVers
DocVers     == 1..MaxDocVers
Kind        == {"src", "test"}
Mark        == {"none", "now", "before"}
Hole(i)     == <<"hole", i>>   \* an item svn has not given, or not whole
Content     == Item \cup {BuildTxt} \cup {Hole(i) : i \in Item}
Package     == [there : BOOLEAN, items : SUBSET Content]
NoPackage   == [there |-> FALSE, items |-> {}]
MaxPriority == 50       \* max_priority of report_select_jobs

Workflow ==
    [src : SUBSET Item, test : SUBSET Item, build : BOOLEAN, doc : BOOLEAN,
     hosting : BOOLEAN, jobs : Seq(JobName)]

ASSUME WorkflowAssumption ==
    /\ BuildTxt \notin Item
    /\ Dest \in [Item -> Item]
    /\ Priority \in [JobName -> Nat]
    /\ Hosted \subseteq JobName
    /\ Workflows \subseteq Workflow
    /\ IsFiniteSet(JobName)
    /\ \A w \in Workflows :
          /\ w.src \cup w.test # {}
          /\ \A m, n \in 1..Len(w.jobs) : w.jobs[m] = w.jobs[n] => m = n
    /\ Workflows # {}
    /\ Forces \subseteq SUBSET JobName
    /\ Forces # {}
    /\ MaxVers \in Nat \ {0} /\ MaxDocVers \in Nat \ {0} /\ MaxFaults \in Nat

VARIABLES
    repo, docRepo,  \* the current versions of the two repositories
    file,           \* the content of workflow.json
    lock,           \* the lock file exists
    stored, torn,   \* the versions whose report.json is on the drive, whole or cut
    saved,          \* report.json on the drive, for each version
    pkg,            \* src.tar and test.tar on the drive, for each version
    docFiles,       \* what the drive holds of each version of the documentation
    uploaded,       \* the versions of the documentation on the hosting
    tmp,            \* what the temporal folders src and test hold
    pc,             \* the stage of the run
    vers, docv,     \* the versions the run works on
    wf, forced,     \* the workflow it has read, the jobs its -j matches
    report,         \* the report in memory
    compiled,       \* history: the versions whose jobs have been started
    faults          \* failures still to come

env_vars   == <<repo, docRepo, file>>
drive_vars == <<stored, torn, saved, pkg, docFiles, uploaded>>
run_vars   == <<vers, docv, wf, forced>>
vars == <<env_vars, lock, drive_vars, tmp, pc, run_vars, report, compiled, faults>>

-----------------------------------------------------------------------------
(* The report.                                                             *)

Report ==
    [item : [Kind -> [Item -> Mark]],   \* by where they go; "none": not in it
     build : Mark,
     tar : [Kind -> Mark],
     doc : [DocVers -> Mark],
     position : [JobName -> Nat],       \* from 1 in report->jobs; 0: not in it
     done : [JobName -> BOOLEAN]]       \* i_is_done of the build step

NewReport ==
    [item |-> [k \in Kind |-> [i \in Item |-> "none"]],
     build |-> "none",
     tar |-> [k \in Kind |-> "none"],
     doc |-> [d \in DocVers |-> "none"],
     position |-> [j \in JobName |-> 0],
     done |-> [j \in JobName |-> FALSE]]

Older(mark) == IF mark = "now" THEN "before" ELSE mark

\* report_loop_incr: what was done belongs to an earlier loop from now on.
NextLoop(r) ==
    [item |-> [k \in Kind |-> [i \in Item |-> Older(r.item[k][i])]],
     build |-> Older(r.build),
     tar |-> [k \in Kind |-> Older(r.tar[k])],
     doc |-> [d \in DocVers |-> Older(r.doc[d])],
     position |-> r.position,
     done |-> r.done]

\* Mutant of CanStartJobs: done in this very loop is enough.
CanStartJobsAtOnce(r) ==
    /\ r.build # "none"
    /\ r.tar["src"] # "none"
    /\ wf.doc => r.doc[docv] # "none"

\* report_can_start_jobs, for the workflow and the documentation of the run.
CanStartJobs(r) ==
    /\ \A k \in Kind, i \in Item : r.item[k][i] # "now"
    /\ r.build = "before"
    /\ r.tar["src"] = "before"
    /\ wf.doc => r.doc[docv] = "before"

WorkflowJobs == {wf.jobs[n] : n \in 1..Len(wf.jobs)}
Known(r)     == {j \in JobName : r.position[j] # 0}

\* How many new jobs the workflow has up to the job j.
Rank(r, j) ==
    LET index == CHOOSE n \in 1..Len(wf.jobs) : wf.jobs[n] = j
    IN  Cardinality({wf.jobs[n] : n \in 1..index} \ Known(r))

\* i_add_job, for every job of the workflow: the new ones come after the jobs
\* the report has, in the order of the workflow.
WithJobs(r) ==
    [r EXCEPT !.position = [j \in JobName |->
        IF j \in WorkflowJobs \ Known(r) THEN Cardinality(Known(r)) + Rank(r, j) ELSE @[j]]]

\* report_select_jobs: the pending jobs of the first priority that has any.
Pending(r) == {j \in WorkflowJobs : ~r.done[j] /\ Priority[j] \in 1..MaxPriority}

\* Mutant of SelectJobs: every priority at once.
SelectAllJobs(r) == Pending(r)

SelectJobs(r) == {j \in Pending(r) : \A i \in Pending(r) : Priority[j] <= Priority[i]}

\* report_select_jobs or report_force_jobs.
Selected(r) == IF forced = {} THEN SelectJobs(r) ELSE forced \cap WorkflowJobs

\* Mutant of Built: forcing some jobs opens every job again.
BuiltAnew(r, built) ==
    [r EXCEPT !.done = [j \in JobName |-> IF forced # {} THEN j \in built
                                          ELSE @[j] \/ j \in built]]

\* The report after sched_start has built some of the selected jobs.  Forcing a
\* job has opened its build again.
Built(r, built) ==
    [r EXCEPT !.done = [j \in JobName |-> IF j \in Selected(r) THEN j \in built ELSE @[j]]]

-----------------------------------------------------------------------------
Init ==
    /\ repo = 1 /\ docRepo = 1
    /\ file \in Workflows
    /\ lock = FALSE
    /\ stored = {} /\ torn = {}
    /\ saved = [v \in Vers |-> NewReport]
    /\ pkg = [v \in Vers |-> [k \in Kind |-> NoPackage]]
    /\ docFiles = [d \in DocVers |-> {}]
    /\ uploaded = {}
    /\ tmp = [k \in Kind |-> {}]
    /\ pc = "idle"
    /\ vers = 1 /\ docv = 1
    /\ wf = file
    /\ forced = {}
    /\ report = NewReport
    /\ compiled = {}
    /\ faults = MaxFaults

-----------------------------------------------------------------------------
(* The world around nbuild.                                                *)

Commit ==
    /\ repo < MaxVers
    /\ repo' = repo + 1
    /\ UNCHANGED <<docRepo, file, lock, drive_vars, tmp, pc, run_vars, report, compiled, faults>>

CommitDoc ==
    /\ docRepo < MaxDocVers
    /\ docRepo' = docRepo + 1
    /\ UNCHANGED <<repo, file, lock, drive_vars, tmp, pc, run_vars, report, compiled, faults>>

EditWorkflow ==
    /\ file' \in Workflows \ {file}
    /\ UNCHANGED <<repo, docRepo, lock, drive_vars, tmp, pc, run_vars, report, compiled, faults>>

\* The operator removes the lock file of a run that was killed.
RemoveLock ==
    /\ pc = "idle" /\ lock
    /\ lock' = FALSE
    /\ UNCHANGED <<env_vars, drive_vars, tmp, pc, run_vars, report, compiled, faults>>

-----------------------------------------------------------------------------
(* The stages of i_run.                                                    *)

Goto(from, to) == pc = from /\ pc' = to

\* Nothing of the run stays in memory.
Forget ==
    /\ vers' = 1 /\ docv' = 1 /\ forced' = {} /\ report' = NewReport
    /\ wf' = file

\* Mutant of Start: the version after the current one is asked for.
StartAhead ==
    /\ Goto("idle", "lock")
    /\ wf' = file
    /\ vers' = repo + 1 /\ docv' = docRepo
    /\ forced' \in Forces
    /\ UNCHANGED <<env_vars, lock, drive_vars, tmp, report, compiled, faults>>

\* workflow.json is read, its targets and jobs are checked, and the versions
\* to build are asked for.  A run these checks refuse leaves nothing behind.
Start ==
    /\ Goto("idle", "lock")
    /\ wf' = file
    /\ vers' = repo /\ docv' = docRepo
    /\ forced' \in Forces
    /\ UNCHANGED <<env_vars, lock, drive_vars, tmp, report, compiled, faults>>

\* i_create_temp_paths: the folder of the earlier run goes, with all it held.
CreateTempPaths ==
    /\ Goto("lock", "load")
    /\ ~lock
    /\ lock' = TRUE
    /\ tmp' = [k \in Kind |-> {}]
    /\ UNCHANGED <<env_vars, drive_vars, run_vars, report, compiled, faults>>

\* The lock file exists: the run gives up and leaves the file alone.
Refused ==
    /\ Goto("lock", "idle")
    /\ lock
    /\ Forget
    /\ UNCHANGED <<env_vars, lock, drive_vars, tmp, compiled, faults>>

\* Mutant of LoadReport: the loop id stays.
LoadSameLoop ==
    /\ Goto("load", "src")
    /\ vers \notin torn
    /\ report' = IF vers \in stored THEN saved[vers] ELSE NewReport
    /\ UNCHANGED <<env_vars, lock, drive_vars, tmp, run_vars, compiled, faults>>

\* The report of the drive, in its next loop; or a new one.
LoadReport ==
    /\ Goto("load", "src")
    /\ vers \notin torn
    /\ report' = IF vers \in stored THEN NextLoop(saved[vers]) ELSE NewReport
    /\ UNCHANGED <<env_vars, lock, drive_vars, tmp, run_vars, compiled, faults>>

\* json_read returns NULL for a file that is cut, and the run dies of it at the
\* assertion, or in report_loop_incr; the lock stays.
LoadTorn ==
    /\ Goto("load", "idle")
    /\ vers \in torn
    /\ Forget
    /\ UNCHANGED <<env_vars, lock, drive_vars, tmp, compiled, faults>>

\* The targets (or tests) of the workflow that go where the report knows of none.
ToCopy(k) == {i \in wf[k] : report.item[k][Dest[i]] = "none"}

\* target_target on one of them.  ssh_repo_is_dir, ssh_repo_list and ssh_repo_cat
\* do not look at the exit status of svn: what it fails to give is missing in the
\* folder, or an empty file, and the event is done all the same.
CopyTarget(k) ==
    /\ pc = k
    /\ \E i \in ToCopy(k) :
          /\ report' = [report EXCEPT !.item[k][Dest[i]] = "now"]
          /\ \/ /\ tmp' = [tmp EXCEPT ![k] = @ \cup {i}]
                /\ UNCHANGED faults
             \/ /\ tmp' = [tmp EXCEPT ![k] = @ \cup {Hole(i)}]
                /\ faults > 0 /\ faults' = faults - 1
    /\ UNCHANGED <<env_vars, lock, drive_vars, pc, run_vars, compiled>>

AllCopied(k) ==
    /\ Goto(k, IF k = "src" THEN "test" ELSE "build")
    /\ ToCopy(k) = {}
    /\ UNCHANGED <<env_vars, lock, drive_vars, tmp, run_vars, report, compiled, faults>>

\* target_build_file: a workflow without 'build' skips it, and its event with it.
BuildFile ==
    /\ Goto("build", "tar_src")
    /\ IF wf.build /\ report.build = "none"
       THEN /\ report' = [report EXCEPT !.build = "now"]
            /\ tmp' = [tmp EXCEPT !["src"] = @ \cup {BuildTxt}]
       ELSE UNCHANGED <<report, tmp>>
    /\ UNCHANGED <<env_vars, lock, drive_vars, run_vars, compiled, faults>>

\* target_tar, skipped when its event is done.
Tar(k) ==
    IF report.tar[k] = "none"
    THEN /\ report' = [report EXCEPT !.tar[k] = "now"]
         /\ pkg' = [pkg EXCEPT ![vers][k] = [there |-> TRUE, items |-> tmp[k]]]
    ELSE UNCHANGED <<report, pkg>>

\* A failure that the run sees, or a kill, in the middle of a copy to the drive.
Interrupted ==
    /\ faults > 0 /\ faults' = faults - 1
    /\ \/ pc' = "unlock" /\ UNCHANGED <<run_vars, report>>
       \/ pc' = "idle" /\ Forget
    /\ UNCHANGED <<env_vars, lock, tmp, compiled>>

\* ssh_copy puts the package in the place of the old one, and stops half-way.
CutTar(k) ==
    /\ pc = (IF k = "src" THEN "tar_src" ELSE "tar_test")
    /\ report.tar[k] = "none" /\ (k = "test" => wf.test # {})
    /\ pkg' = [pkg EXCEPT ![vers][k] = [there |-> TRUE, items |-> {}]]
    /\ Interrupted
    /\ UNCHANGED <<stored, torn, saved, docFiles, uploaded>>

TarSources ==
    /\ Goto("tar_src", "tar_test")
    /\ Tar("src")
    /\ UNCHANGED <<env_vars, lock, stored, torn, saved, docFiles, uploaded, tmp, run_vars, compiled, faults>>

TarTests ==
    /\ Goto("tar_test", "doc")
    /\ IF wf.test # {} THEN Tar("test") ELSE UNCHANGED <<report, pkg>>
    /\ UNCHANGED <<env_vars, lock, stored, torn, saved, docFiles, uploaded, tmp, run_vars, compiled, faults>>

\* i_generate_doc takes the documentation from the drive when both logs of
\* ndoc are there.
InCache(d) == {"stdout", "stderr"} \subseteq docFiles[d]

DocDone == report' = [report EXCEPT !.doc[docv] = "now"]

SkipDoc ==
    /\ Goto("doc", "jobs")
    /\ ~wf.doc \/ report.doc[docv] # "none"
    /\ UNCHANGED <<env_vars, lock, drive_vars, tmp, run_vars, report, compiled, faults>>

DocFromCache ==
    /\ Goto("doc", "jobs")
    /\ wf.doc /\ report.doc[docv] = "none"
    /\ InCache(docv)
    /\ DocDone
    /\ UNCHANGED <<env_vars, lock, drive_vars, tmp, run_vars, compiled, faults>>

\* ndoc runs, and the package with the site goes to the drive, then its two
\* logs, one after the other.
StoreDoc(from, name, to) ==
    /\ Goto(from, to)
    /\ docFiles' = [docFiles EXCEPT ![docv] = @ \cup {name}]
    /\ UNCHANGED <<env_vars, lock, stored, torn, saved, pkg, uploaded, tmp, run_vars, report, compiled, faults>>

\* Mutant of GenerateDoc: the copy of the site is forgotten.
GenerateDocLogs ==
    /\ wf.doc /\ report.doc[docv] = "none"
    /\ ~InCache(docv)
    /\ StoreDoc("doc", "stdout", "doc_stdout")

GenerateDoc ==
    /\ wf.doc /\ report.doc[docv] = "none"
    /\ ~InCache(docv)
    /\ StoreDoc("doc", "web", "doc_stdout")

\* The copy of the site stops half-way; half a log is there like a whole one, as
\* after StoreStdout or StoreStderr with a failure behind.
CutSite ==
    /\ pc = "doc" /\ wf.doc /\ report.doc[docv] = "none"
    /\ ~InCache(docv)
    /\ docFiles' = [docFiles EXCEPT ![docv] = @ \ {"web"}]
    /\ Interrupted
    /\ UNCHANGED <<stored, torn, saved, pkg, uploaded>>

StoreStdout == StoreDoc("doc_stdout", "stdout", "doc_stderr")
StoreStderr == StoreDoc("doc_stderr", "stderr", "doc_upload")

UploadDoc ==
    /\ Goto("doc_upload", "jobs")
    /\ uploaded' = IF wf.hosting THEN uploaded \cup {docv} ELSE uploaded
    /\ DocDone
    /\ UNCHANGED <<env_vars, lock, stored, torn, saved, pkg, docFiles, tmp, run_vars, compiled, faults>>

\* The jobs wait for the sources and the documentation of earlier loops.
SkipJobs ==
    /\ Goto("jobs", "save")
    /\ ~CanStartJobs(report)
    /\ UNCHANGED <<env_vars, lock, drive_vars, tmp, run_vars, report, compiled, faults>>

\* Selection and sched_start.  Jobs without a host stay pending; the others are
\* built, unless their host does not boot or the package cannot be copied.
RunJobs ==
    /\ Goto("jobs", "save")
    /\ CanStartJobs(report)
    /\ LET r == WithJobs(report)
           runnable == Selected(r) \cap Hosted
       IN  \E built \in SUBSET runnable :
              /\ IF built = runnable THEN UNCHANGED faults
                 ELSE faults > 0 /\ faults' = faults - 1
              /\ report' = Built(r, built)
              /\ compiled' = IF runnable = {} THEN compiled ELSE compiled \cup {vers}
    /\ UNCHANGED <<env_vars, lock, drive_vars, tmp, run_vars>>

\* report_loop_end and i_save_report, whose failure is only logged; then the
\* web report, whose outcome changes nothing the flow depends on.
SaveReport ==
    /\ Goto("save", "unlock")
    /\ \/ /\ stored' = stored \cup {vers}
          /\ saved' = [saved EXCEPT ![vers] = report]
          /\ UNCHANGED faults
       \/ /\ faults > 0 /\ faults' = faults - 1
          /\ UNCHANGED <<stored, saved>>
    /\ UNCHANGED <<env_vars, lock, torn, pkg, docFiles, uploaded, tmp, run_vars, report, compiled>>

\* ssh_to_file writes over the report of the drive, and stops half-way.
CutReport ==
    /\ pc = "save"
    /\ torn' = torn \cup {vers}
    /\ stored' = stored \ {vers}
    /\ saved' = [saved EXCEPT ![vers] = NewReport]
    /\ Interrupted
    /\ UNCHANGED <<pkg, docFiles, uploaded>>

Unlock ==
    /\ Goto("unlock", "idle")
    /\ lock' = FALSE
    /\ Forget
    /\ UNCHANGED <<env_vars, drive_vars, tmp, compiled, faults>>

-----------------------------------------------------------------------------
(* What goes wrong.                                                        *)

Fallible == {"load", "src", "test", "build", "tar_src", "tar_test",
             "doc", "doc_stdout", "doc_stderr", "doc_upload"}

\* Mutant of Fail: the report of a failed run is kept.
FailSaved ==
    /\ faults > 0 /\ faults' = faults - 1
    /\ pc \in Fallible
    /\ pc' = "save"
    /\ UNCHANGED <<env_vars, lock, drive_vars, tmp, run_vars, report, compiled>>

\* A stage fails: the report in memory is dropped and the lock is removed.
Fail ==
    /\ faults > 0 /\ faults' = faults - 1
    /\ pc \in Fallible
    /\ pc' = "unlock"
    /\ UNCHANGED <<env_vars, lock, drive_vars, tmp, run_vars, report, compiled>>

\* The process is killed, or the machine goes down.
Crash ==
    /\ faults > 0 /\ faults' = faults - 1
    /\ pc # "idle"
    /\ pc' = "idle"
    /\ Forget
    /\ UNCHANGED <<env_vars, lock, drive_vars, tmp, compiled>>

-----------------------------------------------------------------------------
Stage ==
    \/ CreateTempPaths \/ Refused \/ LoadReport \/ LoadTorn
    \/ \E k \in Kind : CopyTarget(k) \/ AllCopied(k)
    \/ BuildFile \/ TarSources \/ TarTests
    \/ SkipDoc \/ DocFromCache \/ GenerateDoc \/ StoreStdout \/ StoreStderr \/ UploadDoc
    \/ SkipJobs \/ RunJobs \/ SaveReport \/ Unlock

Cut == (\E k \in Kind : CutTar(k)) \/ CutSite \/ CutReport

Next ==
    \/ Commit \/ CommitDoc \/ EditWorkflow \/ RemoveLock
    \/ Start \/ Stage \/ Fail \/ Crash \/ Cut

Spec == Init /\ [][Next]_vars

\* nbuild is run again and again, a run goes on until it ends, and the operator
\* clears a stale lock file in the end.
Fairness == WF_vars(Start) /\ WF_vars(Stage) /\ SF_vars(RemoveLock)

FairSpec == Spec /\ Fairness

-----------------------------------------------------------------------------
(* Properties.                                                             *)

Stages == Fallible \cup {"idle", "lock", "jobs", "save", "unlock"}

\* The type invariant of the flow.
TypeOK ==
    /\ repo \in Vers /\ docRepo \in DocVers
    /\ file \in Workflows /\ wf \in Workflows
    /\ lock \in BOOLEAN
    /\ stored \subseteq Vers /\ torn \subseteq Vers
    /\ saved \in [Vers -> Report]
    /\ pkg \in [Vers -> [Kind -> Package]]
    /\ docFiles \in [DocVers -> SUBSET {"web", "stdout", "stderr"}]
    /\ uploaded \subseteq DocVers
    /\ tmp \in [Kind -> SUBSET Content]
    /\ pc \in Stages
    /\ vers \in Vers /\ docv \in DocVers
    /\ forced \subseteq JobName
    /\ report \in Report
    /\ compiled \subseteq Vers
    /\ faults \in 0..MaxFaults

\* Once a job of a version has been started, the source package of that version
\* never changes: every job of a version, in whatever loop and after whatever
\* failure or crash, compiles the same sources (report_can_start_jobs waits for
\* an earlier loop, so that the report that says "packed" is already saved).
PackageFrozen ==
    [][\A v \in compiled : pkg'[v]["src"] = pkg[v]["src"]]_vars

JobsStart == pc = "jobs" /\ CanStartJobs(report)

\* Some source of the workflow w for every place that one goes to, or the hole svn
\* has left of it, and the file 'build'.
HasSources(w, items) ==
    /\ w.build => BuildTxt \in items
    /\ \A i \in w.src : \E j \in w.src : Dest[j] = Dest[i] /\ {j, Hole(j)} \cap items # {}

\* When jobs start, the package on the drive is that of the workflow, whatever was
\* cut, lost and left behind by the runs before: it lacks nothing but what svn
\* failed to give unseen, and a source that goes where another one went.
PackageHoldsWorkflow == JobsStart => HasSources(wf, pkg[vers]["src"].items)

\* README.md:25: priorities are stages.  In every report on the drive a job is
\* done only if the jobs of every smaller priority are.
PriorityOrder ==
    \A v \in stored :
        \A i, j \in Known(saved[v]) :
            (Priority[i] < Priority[j] /\ saved[v].done[j] /\ Priority[i] > 0)
                => saved[v].done[i]

\* A job the drive knows as done is not forgotten by a later loop, nor by a run
\* that fails or is killed anywhere but in the copy of report.json, unless -j
\* asked for the job (report_force_jobs).  A cut report is not taken for one that
\* knows less: no run gets past it.
DoneIsKept ==
    [][\A v \in stored, j \in JobName :
          saved[v].done[j] => v \in torn' \/ saved'[v].done[j] \/ j \in forced]_vars

\* What i_generate_doc takes for granted when it finds the two logs of ndoc on
\* the drive: the generated site is there.
CachedDocIsStored ==
    \A d \in DocVers : InCache(d) => "web" \in docFiles[d]

\* prdoc.c:459 "Upload documentation to hosting website": documentation the
\* report says is done has been uploaded, when there is a hosting.
DocIsUploaded ==
    \A v \in stored, d \in DocVers :
        (file.hosting /\ saved[v].doc[d] # "none") => d \in uploaded

\* Jobs that are not behind a job without a host; none without the file 'build', for
\* whose event report_can_start_jobs always waits.
Reachable ==
    {j \in JobName :
        /\ file.build
        /\ Priority[j] \in 1..MaxPriority
        /\ \E n \in 1..Len(file.jobs) : file.jobs[n] = j
        /\ j \in Hosted
        /\ \A n \in 1..Len(file.jobs) :
              Priority[file.jobs[n]] \in 1..(Priority[j] - 1) => file.jobs[n] \in Hosted}

\* Every reachable job of the last version is done in the end: failed and killed
\* runs, cut packages, new versions and hosts that stay off only delay it, unless
\* the report of that version was cut.
JobsGetDone ==
    <>[](repo \in torn \/ \A j \in Reachable : saved[repo].done[j])
==============================================================================
