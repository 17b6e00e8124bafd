---------------------------- MODULE WorkflowProofs ----------------------------
(***************************************************************************)
(* Proofs about Workflow for any workflows, edits and options -j, any      *)
(* number of versions and any number of failures and crashes.              *)
(***************************************************************************)
EXTENDS Workflow, FiniteSetTheorems, TLAPS

-----------------------------------------------------------------------------
(* The operators on reports return reports.                                *)

LEMMA NewReportType == NewReport \in Report
  BY DEF NewReport, Report, Mark

LEMMA NextLoopType == ASSUME NEW r \in Report PROVE NextLoop(r) \in Report
  <1>1. \A m \in Mark : Older(m) \in Mark
    BY DEF Older, Mark
  <1> QED
    BY <1>1 DEF NextLoop, Report

LEMMA WithJobsType ==
  ASSUME wf \in Workflows, NEW r \in Report PROVE WithJobs(r) \in Report
  <1>1. IsFiniteSet(Known(r))
    BY WorkflowAssumption, FS_Subset DEF Known
  <1>2. Cardinality(Known(r)) \in Nat
    BY <1>1, FS_CardinalityType
  <1>3. \A j \in WorkflowJobs : Rank(r, j) \in Nat
    <2> SUFFICES ASSUME NEW j \in WorkflowJobs PROVE Rank(r, j) \in Nat
      OBVIOUS
    <2> DEFINE index == CHOOSE n \in 1..Len(wf.jobs) : wf.jobs[n] = j
               new == {wf.jobs[n] : n \in 1..index} \ Known(r)
    <2>1. index \in 1..Len(wf.jobs)
      BY DEF WorkflowJobs
    <2>2. wf.jobs \in Seq(JobName)
      BY WorkflowAssumption DEF Workflow
    <2> HIDE DEF index
    <2>3. new \subseteq JobName
      BY <2>1, <2>2
    <2>4. IsFiniteSet(new)
      BY <2>3, WorkflowAssumption, FS_Subset
    <2>5. Cardinality(new) \in Nat
      BY <2>4, FS_CardinalityType
    <2> QED
      BY <2>5 DEF Rank, index
  <1> QED
    BY <1>2, <1>3 DEF WithJobs, Report

LEMMA BuiltType ==
  ASSUME NEW r \in Report, NEW built \in SUBSET JobName
  PROVE  Built(r, built) \in Report
  <1> DEFINE done == [j \in JobName |-> IF j \in Selected(r) THEN j \in built ELSE r.done[j]]
  <1>1. r.done \in [JobName -> BOOLEAN]
    BY DEF Report
  <1>2. \A j \in JobName : r.done[j] \in BOOLEAN
    BY <1>1
  <1>3. \A j \in JobName :
           (IF j \in Selected(r) THEN j \in built ELSE r.done[j]) \in BOOLEAN
    <2> TAKE j \in JobName
    <2>1. (j \in built) \in BOOLEAN
      OBVIOUS
    <2>2. CASE j \in Selected(r)
      BY <2>1, <2>2, Zenon
    <2>3. CASE j \notin Selected(r)
      BY <1>2, <2>3, Zenon
    <2> QED
      BY <2>2, <2>3
  <1>4. done \in [JobName -> BOOLEAN]
    BY <1>3, Zenon
  <1> HIDE DEF done
  <1>5. [r EXCEPT !.done = done] \in Report
    BY <1>4 DEF Report
  <1> QED
    BY <1>5 DEF Built, done

\* What a cut copy leaves in memory: the run of before, or none.
LEMMA InterruptedType ==
  ASSUME TypeOK, Interrupted
  PROVE  /\ pc' \in Stages /\ faults' \in 0..MaxFaults
         /\ vers' \in Vers /\ docv' \in DocVers /\ wf' \in Workflows
         /\ forced' \subseteq JobName /\ report' \in Report
         /\ UNCHANGED <<repo, docRepo, file, lock, tmp, compiled>>
  <1>1. 1 \in Vers /\ 1 \in DocVers
    BY WorkflowAssumption DEF Vers, DocVers
  <1>2. pc' \in Stages /\ faults' \in 0..MaxFaults
    BY WorkflowAssumption DEF Interrupted, TypeOK, Stages
  <1>3. UNCHANGED <<repo, docRepo, file, lock, tmp, compiled>>
    BY DEF Interrupted, env_vars
  <1>4. CASE UNCHANGED <<run_vars, report>>
    BY <1>2, <1>3, <1>4 DEF TypeOK, run_vars
  <1>5. CASE Forget
    BY <1>1, <1>2, <1>3, <1>5, NewReportType DEF TypeOK, Forget
  <1> QED
    BY <1>4, <1>5 DEF Interrupted

\* Copying a target, adding the file 'build' or packing changes one mark.
LEMMA MarkedType ==
  ASSUME NEW r \in Report, NEW k \in Kind
  PROVE  /\ \A i \in Item : [r EXCEPT !.item[k][i] = "now"] \in Report
         /\ [r EXCEPT !.build = "now"] \in Report
         /\ [r EXCEPT !.tar[k] = "now"] \in Report
         /\ \A d \in DocVers : [r EXCEPT !.doc[d] = "now"] \in Report
  BY DEF Report, Mark

-----------------------------------------------------------------------------
(* Types.                                                                  *)

\* The flow starts with well-typed values and every step keeps them.
THEOREM TypeCorrect == Spec => []TypeOK
  <1>1. Init => TypeOK
    <2> SUFFICES ASSUME Init PROVE TypeOK
      OBVIOUS
    <2>1. 1 \in Vers /\ 1 \in DocVers /\ faults \in 0..MaxFaults
      BY WorkflowAssumption DEF Init, Vers, DocVers
    <2>2. saved \in [Vers -> Report] /\ report \in Report
      BY NewReportType DEF Init
    <2>3. NoPackage \in Package
      BY DEF NoPackage, Package
    <2>4. pkg \in [Vers -> [Kind -> Package]]
      BY <2>3 DEF Init
    <2>5. tmp \in [Kind -> SUBSET Content] /\ pc \in Stages
      BY DEF Init, Stages
    <2> QED
      BY <2>1, <2>2, <2>4, <2>5 DEF Init, TypeOK
  <1>2. TypeOK /\ [Next]_vars => TypeOK'
    <2> SUFFICES ASSUME TypeOK, [Next]_vars PROVE TypeOK'
      OBVIOUS
    <2> USE DEF TypeOK, env_vars, drive_vars, run_vars
    <2>1. CASE Commit
      BY <2>1, WorkflowAssumption DEF Commit, Vers
    <2>2. CASE CommitDoc
      BY <2>2, WorkflowAssumption DEF CommitDoc, DocVers
    <2>3. CASE EditWorkflow
      BY <2>3 DEF EditWorkflow
    <2>4. CASE RemoveLock
      BY <2>4 DEF RemoveLock
    <2>5. CASE Start
      BY <2>5, WorkflowAssumption DEF Start, Goto, Stages
    <2>6. CASE CreateTempPaths
      BY <2>6 DEF CreateTempPaths, Goto, Stages, Fallible
    <2>7. CASE Refused
      BY <2>7, WorkflowAssumption, NewReportType DEF Refused, Forget, Goto, Stages, Vers, DocVers
    <2>8. CASE LoadReport
      BY <2>8, NewReportType, NextLoopType DEF LoadReport, Goto, Stages, Fallible
    <2>9. ASSUME NEW k \in Kind, CopyTarget(k) PROVE TypeOK'
      <3>1. PICK i \in ToCopy(k) : \E c \in {i, Hole(i)} :
               /\ report' = [report EXCEPT !.item[k][Dest[i]] = "now"]
               /\ tmp' = [tmp EXCEPT ![k] = @ \cup {c}]
               /\ faults' = faults \/ (faults > 0 /\ faults' = faults - 1)
        BY <2>9 DEF CopyTarget
      <3>2. i \in Item /\ Dest[i] \in Item
        BY <3>1, WorkflowAssumption DEF ToCopy, Workflow, Kind
      <3>3. report' \in Report
        <4>1. report \in Report
          OBVIOUS
        <4> HIDE DEF TypeOK, env_vars, drive_vars, run_vars
        <4>2. [report EXCEPT !.item[k][Dest[i]] = "now"] \in Report
          BY <3>2, <4>1, MarkedType
        <4> QED
          BY <3>1, <4>2
      <3>4. tmp' \in [Kind -> SUBSET Content]
        BY <3>1, <3>2 DEF Content
      <3>5. faults' \in 0..MaxFaults
        BY <3>1, WorkflowAssumption
      <3> QED
        BY <2>9, <3>3, <3>4, <3>5 DEF CopyTarget
    <2>10. ASSUME NEW k \in Kind, AllCopied(k) PROVE TypeOK'
      BY <2>10 DEF AllCopied, Goto, Stages, Fallible
    <2>11. CASE BuildFile
      <3>1. report' \in Report
        BY <2>11, MarkedType DEF BuildFile, Kind
      <3>2. tmp' \in [Kind -> SUBSET Content]
        BY <2>11 DEF BuildFile, Content, Kind
      <3> QED
        BY <2>11, <3>1, <3>2 DEF BuildFile, Goto, Stages, Fallible
    <2>12. ASSUME NEW k \in Kind, Tar(k)
           PROVE  report' \in Report /\ pkg' \in [Vers -> [Kind -> Package]]
      <3>1. CASE report.tar[k] = "none"
        <4>1. [report EXCEPT !.tar[k] = "now"] \in Report
          BY MarkedType
        <4>2. [there |-> TRUE, items |-> tmp[k]] \in Package
          BY DEF Package
        <4>3. /\ report' = [report EXCEPT !.tar[k] = "now"]
              /\ pkg' = [pkg EXCEPT ![vers][k] = [there |-> TRUE, items |-> tmp[k]]]
          BY <2>12, <3>1, Zenon DEF Tar
        <4> QED
          BY <4>1, <4>2, <4>3
      <3>2. CASE report.tar[k] # "none"
        <4>1. report' = report /\ pkg' = pkg
          BY <2>12, <3>2 DEF Tar
        <4> QED
          BY <4>1
      <3> QED
        BY <3>1, <3>2
    <2>13. CASE TarSources
      BY <2>12, <2>13 DEF TarSources, Goto, Stages, Fallible, Kind
    <2>14. CASE TarTests
      BY <2>12, <2>14 DEF TarTests, Goto, Stages, Fallible, Kind
    <2>15. CASE SkipDoc
      BY <2>15 DEF SkipDoc, Goto, Stages
    <2>16. DocDone => report' \in Report
      BY MarkedType DEF DocDone, Kind
    <2>17. CASE DocFromCache
      BY <2>16, <2>17 DEF DocFromCache, Goto, Stages
    <2>18. CASE GenerateDoc
      BY <2>18 DEF GenerateDoc, StoreDoc, Goto, Stages, Fallible
    <2>19. CASE StoreStdout
      BY <2>19 DEF StoreStdout, StoreDoc, Goto, Stages, Fallible
    <2>20. CASE StoreStderr
      BY <2>20 DEF StoreStderr, StoreDoc, Goto, Stages, Fallible
    <2>21. CASE UploadDoc
      BY <2>16, <2>21 DEF UploadDoc, Goto, Stages
    <2>22. CASE SkipJobs
      BY <2>22 DEF SkipJobs, Goto, Stages
    <2>23. CASE RunJobs
      <3>1. PICK built \in SUBSET (Selected(WithJobs(report)) \cap Hosted) :
               /\ report' = Built(WithJobs(report), built)
               /\ faults' = faults \/ (faults > 0 /\ faults' = faults - 1)
        BY <2>23 DEF RunJobs
      <3>2. report' \in Report
        BY <3>1, WithJobsType, BuiltType, WorkflowAssumption
      <3>3. compiled' \subseteq Vers
        BY <2>23 DEF RunJobs
      <3>4. faults' \in 0..MaxFaults
        BY <3>1, WorkflowAssumption
      <3> QED
        BY <2>23, <3>2, <3>3, <3>4 DEF RunJobs, Goto, Stages
    <2>24. CASE SaveReport
      BY <2>24, WorkflowAssumption DEF SaveReport, Goto, Stages
    <2>25. CASE Unlock
      <3>1. /\ pc' = "idle" /\ lock' = FALSE
            /\ vers' = 1 /\ docv' = 1 /\ forced' = {} /\ report' = NewReport /\ wf' = file
        BY <2>25 DEF Unlock, Forget, Goto
      <3>2. vers' \in Vers /\ docv' \in DocVers
        BY <3>1, WorkflowAssumption DEF Vers, DocVers
      <3> QED
        BY <2>25, <3>1, <3>2, NewReportType DEF Unlock, Stages
    <2>26. CASE Fail
      BY <2>26, WorkflowAssumption DEF Fail, Stages
    <2>27. CASE Crash
      BY <2>27, WorkflowAssumption, NewReportType DEF Crash, Forget, Stages, Vers, DocVers
    <2>29. CASE LoadTorn
      BY <2>29, WorkflowAssumption, NewReportType DEF LoadTorn, Forget, Goto, Stages, Vers, DocVers
    <2>30. ASSUME NEW k \in Kind, CutTar(k) PROVE TypeOK'
      <3>1. [there |-> TRUE, items |-> {}] \in Package
        BY DEF Package
      <3>2. pkg' \in [Vers -> [Kind -> Package]]
        BY <2>30, <3>1 DEF CutTar
      <3>3. Interrupted /\ UNCHANGED <<stored, torn, saved, docFiles, uploaded>>
        BY <2>30 DEF CutTar
      <3> QED
        BY <3>2, <3>3, InterruptedType
    <2>31. CASE CutSite
      <3>1. docFiles' \in [DocVers -> SUBSET {"web", "stdout", "stderr"}]
        BY <2>31 DEF CutSite
      <3> QED
        BY <2>31, <3>1, InterruptedType DEF CutSite
    <2>32. CASE CutReport
      <3>1. saved' \in [Vers -> Report] /\ stored' \subseteq Vers /\ torn' \subseteq Vers
        BY <2>32, NewReportType DEF CutReport
      <3> QED
        BY <2>32, <3>1, InterruptedType DEF CutReport
    <2>28. CASE UNCHANGED vars
      BY <2>28 DEF vars
    <2> QED
      BY <2>1, <2>2, <2>3, <2>4, <2>5, <2>6, <2>7, <2>8, <2>9, <2>10, <2>11, <2>13,
         <2>14, <2>15, <2>17, <2>18, <2>19, <2>20, <2>21, <2>22, <2>23, <2>24, <2>25,
         <2>26, <2>27, <2>28, <2>29, <2>30, <2>31, <2>32 DEF Next, Stage, Cut
  <1> QED
    BY <1>1, <1>2, PTL DEF Spec
-----------------------------------------------------------------------------
(* The source package of a version does not change once a job of it has    *)
(* been started.                                                           *)

Loaded == Stages \ {"idle", "lock", "load", "unlock"}

Packed(r) == r.tar["src"] # "none"

\* A run works on a version whose report could be read.
NotTorn == pc \in Loaded => vers \notin torn

\* The report of a version some job of which was started is on the drive, and
\* says that the sources are packed; or it is cut, and no run gets past it.
CompiledIsSaved == \A v \in compiled : v \in torn \/ (v \in stored /\ Packed(saved[v]))

\* A cut copy ends the run.
LEMMA InterruptedEnds ==
  Interrupted => /\ pc' \notin Loaded /\ pc' \in {"unlock", "idle"}
                 /\ UNCHANGED <<tmp, compiled>> /\ forced' \in {forced, {}}
  BY DEF Interrupted, Forget, run_vars, Loaded

\* A run does not forget what the report it has loaded says.
PackedIsKept ==
    (pc \in Loaded /\ vers \in stored /\ Packed(saved[vers])) => Packed(report)

\* What was packed in an earlier loop is packed in the report on the drive.
BeforeIsSaved ==
    (pc \in Loaded /\ report.tar["src"] = "before") =>
        (vers \in stored /\ Packed(saved[vers]))

FrozenInv == NotTorn /\ CompiledIsSaved /\ PackedIsKept /\ BeforeIsSaved

\* Nothing but the load, the two packings and the end of the run disturb it.
LEMMA FrozenStep ==
  ASSUME TypeOK, FrozenInv, [Next]_vars
  PROVE  FrozenInv' /\ \A v \in compiled : pkg'[v]["src"] = pkg[v]["src"]
  <1> DEFINE Goal == FrozenInv' /\ \A v \in compiled : pkg'[v]["src"] = pkg[v]["src"]
  <1> USE DEF env_vars, drive_vars, run_vars, FrozenInv, NotTorn, CompiledIsSaved, PackedIsKept, BeforeIsSaved
  <1>0. saved \in [Vers -> Report] /\ report \in Report /\ vers \in Vers /\ stored \subseteq Vers
    BY DEF TypeOK
  \* Steps that keep the drive, the report's packages and the run.
  <1>a. ASSUME stored' = stored, torn' = torn, saved' = saved, pkg' = pkg, compiled' = compiled,
               \/ pc' \notin Loaded
               \/ pc \in Loaded /\ vers' = vers /\ report'.tar["src"] = report.tar["src"]
        PROVE  Goal
    BY <1>a DEF Packed
  <1>1. CASE Commit \/ CommitDoc \/ EditWorkflow \/ RemoveLock
    BY <1>1 DEF Commit, CommitDoc, EditWorkflow, RemoveLock, Packed
  <1>2. CASE Start \/ CreateTempPaths \/ Refused \/ Unlock
    BY <1>2, <1>a DEF Start, CreateTempPaths, Refused, Unlock, Forget, Goto, Loaded
  <1>3. CASE LoadReport
    <2>1. CASE vers \in stored
      <3>1. report' = NextLoop(saved[vers])
        BY <1>3, <2>1 DEF LoadReport
      <3>2. saved[vers] \in Report
        BY <1>0
      <3>3. report'.tar["src"] = Older(saved[vers].tar["src"])
        BY <3>1, <3>2 DEF NextLoop, Kind
      <3>4. Packed(report)' <=> Packed(saved[vers])
        BY <3>3 DEF Packed, Older
      <3> QED
        BY <1>3, <2>1, <3>4 DEF LoadReport, Goto, Packed
    <2>2. CASE vers \notin stored
      <3>1. report'.tar["src"] = "none"
        BY <1>3, <2>2 DEF LoadReport, NewReport, Kind
      <3> QED
        BY <1>3, <2>2, <3>1 DEF LoadReport, Goto
    <2> QED
      BY <2>1, <2>2
  <1>4. ASSUME NEW k \in Kind, CopyTarget(k) PROVE Goal
    <2>1. PICK i \in ToCopy(k) : report' = [report EXCEPT !.item[k][Dest[i]] = "now"]
      BY <1>4 DEF CopyTarget
    <2>2. report'.tar = report.tar
      BY <1>0, <2>1 DEF Report
    <2> QED
      BY <1>4, <1>a, <2>2 DEF CopyTarget, Loaded, Kind, Stages, Fallible
  <1>5. ASSUME NEW k \in Kind, AllCopied(k) PROVE Goal
    BY <1>5, <1>a DEF AllCopied, Goto, Loaded, Kind, Stages, Fallible
  <1>6. CASE BuildFile
    <2>1. report'.tar = report.tar
      BY <1>6, <1>0 DEF BuildFile, Report
    <2> QED
      BY <1>6, <1>a, <2>1 DEF BuildFile, Goto, Loaded, Stages, Fallible
  <1>7. CASE TarSources
    <2>1. CASE report.tar["src"] = "none"
      <3>1. /\ report' = [report EXCEPT !.tar["src"] = "now"]
            /\ pkg' = [pkg EXCEPT ![vers]["src"] = [there |-> TRUE, items |-> tmp["src"]]]
        BY <1>7, <2>1, Zenon DEF TarSources, Tar
      <3>2. report'.tar["src"] = "now"
        BY <1>0, <3>1 DEF Report, Kind
      <3>3. pc \in Loaded /\ vers \notin compiled
        BY <1>7, <2>1 DEF TarSources, Goto, Loaded, Stages, Fallible, Packed
      <3>4. \A v \in compiled : pkg'[v]["src"] = pkg[v]["src"]
        BY <3>1, <3>3 DEF TypeOK
      <3> QED
        BY <1>7, <3>2, <3>3, <3>4 DEF TarSources, Packed
    <2>2. CASE report.tar["src"] # "none"
      BY <1>7, <2>2, <1>a DEF TarSources, Tar, Goto, Loaded, Stages, Fallible
    <2> QED
      BY <2>1, <2>2
  <1>8. CASE TarTests
    <2>1. report'.tar["src"] = report.tar["src"] /\ \A v \in Vers : pkg'[v]["src"] = pkg[v]["src"]
      <3>1. \/ report' = report /\ pkg' = pkg
            \/ /\ report' = [report EXCEPT !.tar["test"] = "now"]
               /\ pkg' = [pkg EXCEPT ![vers]["test"] = [there |-> TRUE, items |-> tmp["test"]]]
        BY <1>8, Zenon DEF TarTests, Tar
      <3>2. pkg \in [Vers -> [Kind -> Package]] /\ report.tar \in [Kind -> Mark]
        BY <1>0 DEF TypeOK, Report
      <3>3. [report EXCEPT !.tar["test"] = "now"].tar = [report.tar EXCEPT !["test"] = "now"]
        BY <1>0 DEF Report
      <3>4. report'.tar["src"] = report.tar["src"]
        BY <3>1, <3>2, <3>3 DEF Kind
      <3>5. \A v \in Vers : pkg'[v]["src"] = pkg[v]["src"]
        <4>1. CASE pkg' = pkg
          BY <4>1
        <4>2. CASE pkg' = [pkg EXCEPT ![vers]["test"] = [there |-> TRUE, items |-> tmp["test"]]]
          <5>1. pkg[vers] \in [Kind -> Package]
            BY <1>0, <3>2
          <5>2. pkg'[vers]["src"] = pkg[vers]["src"]
            BY <1>0, <3>2, <4>2, <5>1 DEF Kind
          <5> QED
            BY <1>0, <3>2, <4>2, <5>2
        <4> QED
          BY <3>1, <4>1, <4>2
      <3> QED
        BY <3>4, <3>5
    <2> QED
      BY <1>8, <2>1 DEF TarTests, Goto, Loaded, Stages, Fallible, Packed, TypeOK
  <1>9. CASE SkipDoc \/ DocFromCache \/ GenerateDoc \/ StoreStdout \/ StoreStderr \/ UploadDoc \/ SkipJobs
    <2>1. pc \in Loaded /\ pc' \in Loaded
      BY <1>9 DEF SkipDoc, DocFromCache, GenerateDoc, StoreStdout, StoreStderr, UploadDoc,
                  SkipJobs, StoreDoc, Goto, Loaded, Stages, Fallible
    <2>2. DocDone => report'.tar = report.tar
      BY <1>0 DEF DocDone, Report
    <2>3. report'.tar = report.tar
      BY <1>9, <2>2 DEF SkipDoc, DocFromCache, GenerateDoc, StoreStdout, StoreStderr, UploadDoc,
                        SkipJobs, StoreDoc
    <2> QED
      BY <1>9, <1>a, <2>1, <2>3 DEF SkipDoc, DocFromCache, GenerateDoc, StoreStdout, StoreStderr,
                        UploadDoc, SkipJobs, StoreDoc
  <1>10. CASE RunJobs
    <2>1. /\ pc = "jobs" /\ pc' = "save"
          /\ compiled' \subseteq compiled \cup {vers}
          /\ UNCHANGED <<stored, torn, saved, pkg, vers>>
      BY <1>10 DEF RunJobs, Goto
    <2>2. report.tar["src"] = "before"
      BY <1>10 DEF RunJobs, CanStartJobs
    <2>3. vers \in stored /\ Packed(saved[vers])
      BY <2>1, <2>2 DEF Loaded, Stages
    <2>4. PICK built : report' = Built(WithJobs(report), built)
      BY <1>10 DEF RunJobs
    <2>5. report'.tar = report.tar
      BY <2>4, <1>0, WithJobsType, TypeOK DEF Built, WithJobs, Report, TypeOK
    <2> QED
      BY <2>1, <2>2, <2>3, <2>5 DEF Loaded, Stages, Packed
  <1>11. CASE SaveReport
    <2>1. /\ pc = "save" /\ pc' = "unlock" /\ compiled' = compiled /\ pkg' = pkg
          /\ torn' = torn
      BY <1>11 DEF SaveReport, Goto
    <2>2. \/ stored' = stored /\ saved' = saved
          \/ stored' = stored \cup {vers} /\ saved' = [saved EXCEPT ![vers] = report]
      BY <1>11 DEF SaveReport
    <2>3. \A v \in compiled : v \in torn \/ (v \in stored' /\ Packed(saved'[v]))
      BY <1>0, <2>1, <2>2 DEF Loaded, Stages, TypeOK
    <2> QED
      BY <2>1, <2>3 DEF Loaded, Packed
  <1>12. CASE Fail \/ Crash
    BY <1>12, <1>a DEF Fail, Crash, Forget, Loaded
  <1>13. CASE UNCHANGED vars
    BY <1>13 DEF vars, Packed
  <1>14. CASE LoadTorn \/ CutSite
    BY <1>14, <1>a, InterruptedEnds DEF LoadTorn, CutSite, Goto, Loaded
  <1>15. ASSUME NEW k \in Kind, CutTar(k) PROVE Goal
    <2>1. /\ pc' \notin Loaded /\ UNCHANGED <<stored, torn, saved, compiled>>
          /\ pkg' = [pkg EXCEPT ![vers][k] = [there |-> TRUE, items |-> {}]]
          /\ report.tar[k] = "none" /\ pc \in Loaded
      BY <1>15, InterruptedEnds DEF CutTar, Kind, Loaded, Stages, Fallible
    <2>2. k = "src" => vers \notin compiled
      BY <2>1 DEF Packed
    <2>3. \A v \in compiled : pkg'[v]["src"] = pkg[v]["src"]
      <3>1. pkg \in [Vers -> [Kind -> Package]] /\ compiled \subseteq Vers
        BY DEF TypeOK
      <3>2. \A v \in Vers : v # vers => pkg'[v] = pkg[v]
        BY <2>1, <3>1
      <3>3. k # "src" => pkg'[vers]["src"] = pkg[vers]["src"]
        <4>1. pkg[vers] \in [Kind -> Package]
          BY <1>0, <3>1
        <4> QED
          BY <1>0, <2>1, <3>1, <4>1 DEF Kind
      <3> QED
        BY <2>2, <3>1, <3>2, <3>3
    <2> QED
      BY <2>1, <2>3 DEF Packed
  <1>16. CASE CutReport
    <2>1. /\ pc' \notin Loaded /\ pkg' = pkg /\ compiled' = compiled
          /\ torn' = torn \cup {vers} /\ stored' = stored \ {vers}
          /\ saved' = [saved EXCEPT ![vers] = NewReport]
      BY <1>16, InterruptedEnds DEF CutReport
    <2>2. \A v \in compiled : v \in torn' \/ (v \in stored' /\ Packed(saved'[v]))
      BY <1>0, <2>1 DEF TypeOK
    <2> QED
      BY <2>1, <2>2 DEF Packed
  <1> QED
    BY <1>1, <1>2, <1>3, <1>4, <1>5, <1>6, <1>7, <1>8, <1>9, <1>10, <1>11, <1>12, <1>13,
       <1>14, <1>15, <1>16 DEF Next, Stage, Cut

LEMMA FrozenInvHolds == Spec => []FrozenInv
  <1>1. Init => FrozenInv
    BY DEF Init, FrozenInv, NotTorn, CompiledIsSaved, PackedIsKept, BeforeIsSaved, Loaded
  <1>2. TypeOK /\ FrozenInv /\ [Next]_vars => FrozenInv'
    BY FrozenStep
  <1> QED
    BY <1>1, <1>2, TypeCorrect, PTL DEF Spec

\* Every job of a version compiles the same sources: report_can_start_jobs waits
\* until the report of an earlier loop says that the sources are packed, and
\* from then on no load, failure or crash makes target_tar write them again.
THEOREM PackageFrozenHolds == Spec => PackageFrozen
  <1>1. TypeOK /\ FrozenInv /\ [Next]_vars =>
           [\A v \in compiled : pkg'[v]["src"] = pkg[v]["src"]]_vars
    BY FrozenStep
  <1> QED
    BY <1>1, FrozenInvHolds, TypeCorrect, PTL DEF Spec, PackageFrozen

-----------------------------------------------------------------------------
(* A job done is never forgotten.                                          *)

\* The report in memory knows what the report on the drive does.
DoneInv ==
    (pc \in Loaded /\ vers \in stored) =>
        \A j \in JobName : saved[vers].done[j] => report.done[j] \/ j \in forced

Kept ==
    \A v \in stored, j \in JobName :
        saved[v].done[j] => v \in torn' \/ saved'[v].done[j] \/ j \in forced

\* A selection without -j leaves the done jobs alone; with it, only the jobs
\* it matches are opened again.
LEMMA BuiltKeepsDone ==
  ASSUME NEW r \in Report, NEW built, NEW j \in JobName, r.done[j]
  PROVE  Built(r, built).done[j] \/ j \in forced
  <1>1. Built(r, built).done[j] = IF j \in Selected(r) THEN j \in built ELSE r.done[j]
    BY DEF Built, Report
  <1>2. CASE forced = {}
    <2>1. j \notin Selected(r)
      BY <1>2 DEF Selected, SelectJobs, Pending
    <2> QED
      BY <1>1, <2>1
  <1>3. CASE forced # {} /\ j \notin forced
    <2>1. j \notin Selected(r)
      BY <1>3 DEF Selected
    <2> QED
      BY <1>1, <2>1
  <1> QED
    BY <1>2, <1>3

LEMMA DoneStep == ASSUME TypeOK, DoneInv, [Next]_vars PROVE DoneInv' /\ Kept
  <1> DEFINE Goal == DoneInv' /\ Kept
  <1> USE DEF env_vars, drive_vars, run_vars, DoneInv, Kept
  <1>0. saved \in [Vers -> Report] /\ report \in Report /\ vers \in Vers /\ stored \subseteq Vers
    BY DEF TypeOK
  \* Steps that keep the reports on the drive and the jobs done.
  <1>a. ASSUME stored' = stored, saved' = saved,
               \/ pc' \notin Loaded
               \/ /\ pc \in Loaded
                  /\ vers' = vers /\ forced' = forced /\ report'.done = report.done
        PROVE  Goal
    BY <1>a
  <1>1. CASE Commit \/ CommitDoc \/ EditWorkflow \/ RemoveLock
    BY <1>1 DEF Commit, CommitDoc, EditWorkflow, RemoveLock
  <1>2. CASE Start \/ CreateTempPaths \/ Refused \/ Unlock
    BY <1>2, <1>a DEF Start, CreateTempPaths, Refused, Unlock, Forget, Goto, Loaded
  <1>3. CASE LoadReport
    <2>1. vers \in stored => report' = NextLoop(saved[vers])
      BY <1>3 DEF LoadReport
    <2>2. vers \in stored => report'.done = saved[vers].done
      BY <1>0, <2>1 DEF NextLoop
    <2> QED
      BY <1>3, <2>2 DEF LoadReport
  <1>4. ASSUME NEW k \in Kind, CopyTarget(k) PROVE Goal
    <2>1. PICK i \in ToCopy(k) : report' = [report EXCEPT !.item[k][Dest[i]] = "now"]
      BY <1>4 DEF CopyTarget
    <2>2. report'.done = report.done
      BY <1>0, <2>1 DEF Report
    <2> QED
      BY <1>4, <1>a, <2>2 DEF CopyTarget, Loaded, Kind, Stages, Fallible
  <1>5. ASSUME NEW k \in Kind, AllCopied(k) PROVE Goal
    BY <1>5, <1>a DEF AllCopied, Goto, Loaded, Kind, Stages, Fallible
  <1>6. CASE BuildFile
    <2>1. report'.done = report.done
      BY <1>6, <1>0 DEF BuildFile, Report
    <2> QED
      BY <1>6, <1>a, <2>1 DEF BuildFile, Goto, Loaded, Stages, Fallible
  <1>7. CASE TarSources \/ TarTests
    <2>1. \A k \in Kind : Tar(k) => report'.done = report.done
      BY <1>0 DEF Tar, Report
    <2>2. report'.done = report.done
      BY <1>7, <2>1 DEF TarSources, TarTests, Kind
    <2> QED
      BY <1>7, <1>a, <2>2 DEF TarSources, TarTests, Goto, Loaded, Stages, Fallible
  <1>8. CASE SkipDoc \/ DocFromCache \/ GenerateDoc \/ StoreStdout \/ StoreStderr \/ UploadDoc \/ SkipJobs
    <2>1. pc \in Loaded /\ pc' \in Loaded
      BY <1>8 DEF SkipDoc, DocFromCache, GenerateDoc, StoreStdout, StoreStderr, UploadDoc,
                  SkipJobs, StoreDoc, Goto, Loaded, Stages, Fallible
    <2>2. DocDone => report'.done = report.done
      BY <1>0 DEF DocDone, Report
    <2>3. report'.done = report.done
      BY <1>8, <2>2 DEF SkipDoc, DocFromCache, GenerateDoc, StoreStdout, StoreStderr, UploadDoc,
                        SkipJobs, StoreDoc
    <2> QED
      BY <1>8, <1>a, <2>1, <2>3 DEF SkipDoc, DocFromCache, GenerateDoc, StoreStdout, StoreStderr,
                        UploadDoc, SkipJobs, StoreDoc
  <1>9. CASE RunJobs
    <2>1. /\ pc = "jobs" /\ pc' = "save"
          /\ UNCHANGED <<stored, saved, vers, forced>>
      BY <1>9 DEF RunJobs, Goto
    <2>2. PICK built : report' = Built(WithJobs(report), built)
      BY <1>9 DEF RunJobs
    <2>3. WithJobs(report) \in Report /\ WithJobs(report).done = report.done
      BY <1>0, WithJobsType DEF TypeOK, WithJobs, Report
    <2>4. \A j \in JobName : report.done[j] => report'.done[j] \/ j \in forced
      BY <2>2, <2>3, BuiltKeepsDone
    <2> QED
      BY <2>1, <2>4 DEF Loaded, Stages
  <1>10. CASE SaveReport
    <2>1. pc = "save" /\ pc' = "unlock"
      BY <1>10 DEF SaveReport, Goto
    <2>2. \/ stored' = stored /\ saved' = saved
          \/ stored' = stored \cup {vers} /\ saved' = [saved EXCEPT ![vers] = report]
      BY <1>10 DEF SaveReport
    <2>3. Kept
      BY <1>0, <2>1, <2>2 DEF Loaded, Stages
    <2> QED
      BY <2>1, <2>3 DEF Loaded
  <1>11. CASE Fail \/ Crash
    BY <1>11, <1>a DEF Fail, Crash, Forget, Loaded
  <1>12. CASE UNCHANGED vars
    BY <1>12 DEF vars
  <1>13. CASE LoadTorn \/ CutSite \/ \E k \in Kind : CutTar(k)
    <2>1. stored' = stored /\ saved' = saved /\ pc' \notin Loaded
      BY <1>13, InterruptedEnds DEF LoadTorn, CutSite, CutTar, Goto, Loaded
    <2> QED
      BY <2>1, <1>a
  <1>14. CASE CutReport
    <2>1. /\ pc' \notin Loaded /\ vers \in torn'
          /\ saved' = [saved EXCEPT ![vers] = NewReport]
      BY <1>14, InterruptedEnds DEF CutReport
    <2>2. \A v \in stored : v = vers \/ saved'[v] = saved[v]
      BY <1>0, <2>1
    <2> QED
      BY <2>1, <2>2
  <1> QED
    BY <1>1, <1>2, <1>3, <1>4, <1>5, <1>6, <1>7, <1>8, <1>9, <1>10, <1>11, <1>12, <1>13, <1>14
       DEF Next, Stage, Cut

\* A job the report on the drive has as done stays done through failed and
\* killed runs and through later loops, until -j asks for it again or the report
\* is cut, and then it is not taken for another one.
THEOREM DoneIsKeptHolds == Spec => DoneIsKept
  <1>1. Init => DoneInv
    BY DEF Init, DoneInv, Loaded
  <1>2. TypeOK /\ DoneInv /\ [Next]_vars => DoneInv'
    BY DoneStep
  <1>3. TypeOK /\ DoneInv /\ [Next]_vars => [Kept]_vars
    BY DoneStep
  <1> QED
    BY <1>1, <1>2, <1>3, TypeCorrect, PTL DEF Spec, DoneIsKept, Kept

-----------------------------------------------------------------------------
(* The cache of the documentation.                                         *)

\* The site is stored before the logs that stand for it, and the second log after
\* the first: a site that is written again still lacks the second.
SiteFirst ==
    /\ \A d \in DocVers : "stderr" \in docFiles[d] => {"web", "stdout"} \subseteq docFiles[d]
    /\ pc = "doc_stdout" => "web" \in docFiles[docv]
    /\ pc = "doc_stderr" => {"web", "stdout"} \subseteq docFiles[docv]

\* Wherever a run stops while it stores the documentation, the next one does
\* not take from the drive a site that is not there.
THEOREM CachedDocHolds == Spec => []CachedDocIsStored
  <1>1. Init => SiteFirst
    BY DEF Init, SiteFirst
  <1>2. TypeOK /\ SiteFirst /\ [Next]_vars => SiteFirst'
    <2> SUFFICES ASSUME TypeOK, SiteFirst, [Next]_vars PROVE SiteFirst'
      OBVIOUS
    <2> USE DEF env_vars, drive_vars, run_vars, SiteFirst
    <2>a. ASSUME docFiles' = docFiles, pc' \notin {"doc_stdout", "doc_stderr"} PROVE SiteFirst'
      BY <2>a
    <2>1. CASE Commit \/ CommitDoc \/ EditWorkflow \/ RemoveLock
      BY <2>1 DEF Commit, CommitDoc, EditWorkflow, RemoveLock
    <2>2. CASE GenerateDoc \/ StoreStdout \/ StoreStderr
      <3>1. PICK name \in {"web", "stdout", "stderr"} :
               /\ name = "web" => pc' = "doc_stdout"
               /\ name = "stdout" => pc = "doc_stdout" /\ pc' = "doc_stderr"
               /\ name = "stderr" => pc = "doc_stderr" /\ pc' = "doc_upload"
               /\ docFiles' = [docFiles EXCEPT ![docv] = @ \cup {name}]
               /\ docv' = docv
        BY <2>2 DEF GenerateDoc, StoreStdout, StoreStderr, StoreDoc, Goto
      <3>2. docFiles \in [DocVers -> SUBSET {"web", "stdout", "stderr"}] /\ docv \in DocVers
        BY DEF TypeOK
      <3> QED
        BY <3>1, <3>2
    <2>3. CASE Start \/ CreateTempPaths \/ Refused \/ LoadReport \/ BuildFile \/ TarSources
               \/ TarTests \/ SkipDoc \/ DocFromCache \/ UploadDoc \/ SkipJobs \/ RunJobs
               \/ SaveReport \/ Unlock \/ Fail \/ Crash
      BY <2>3, <2>a DEF Start, CreateTempPaths, Refused, LoadReport, BuildFile, TarSources,
         TarTests, SkipDoc, DocFromCache, UploadDoc, SkipJobs, RunJobs, SaveReport, Unlock,
         Fail, Crash, Goto
    <2>4. ASSUME NEW k \in Kind, CopyTarget(k) \/ AllCopied(k) PROVE SiteFirst'
      BY <2>4, <2>a DEF CopyTarget, AllCopied, Goto, Kind
    <2>5. CASE UNCHANGED vars
      BY <2>5 DEF vars
    <2>6. CASE LoadTorn \/ CutReport \/ \E k \in Kind : CutTar(k)
      BY <2>6, <2>a, InterruptedEnds DEF LoadTorn, CutReport, CutTar, Goto
    <2>7. CASE CutSite
      <3>1. /\ pc' \in {"unlock", "idle"} /\ ~InCache(docv)
            /\ docFiles' = [docFiles EXCEPT ![docv] = @ \ {"web"}]
        BY <2>7, InterruptedEnds DEF CutSite
      <3>2. "stderr" \notin docFiles[docv]
        BY <3>1 DEF InCache, TypeOK
      <3> QED
        BY <3>1, <3>2 DEF TypeOK
    <2> QED
      BY <2>1, <2>2, <2>3, <2>4, <2>5, <2>6, <2>7 DEF Next, Stage, Cut
  <1>3. SiteFirst => CachedDocIsStored
    BY DEF SiteFirst, CachedDocIsStored, InCache
  <1> QED
    BY <1>1, <1>2, <1>3, TypeCorrect, PTL DEF Spec

-----------------------------------------------------------------------------
(* The package is that of the workflow when jobs start.                    *)

\* The package of a version is that of every workflow.
Full(v) == \A w \in Workflows : HasSources(w, pkg[v]["src"].items)

SameSources == \A w, x \in Workflows : w.src = x.src /\ w.build = x.build

\* The item j, or its hole, is in the folder of the sources.
Given(j) == {j, Hole(j)} \cap tmp["src"] # {}

\* A run that has not failed before the save has packed the sources.
StoredIsFull == \A v \in stored : Packed(saved[v]) /\ Full(v)
PackedIsFull == (pc \in Loaded /\ Packed(report)) => Full(vers)
PackedInTime == pc \in Loaded \ {"src", "test", "build", "tar_src"} => Packed(report)

\* Until the sources are packed, what the report has as copied is in the folder
\* of this run, and not in that of an earlier one.
CopiedIsThere ==
    (pc \in Loaded /\ ~Packed(report)) =>
        /\ \A d \in Item : report.item["src"][d] # "none" =>
              \E j \in wf.src : Dest[j] = d /\ Given(j)
        /\ report.build # "none" => BuildTxt \in tmp["src"]

\* The stages before the packing have done their part.
StagesDone ==
    /\ pc \in {"test", "build", "tar_src"} => \A i \in wf.src : report.item["src"][Dest[i]] # "none"
    /\ (pc = "tar_src" /\ wf.build) => report.build # "none"

PackInv == StoredIsFull /\ PackedIsFull /\ PackedInTime /\ CopiedIsThere /\ StagesDone

LEMMA PackStep ==
  ASSUME SameSources, TypeOK, FrozenInv, PackInv, [Next]_vars
  PROVE  PackInv'
  <1> USE DEF env_vars, drive_vars, run_vars
  <1>0. /\ saved \in [Vers -> Report] /\ report \in Report /\ vers \in Vers /\ stored \subseteq Vers
        /\ wf \in Workflows /\ wf.src \subseteq Item
        /\ pkg \in [Vers -> [Kind -> Package]] /\ tmp \in [Kind -> SUBSET Content]
        /\ \A i \in Item : Dest[i] \in Item
    BY WorkflowAssumption DEF TypeOK, Workflow
  <1>1. /\ StoredIsFull /\ PackedIsFull /\ PackedInTime /\ CopiedIsThere /\ StagesDone
        /\ pc \in Loaded /\ vers \in stored => Packed(report)
    BY DEF PackInv, StoredIsFull, FrozenInv, PackedIsKept
  <1>2. "src" \in Kind /\ "test" \in Kind
    BY DEF Kind
  \* Steps that keep the drive, the run and what the report says of the sources.
  <1>a. ASSUME UNCHANGED <<stored, saved, vers, wf>>, \A v \in Vers : pkg'[v]["src"] = pkg[v]["src"],
               pc \in Loaded, pc' \in Loaded,
               report'.tar["src"] = report.tar["src"], report'.build = report.build,
               \A i \in Item : report'.item["src"][i] = report.item["src"][i],
               tmp'["src"] = tmp["src"],
               pc' = pc \/ pc' \notin {"src", "test", "build", "tar_src"}
                 \/ (pc = "test" /\ pc' = "build"),
               pc' \in {"src", "test", "build", "tar_src"} \/ Packed(report)
        PROVE  PackInv'
    <2>1. \A v \in Vers : Full(v)' <=> Full(v)
      BY <1>a DEF Full
    <2>2. Packed(report)' <=> Packed(report)
      BY <1>a DEF Packed
    <2>3. StoredIsFull'
      BY <1>a, <1>0, <1>1, <2>1 DEF StoredIsFull, Packed
    <2>4. PackedIsFull'
      BY <1>a, <1>0, <1>1, <2>1, <2>2 DEF PackedIsFull
    <2>5. PackedInTime'
      BY <1>a, <2>2 DEF PackedInTime, Loaded
    <2>6. CopiedIsThere'
      BY <1>a, <1>1, <2>2 DEF CopiedIsThere, Given
    <2>7. StagesDone'
      BY <1>a, <1>0, <1>1 DEF StagesDone
    <2> QED
      BY <2>3, <2>4, <2>5, <2>6, <2>7 DEF PackInv
  \* Steps of a run without a report in memory, and of those that lose it.
  <1>b. ASSUME UNCHANGED <<stored, saved, pkg>>, pc' \notin Loaded PROVE PackInv'
    <2>1. StoredIsFull'
      BY <1>b, <1>1 DEF StoredIsFull, Packed, Full
    <2>2. PackedIsFull' /\ PackedInTime' /\ CopiedIsThere'
      BY <1>b DEF PackedIsFull, PackedInTime, CopiedIsThere
    <2>3. StagesDone'
      BY <1>b DEF StagesDone, Loaded, Stages, Fallible
    <2> QED
      BY <2>1, <2>2, <2>3 DEF PackInv
  <1>3. CASE Commit \/ CommitDoc \/ EditWorkflow \/ RemoveLock \/ UNCHANGED vars
    <2>1. UNCHANGED <<drive_vars, tmp, pc, run_vars, report>>
      BY <1>3 DEF Commit, CommitDoc, EditWorkflow, RemoveLock, vars
    <2> QED
      BY <2>1, <1>1 DEF PackInv, StoredIsFull, PackedIsFull, PackedInTime, CopiedIsThere,
                        StagesDone, Full, Packed, Given
  <1>4. CASE Start \/ CreateTempPaths \/ Refused \/ LoadTorn \/ Unlock \/ Fail \/ Crash \/ CutSite
    <2>1. UNCHANGED <<stored, saved, pkg>> /\ pc' \in {"lock", "load", "idle", "unlock"}
      BY <1>4, InterruptedEnds DEF Start, CreateTempPaths, Refused, LoadTorn, Unlock, Fail, Crash,
         CutSite, Goto
    <2> QED
      BY <2>1, <1>b DEF Loaded
  <1>5. CASE LoadReport
    <2>1. /\ UNCHANGED <<stored, saved, pkg, vers>> /\ pc' = "src"
          /\ report' = IF vers \in stored THEN NextLoop(saved[vers]) ELSE NewReport
      BY <1>5 DEF LoadReport, Goto
    <2>2. \A v \in Vers : Full(v)' <=> Full(v)
      BY <2>1 DEF Full
    <2>3. StoredIsFull'
      BY <1>0, <1>1, <2>1, <2>2 DEF StoredIsFull, Packed
    <2>4. PackedInTime' /\ StagesDone'
      BY <2>1 DEF PackedInTime, StagesDone, Loaded, Stages, Fallible
    <2>5. CASE vers \in stored
      <3>1. report'.tar["src"] = Older(saved[vers].tar["src"])
        BY <1>0, <1>2, <2>1, <2>5 DEF NextLoop
      <3>2. Packed(report)' /\ Full(vers)'
        BY <1>0, <1>1, <2>1, <2>2, <2>5, <3>1 DEF StoredIsFull, Packed, Older
      <3> QED
        BY <2>3, <2>4, <3>2 DEF PackInv, PackedIsFull, CopiedIsThere
    <2>6. CASE vers \notin stored
      <3>1. report' = NewReport
        BY <2>1, <2>6
      <3>2. /\ report'.tar["src"] = "none" /\ report'.build = "none"
            /\ \A i \in Item : report'.item["src"][i] = "none"
        BY <1>2, <3>1 DEF NewReport
      <3> QED
        BY <2>3, <2>4, <3>2 DEF PackInv, PackedIsFull, CopiedIsThere, Packed
    <2> QED
      BY <2>5, <2>6
  <1>6. ASSUME NEW k \in Kind, CopyTarget(k) PROVE PackInv'
    <2>1. PICK i \in ToCopy(k) : \E c \in {i, Hole(i)} :
             /\ report' = [report EXCEPT !.item[k][Dest[i]] = "now"]
             /\ tmp' = [tmp EXCEPT ![k] = @ \cup {c}]
      BY <1>6 DEF CopyTarget
    <2>2. UNCHANGED <<stored, saved, pkg, vers, wf, pc>> /\ pc = k /\ pc \in {"src", "test"}
      BY <1>6 DEF CopyTarget, Kind
    <2>3. report'.tar = report.tar /\ report'.build = report.build
      BY <1>0, <2>1 DEF Report
    <2>4. /\ \A j \in Item : report'.item["src"][j] # report.item["src"][j] =>
                k = "src" /\ j = Dest[i] /\ report'.item["src"][j] = "now"
          /\ tmp["src"] \subseteq tmp'["src"] /\ (k = "src" => i \in wf.src /\ Given(i)')
      <3>0. PICK c \in {i, Hole(i)} : tmp' = [tmp EXCEPT ![k] = @ \cup {c}]
        BY <2>1
      <3>1. report.item \in [Kind -> [Item -> Mark]]
        BY <1>0 DEF Report
      <3>2. report'.item = [report.item EXCEPT ![k][Dest[i]] = "now"]
        BY <1>0, <2>1 DEF Report
      <3>3. /\ tmp["src"] \subseteq tmp'["src"]
            /\ k = "src" => c \in tmp'["src"]
        BY <1>0, <1>2, <3>0
      <3>4. k = "src" => i \in wf.src
        BY <2>1 DEF ToCopy
      <3>5. \A j \in Item : report'.item["src"][j] # report.item["src"][j] =>
                k = "src" /\ j = Dest[i] /\ report'.item["src"][j] = "now"
        BY <1>0, <1>2, <3>1, <3>2
      <3> QED
        BY <3>0, <3>3, <3>4, <3>5 DEF Given
    <2>5. \A j \in Item : report.item["src"][j] # "none" => report'.item["src"][j] # "none"
      BY <2>4
    <2>6. Packed(report)' <=> Packed(report)
      BY <2>3 DEF Packed
    <2>7. \A v \in Vers : Full(v)' <=> Full(v)
      BY <2>2 DEF Full
    <2>8. StoredIsFull' /\ PackedIsFull'
      BY <1>0, <1>1, <2>2, <2>6, <2>7 DEF StoredIsFull, PackedIsFull, Packed
    <2>9. PackedInTime'
      BY <2>2 DEF PackedInTime
    <2>10. CopiedIsThere'
      <3> SUFFICES ASSUME pc \in Loaded, ~Packed(report)
                   PROVE  /\ \A d \in Item : report'.item["src"][d] # "none" =>
                                \E j \in wf.src : Dest[j] = d /\ Given(j)'
                          /\ report.build # "none" => BuildTxt \in tmp'["src"]
        BY <2>2, <2>3, <2>6 DEF CopiedIsThere
      <3>1. \A j : Given(j) => Given(j)'
        BY <2>4 DEF Given
      <3> QED
        BY <1>1, <2>4, <3>1 DEF CopiedIsThere
    <2>11. StagesDone'
      BY <1>0, <1>1, <2>2, <2>5 DEF StagesDone
    <2> QED
      BY <2>8, <2>9, <2>10, <2>11 DEF PackInv
  <1>7. ASSUME NEW k \in Kind, AllCopied(k) PROVE PackInv'
    <2>1. /\ UNCHANGED <<drive_vars, tmp, run_vars, report>>
          /\ pc = k /\ pc' = IF k = "src" THEN "test" ELSE "build"
          /\ ToCopy(k) = {}
      BY <1>7 DEF AllCopied, Goto
    <2>2. CASE k = "src"
      <3>1. \A i \in wf.src : report.item["src"][Dest[i]] # "none"
        BY <2>1, <2>2 DEF ToCopy
      <3>2. StoredIsFull' /\ PackedIsFull'
        BY <1>1, <2>1, <2>2 DEF StoredIsFull, PackedIsFull, Packed, Full, Loaded, Stages, Fallible
      <3>3. PackedInTime' /\ CopiedIsThere'
        BY <1>1, <2>1, <2>2 DEF PackedInTime, CopiedIsThere, Given, Packed, Loaded, Stages, Fallible
      <3>4. StagesDone'
        BY <2>1, <2>2, <3>1 DEF StagesDone
      <3> QED
        BY <3>2, <3>3, <3>4 DEF PackInv
    <2>3. CASE k = "test"
      BY <2>1, <2>3, <1>a DEF Loaded, Stages, Fallible
    <2> QED
      BY <2>2, <2>3 DEF Kind
  <1>8. CASE BuildFile
    <2>1. /\ UNCHANGED <<drive_vars, run_vars>> /\ pc = "build" /\ pc' = "tar_src"
          /\ IF wf.build /\ report.build = "none"
             THEN /\ report' = [report EXCEPT !.build = "now"]
                  /\ tmp' = [tmp EXCEPT !["src"] = @ \cup {BuildTxt}]
             ELSE UNCHANGED <<report, tmp>>
      BY <1>8 DEF BuildFile, Goto
    <2>2. report'.tar = report.tar /\ report'.item = report.item
      BY <1>0, <2>1 DEF Report
    <2>3. /\ report.build = "none" => (report'.build # "none" => BuildTxt \in tmp'["src"])
          /\ report.build # "none" => report'.build # "none"
          /\ wf.build => report'.build # "none"
          /\ tmp["src"] \subseteq tmp'["src"]
      <3>1. CASE wf.build /\ report.build = "none"
        <4>1. /\ report' = [report EXCEPT !.build = "now"]
              /\ tmp' = [tmp EXCEPT !["src"] = @ \cup {BuildTxt}]
          BY <2>1, <3>1
        <4>2. report'.build = "now"
          BY <4>1, <1>0 DEF Report
        <4>3. tmp'["src"] = tmp["src"] \cup {BuildTxt}
          BY <4>1, <1>0, <1>2
        <4> QED
          BY <3>1, <4>2, <4>3
      <3>2. CASE ~(wf.build /\ report.build = "none")
        <4>1. UNCHANGED <<report, tmp>>
          BY <2>1, <3>2, Zenon
        <4> QED
          BY <3>2, <4>1
      <3> QED
        BY <3>1, <3>2
    <2>4. Packed(report)' <=> Packed(report)
      BY <2>2 DEF Packed
    <2>5. StoredIsFull' /\ PackedIsFull'
      BY <1>1, <2>1, <2>4 DEF StoredIsFull, PackedIsFull, Packed, Full, Loaded, Stages, Fallible
    <2>6. PackedInTime'
      BY <2>1 DEF PackedInTime
    <2>7. CopiedIsThere'
      <3>1. \A j : Given(j) => Given(j)'
        BY <2>3 DEF Given
      <3> QED
        BY <1>1, <2>1, <2>2, <2>3, <2>4, <3>1 DEF CopiedIsThere, Loaded, Stages, Fallible
    <2>8. StagesDone'
      BY <1>1, <2>1, <2>2, <2>3 DEF StagesDone
    <2> QED
      BY <2>5, <2>6, <2>7, <2>8 DEF PackInv
  <1>9. CASE TarSources
    <2>1. /\ UNCHANGED <<stored, saved, vers, wf, tmp>> /\ pc = "tar_src" /\ pc' = "tar_test"
          /\ Tar("src") /\ pc \in Loaded
      BY <1>9 DEF TarSources, Goto, Loaded, Stages, Fallible
    <2>2. CASE report.tar["src"] # "none"
      <3>1. UNCHANGED <<report, pkg>>
        BY <2>1, <2>2 DEF Tar
      <3> QED
        BY <1>a, <2>1, <2>2, <3>1 DEF Packed, Loaded, Stages, Fallible
    <2>3. CASE report.tar["src"] = "none"
      <3>1. /\ report' = [report EXCEPT !.tar["src"] = "now"]
            /\ pkg' = [pkg EXCEPT ![vers]["src"] = [there |-> TRUE, items |-> tmp["src"]]]
        BY <2>1, <2>3, Zenon DEF Tar
      <3>2. report'.tar["src"] = "now"
        BY <1>0, <1>2, <3>1 DEF Report
      <3>3. /\ pkg'[vers]["src"].items = tmp["src"]
            /\ \A v \in Vers : v # vers => pkg'[v]["src"] = pkg[v]["src"]
        <4>1. pkg[vers] \in [Kind -> Package]
          BY <1>0
        <4> QED
          BY <1>0, <1>2, <3>1, <4>1
      <3>4. ~Packed(report) /\ Packed(report)' /\ vers \notin stored
        BY <1>1, <2>1, <2>3, <3>2 DEF Packed
      <3>5. \A i \in wf.src : \E j \in wf.src : Dest[j] = Dest[i] /\ Given(j)
        BY <1>0, <1>1, <2>1, <3>4 DEF CopiedIsThere, StagesDone
      <3>6. wf.build => BuildTxt \in tmp["src"]
        BY <1>1, <2>1, <3>4 DEF CopiedIsThere, StagesDone
      <3>7. \A w \in Workflows : HasSources(w, tmp["src"])
        BY <1>0, <3>5, <3>6 DEF HasSources, Given, SameSources
      <3>8. \A w \in Workflows : HasSources(w, pkg'[vers]["src"].items)
        BY <3>3, <3>7
      <3>9. \A v \in stored : Packed(saved[v]) /\ \A w \in Workflows : HasSources(w, pkg'[v]["src"].items)
        BY <1>0, <1>1, <3>3, <3>4 DEF StoredIsFull, Full
      <3>10. StoredIsFull'
        BY <2>1, <3>9 DEF StoredIsFull, Packed, Full
      <3>11. PackedIsFull'
        BY <2>1, <3>8 DEF PackedIsFull, Full
      <3>12. PackedInTime' /\ CopiedIsThere' /\ StagesDone'
        BY <2>1, <3>4 DEF PackedInTime, CopiedIsThere, StagesDone
      <3> QED
        BY <3>10, <3>11, <3>12 DEF PackInv
    <2> QED
      BY <2>2, <2>3
  <1>10. CASE TarTests
    <2>1. /\ UNCHANGED <<stored, saved, vers, wf, tmp>> /\ pc = "tar_test" /\ pc' = "doc"
          /\ pc \in Loaded /\ pc' \in Loaded
      BY <1>10 DEF TarTests, Goto, Loaded, Stages, Fallible
    <2>2. \/ report' = report /\ pkg' = pkg
          \/ /\ report' = [report EXCEPT !.tar["test"] = "now"]
             /\ pkg' = [pkg EXCEPT ![vers]["test"] = [there |-> TRUE, items |-> tmp["test"]]]
      BY <1>10, Zenon DEF TarTests, Tar
    <2>3. /\ report'.tar["src"] = report.tar["src"] /\ report'.build = report.build
          /\ report'.item = report.item
      <3>1. [report EXCEPT !.tar["test"] = "now"].tar = [report.tar EXCEPT !["test"] = "now"]
        BY <1>0 DEF Report
      <3>2. report.tar \in [Kind -> Mark]
        BY <1>0 DEF Report
      <3>3. [report EXCEPT !.tar["test"] = "now"].tar["src"] = report.tar["src"]
        BY <1>2, <3>1, <3>2
      <3>4. /\ [report EXCEPT !.tar["test"] = "now"].build = report.build
            /\ [report EXCEPT !.tar["test"] = "now"].item = report.item
        BY <1>0 DEF Report
      <3> QED
        BY <2>2, <3>3, <3>4
    <2>4. \A v \in Vers : pkg'[v]["src"] = pkg[v]["src"]
      <3>1. CASE pkg' = pkg
        BY <3>1
      <3>2. CASE pkg' = [pkg EXCEPT ![vers]["test"] = [there |-> TRUE, items |-> tmp["test"]]]
        <4>1. pkg[vers] \in [Kind -> Package]
          BY <1>0
        <4>2. pkg'[vers]["src"] = pkg[vers]["src"]
          BY <1>0, <1>2, <3>2, <4>1
        <4> QED
          BY <1>0, <3>2, <4>2
      <3> QED
        BY <2>2, <3>1, <3>2
    <2>5. Packed(report)
      BY <1>1, <2>1 DEF PackedInTime
    <2> QED
      BY <1>a, <2>1, <2>3, <2>4, <2>5
  <1>11. CASE SkipDoc \/ DocFromCache \/ GenerateDoc \/ StoreStdout \/ StoreStderr \/ UploadDoc \/ SkipJobs
    <2>1. /\ pc \in Loaded \ {"src", "test", "build", "tar_src"}
          /\ pc' \in Loaded \ {"src", "test", "build", "tar_src"}
      BY <1>11 DEF SkipDoc, DocFromCache, GenerateDoc, StoreStdout, StoreStderr, UploadDoc,
                  SkipJobs, StoreDoc, Goto, Loaded, Stages, Fallible
    <2>2. DocDone => /\ report'.tar = report.tar /\ report'.item = report.item
                     /\ report'.build = report.build
      BY <1>0 DEF DocDone, Report
    <2>3. /\ report'.tar = report.tar /\ report'.item = report.item /\ report'.build = report.build
          /\ UNCHANGED <<stored, saved, vers, wf, pkg, tmp>>
      BY <1>11, <2>2 DEF SkipDoc, DocFromCache, GenerateDoc, StoreStdout, StoreStderr, UploadDoc,
                        SkipJobs, StoreDoc
    <2>4. Packed(report)
      BY <1>1, <2>1 DEF PackedInTime
    <2> QED
      BY <1>a, <2>1, <2>3, <2>4
  <1>12. CASE RunJobs
    <2>1. /\ pc = "jobs" /\ pc' = "save" /\ pc \in Loaded /\ pc' \in Loaded
          /\ UNCHANGED <<stored, saved, pkg, vers, wf, tmp>>
      BY <1>12 DEF RunJobs, Goto, Loaded, Stages
    <2>2. PICK built : report' = Built(WithJobs(report), built)
      BY <1>12 DEF RunJobs
    <2>3. WithJobs(report) \in Report
      BY <1>0, WithJobsType
    <2>4. /\ WithJobs(report).tar = report.tar /\ WithJobs(report).item = report.item
          /\ WithJobs(report).build = report.build
      BY <1>0 DEF WithJobs, Report
    <2>5. report'.tar = report.tar /\ report'.item = report.item /\ report'.build = report.build
      BY <2>2, <2>3, <2>4 DEF Built, Report
    <2>6. Packed(report)
      BY <1>1, <2>1 DEF PackedInTime, Loaded
    <2> QED
      BY <1>a, <2>1, <2>5, <2>6
  <1>13. CASE SaveReport
    <2>1. /\ pc = "save" /\ pc' = "unlock" /\ pkg' = pkg /\ pc \in Loaded
      BY <1>13 DEF SaveReport, Goto, Loaded, Stages
    <2>2. \/ stored' = stored /\ saved' = saved
          \/ stored' = stored \cup {vers} /\ saved' = [saved EXCEPT ![vers] = report]
      BY <1>13 DEF SaveReport
    <2>3. Packed(report) /\ Full(vers)
      BY <1>1, <2>1 DEF PackedInTime, PackedIsFull
    <2>4. StoredIsFull'
      BY <1>0, <1>1, <2>1, <2>2, <2>3 DEF StoredIsFull, Packed, Full
    <2>5. pc' \notin Loaded
      BY <2>1 DEF Loaded
    <2> QED
      BY <2>1, <2>4, <2>5 DEF PackInv, PackedIsFull, PackedInTime, CopiedIsThere, StagesDone
  \* A cut package is that of a version without a report; a cut report is none.
  <1>14. ASSUME NEW k \in Kind, CutTar(k) PROVE PackInv'
    <2>1. /\ pc' \notin Loaded /\ pc' \in {"unlock", "idle"} /\ UNCHANGED <<stored, saved>>
          /\ pkg' = [pkg EXCEPT ![vers][k] = [there |-> TRUE, items |-> {}]]
          /\ report.tar[k] = "none" /\ pc \in Loaded
      BY <1>14, InterruptedEnds DEF CutTar, Kind, Loaded, Stages, Fallible
    <2>2. k = "src" => vers \notin stored
      BY <1>1, <2>1 DEF Packed
    <2>3. \A v \in stored : pkg'[v]["src"] = pkg[v]["src"]
      <3>1. \A v \in Vers : v # vers => pkg'[v] = pkg[v]
        BY <1>0, <2>1
      <3>2. k # "src" => pkg'[vers]["src"] = pkg[vers]["src"]
        <4>1. pkg[vers] \in [Kind -> Package]
          BY <1>0
        <4> QED
          BY <1>0, <1>2, <2>1, <4>1
      <3> QED
        BY <1>0, <2>2, <3>1, <3>2
    <2>4. StoredIsFull'
      BY <1>1, <2>1, <2>3 DEF StoredIsFull, Packed, Full
    <2> QED
      BY <2>1, <2>4 DEF PackInv, PackedIsFull, PackedInTime, CopiedIsThere, StagesDone
  <1>15. CASE CutReport
    <2>1. /\ pc' \notin Loaded /\ pc' \in {"unlock", "idle"} /\ pkg' = pkg
          /\ stored' = stored \ {vers} /\ saved' = [saved EXCEPT ![vers] = NewReport]
      BY <1>15, InterruptedEnds DEF CutReport
    <2>2. \A v \in stored' : v \in stored /\ saved'[v] = saved[v]
      BY <1>0, <2>1
    <2>3. StoredIsFull'
      BY <1>1, <2>1, <2>2 DEF StoredIsFull, Packed, Full
    <2> QED
      BY <2>1, <2>3 DEF PackInv, PackedIsFull, PackedInTime, CopiedIsThere, StagesDone
  <1> QED
    BY <1>3, <1>4, <1>5, <1>6, <1>7, <1>8, <1>9, <1>10, <1>11, <1>12, <1>13, <1>14, <1>15
       DEF Next, Stage, Cut

\* When the sources and the file 'build' are the same in all contents workflow.json
\* may have (its jobs, tests and documentation may change), the package of the
\* version whose jobs start is that of the workflow, with no other hole than where
\* svn gave nothing and nobody saw it, after whatever failures and kills left
\* half-filled folders, cut packages, packages without a report and locks behind.
THEOREM PackageHoldsWorkflowHolds ==
  ASSUME SameSources
  PROVE  Spec => []PackageHoldsWorkflow
  <1>1. Init => PackInv
    BY DEF Init, PackInv, StoredIsFull, PackedIsFull, PackedInTime, CopiedIsThere, StagesDone, Loaded
  <1>2. TypeOK /\ FrozenInv /\ PackInv /\ [Next]_vars => PackInv'
    BY PackStep
  <1>3. TypeOK /\ PackInv => PackageHoldsWorkflow
    <2> SUFFICES ASSUME TypeOK, PackInv, pc = "jobs"
                 PROVE  HasSources(wf, pkg[vers]["src"].items)
      BY DEF PackageHoldsWorkflow, JobsStart
    <2>1. Packed(report) /\ Full(vers)
      BY DEF PackInv, PackedInTime, PackedIsFull, Loaded, Stages
    <2> QED
      BY <2>1 DEF Full, TypeOK
  <1> QED
    BY <1>1, <1>2, <1>3, TypeCorrect, FrozenInvHolds, PTL DEF Spec

-----------------------------------------------------------------------------
(* Priorities are stages.                                                  *)

JobsOf(w) == {w.jobs[n] : n \in 1..Len(w.jobs)}

InOrder(r) ==
    \A i, j \in Known(r) :
        (Priority[i] < Priority[j] /\ r.done[j] /\ Priority[i] > 0) => r.done[i]

\* A report knows no job or all of them, and a job it does not know is not done.
Staged(r) ==
    /\ InOrder(r)
    /\ Known(r) # {} => \A w \in Workflows : Known(r) = JobsOf(w)
    /\ \A j \in JobName : r.done[j] => j \in Known(r)

StageInv ==
    /\ \A v \in stored : Staged(saved[v])
    /\ pc \in Loaded => Staged(report)
    /\ forced = {}

\* Only the positions and the jobs done matter.
LEMMA StagedAlike ==
  ASSUME NEW r, NEW s, s.position = r.position, s.done = r.done, Staged(r)
  PROVE  Staged(s)
  BY DEF Staged, InOrder, Known

\* i_add_job gives every new job a position.
LEMMA WithJobsKnows ==
  ASSUME wf \in Workflows, NEW r \in Report
  PROVE  /\ Known(WithJobs(r)) = Known(r) \cup WorkflowJobs
         /\ WithJobs(r).done = r.done
  <1>1. IsFiniteSet(Known(r)) /\ Cardinality(Known(r)) \in Nat
    BY WorkflowAssumption, FS_Subset, FS_CardinalityType DEF Known
  <1>2. WorkflowJobs \subseteq JobName
    BY WorkflowAssumption DEF WorkflowJobs, Workflow
  <1>3. \A j \in WorkflowJobs \ Known(r) : Rank(r, j) \in Nat \ {0}
    <2> SUFFICES ASSUME NEW j \in WorkflowJobs, j \notin Known(r) PROVE Rank(r, j) \in Nat \ {0}
      OBVIOUS
    <2> DEFINE index == CHOOSE n \in 1..Len(wf.jobs) : wf.jobs[n] = j
               new == {wf.jobs[n] : n \in 1..index} \ Known(r)
    <2>1. index \in 1..Len(wf.jobs) /\ wf.jobs[index] = j
      BY DEF WorkflowJobs
    <2>2. wf.jobs \in Seq(JobName)
      BY WorkflowAssumption DEF Workflow
    <2> HIDE DEF index
    <2>3. new \subseteq JobName /\ j \in new
      BY <2>1, <2>2
    <2>4. IsFiniteSet(new)
      BY <2>3, WorkflowAssumption, FS_Subset
    <2>5. Cardinality(new) \in Nat /\ Cardinality(new) # 0
      BY <2>3, <2>4, FS_CardinalityType, FS_EmptySet
    <2> QED
      BY <2>5 DEF Rank, index
  <1> DEFINE pos == [j \in JobName |->
                IF j \in WorkflowJobs \ Known(r) THEN Cardinality(Known(r)) + Rank(r, j)
                                                 ELSE r.position[j]]
  <1>4. WithJobs(r).position = pos /\ WithJobs(r).done = r.done
    BY DEF WithJobs, Report
  <1>5. \A j \in JobName : pos[j] # 0 <=> j \in Known(r) \cup WorkflowJobs
    BY <1>1, <1>3 DEF Known
  <1> HIDE DEF pos
  <1> QED
    BY <1>2, <1>4, <1>5 DEF Known

\* sched_start works off one priority: when a job is done there, those of every
\* smaller priority were done before.
LEMMA BuiltInOrder ==
  ASSUME wf \in Workflows, \A w, x \in Workflows : JobsOf(w) = JobsOf(x), forced = {},
         NEW r \in Report, Staged(r), NEW built \in SUBSET Selected(WithJobs(r))
  PROVE  Staged(Built(WithJobs(r), built))
  <1> DEFINE q == WithJobs(r)
             s == Built(q, built)
  <1>1. WorkflowJobs = JobsOf(wf) /\ WorkflowJobs \subseteq JobName
    BY WorkflowAssumption DEF WorkflowJobs, JobsOf, Workflow
  <1>2. q \in Report /\ Known(q) = WorkflowJobs /\ q.done = r.done
    <2>1. q \in Report
      BY WithJobsType
    <2>2. Known(q) = Known(r) \cup WorkflowJobs /\ q.done = r.done
      BY WithJobsKnows
    <2>3. Known(r) = {} \/ Known(r) = WorkflowJobs
      BY <1>1 DEF Staged
    <2> HIDE DEF q
    <2> QED
      BY <2>1, <2>2, <2>3
  <1>3. \A j \in JobName : q.done[j] => j \in Known(r)
    BY <1>2 DEF Staged
  <1>4. InOrder(q)
    <2> SUFFICES ASSUME NEW i \in Known(q), NEW j \in Known(q), Priority[i] < Priority[j],
                        q.done[j], Priority[i] > 0
                 PROVE  q.done[i]
      BY DEF InOrder
    <2>1. j \in Known(r)
      BY <1>1, <1>2, <1>3
    <2>2. Known(r) = Known(q)
      BY <1>1, <1>2, <2>1 DEF Staged
    <2> QED
      BY <1>2, <2>1, <2>2 DEF Staged, InOrder
  <1>5. Selected(q) = SelectJobs(q)
    BY DEF Selected
  <1>6. s.position = q.position
    BY <1>2 DEF Built, Report
  <1>7. \A j \in JobName : s.done[j] = (IF j \in SelectJobs(q) THEN j \in built ELSE q.done[j])
    BY <1>2, <1>5 DEF Built, Report
  <1> HIDE DEF q, s
  <1>8. Known(s) = WorkflowJobs
    BY <1>2, <1>6 DEF Known
  <1>9. \A j \in JobName : s.done[j] => q.done[j] \/ j \in SelectJobs(q)
    BY <1>7
  <1>10. \A j \in JobName : q.done[j] => s.done[j]
    <2> SUFFICES ASSUME NEW j \in JobName, q.done[j] PROVE s.done[j]
      OBVIOUS
    <2>1. j \notin SelectJobs(q)
      BY DEF SelectJobs, Pending
    <2> QED
      BY <1>7, <2>1
  <1>11. InOrder(s)
    <2> SUFFICES ASSUME NEW i \in WorkflowJobs, NEW j \in WorkflowJobs, Priority[i] < Priority[j],
                        s.done[j], Priority[i] > 0
                 PROVE  q.done[i]
      BY <1>1, <1>8, <1>10 DEF InOrder
    <2>1. CASE q.done[j]
      BY <1>2, <1>4, <2>1 DEF InOrder
    <2>2. CASE j \in SelectJobs(q)
      <3>1. Priority[i] \in Nat /\ Priority[j] \in Nat
        BY <1>1, WorkflowAssumption
      <3>2. Priority[j] \in 1..MaxPriority /\ \A k \in Pending(q) : Priority[j] <= Priority[k]
        BY <2>2 DEF SelectJobs, Pending
      <3>3. i \notin Pending(q)
        BY <3>1, <3>2
      <3>4. Priority[i] \in 1..MaxPriority
        BY <3>1, <3>2 DEF MaxPriority
      <3> QED
        BY <3>3, <3>4 DEF Pending
    <2> QED
      BY <1>1, <1>9, <2>1, <2>2
  <1>12. \A j \in JobName : s.done[j] => j \in WorkflowJobs
    BY <1>2, <1>3, <1>9, <1>1 DEF Staged, SelectJobs, Pending
  <1>13. \A w \in Workflows : WorkflowJobs = JobsOf(w)
    BY <1>1
  <1>14. Staged(s)
    BY <1>8, <1>11, <1>12, <1>13 DEF Staged
  <1> QED
    BY <1>14 DEF s, q

LEMMA StageStep ==
  ASSUME \A w, x \in Workflows : JobsOf(w) = JobsOf(x), Forces = {{}},
         TypeOK, StageInv, [Next]_vars
  PROVE  StageInv'
  <1> USE DEF env_vars, drive_vars, run_vars
  <1>0. /\ saved \in [Vers -> Report] /\ report \in Report /\ vers \in Vers /\ stored \subseteq Vers
        /\ wf \in Workflows
    BY DEF TypeOK
  \* Steps that leave the jobs of the reports alone.
  <1>a. ASSUME UNCHANGED <<stored, saved>>, forced' = {},
               pc' \in Loaded => /\ pc \in Loaded /\ report'.position = report.position
                                 /\ report'.done = report.done
        PROVE  StageInv'
    <2>1. pc' \in Loaded => Staged(report')
      BY <1>a, StagedAlike DEF StageInv
    <2> QED
      BY <1>a, <2>1 DEF StageInv, Staged, InOrder, Known
  <1>1. CASE Commit \/ CommitDoc \/ EditWorkflow \/ RemoveLock \/ UNCHANGED vars
    BY <1>1, <1>a DEF Commit, CommitDoc, EditWorkflow, RemoveLock, vars, StageInv
  <1>2. CASE Start \/ CreateTempPaths \/ Refused \/ LoadTorn \/ Unlock \/ Fail \/ Crash
    <2>1. UNCHANGED <<stored, saved>> /\ pc' \in {"lock", "load", "idle", "unlock"} /\ forced' = {}
      BY <1>2 DEF Start, CreateTempPaths, Refused, LoadTorn, Unlock, Fail, Crash, Goto, Forget, StageInv
    <2> QED
      BY <2>1, <1>a DEF Loaded
  <1>3. CASE LoadReport
    <2>1. /\ UNCHANGED <<stored, saved, forced>>
          /\ report' = IF vers \in stored THEN NextLoop(saved[vers]) ELSE NewReport
      BY <1>3 DEF LoadReport
    <2>2. CASE vers \in stored
      <3>1. report'.position = saved[vers].position /\ report'.done = saved[vers].done
        BY <2>1, <2>2 DEF NextLoop
      <3>2. Staged(report')
        BY <2>2, <3>1, StagedAlike DEF StageInv
      <3> QED
        BY <2>1, <3>2 DEF StageInv, Staged, InOrder, Known
    <2>3. CASE vers \notin stored
      <3>1. report' = NewReport
        BY <2>1, <2>3
      <3>2. Known(report') = {} /\ \A j \in JobName : ~report'.done[j]
        BY <3>1 DEF NewReport, Known
      <3>3. Staged(report')
        BY <3>2 DEF Staged, InOrder
      <3> QED
        BY <2>1, <3>3 DEF StageInv, Staged, InOrder, Known
    <2> QED
      BY <2>2, <2>3
  <1>4. ASSUME NEW k \in Kind, CopyTarget(k) PROVE StageInv'
    <2>1. PICK i \in ToCopy(k) : report' = [report EXCEPT !.item[k][Dest[i]] = "now"]
      BY <1>4 DEF CopyTarget
    <2>2. report'.done = report.done /\ report'.position = report.position
      BY <1>0, <2>1 DEF Report
    <2> QED
      BY <1>4, <1>a, <2>2 DEF CopyTarget, StageInv
  <1>5. ASSUME NEW k \in Kind, AllCopied(k) PROVE StageInv'
    BY <1>5, <1>a DEF AllCopied, Goto, Loaded, Kind, Stages, Fallible, StageInv
  <1>6. CASE BuildFile \/ TarSources \/ TarTests
    <2>1. \A k \in Kind : Tar(k) => report'.done = report.done /\ report'.position = report.position
      BY <1>0 DEF Tar, Report
    <2>2. report'.done = report.done /\ report'.position = report.position
      BY <1>6, <1>0, <2>1 DEF BuildFile, TarSources, TarTests, Kind, Report
    <2>3. UNCHANGED <<stored, saved, forced>> /\ pc \in Loaded
      BY <1>6 DEF BuildFile, TarSources, TarTests, Goto, Loaded, Stages, Fallible
    <2> QED
      BY <1>a, <2>2, <2>3 DEF StageInv
  <1>7. CASE SkipDoc \/ DocFromCache \/ GenerateDoc \/ StoreStdout \/ StoreStderr \/ UploadDoc \/ SkipJobs
    <2>1. pc \in Loaded
      BY <1>7 DEF SkipDoc, DocFromCache, GenerateDoc, StoreStdout, StoreStderr, UploadDoc,
                  SkipJobs, StoreDoc, Goto, Loaded, Stages, Fallible
    <2>2. DocDone => report'.done = report.done /\ report'.position = report.position
      BY <1>0 DEF DocDone, Report
    <2>3. /\ report'.done = report.done /\ report'.position = report.position
          /\ UNCHANGED <<stored, saved, forced>>
      BY <1>7, <2>2 DEF SkipDoc, DocFromCache, GenerateDoc, StoreStdout, StoreStderr, UploadDoc,
                        SkipJobs, StoreDoc
    <2> QED
      BY <1>a, <2>1, <2>3 DEF StageInv
  <1>8. CASE RunJobs
    <2>1. /\ pc = "jobs" /\ UNCHANGED <<stored, saved, forced>>
      BY <1>8 DEF RunJobs, Goto
    <2>2. PICK built \in SUBSET Selected(WithJobs(report)) : report' = Built(WithJobs(report), built)
      BY <1>8 DEF RunJobs
    <2>3. Staged(report) /\ forced = {}
      BY <2>1 DEF StageInv, Loaded, Stages
    <2>4. Staged(report')
      BY <1>0, <2>2, <2>3, BuiltInOrder
    <2> QED
      BY <2>1, <2>4 DEF StageInv, Staged, InOrder, Known
  <1>9. CASE SaveReport
    <2>1. pc = "save" /\ pc' = "unlock" /\ forced' = forced
      BY <1>9 DEF SaveReport, Goto
    <2>2. \/ stored' = stored /\ saved' = saved
          \/ stored' = stored \cup {vers} /\ saved' = [saved EXCEPT ![vers] = report]
      BY <1>9 DEF SaveReport
    <2>3. Staged(report) /\ forced = {} /\ \A v \in stored : Staged(saved[v])
      BY <2>1 DEF StageInv, Loaded, Stages
    <2>4. \A v \in stored' : Staged(saved'[v])
      BY <1>0, <2>2, <2>3
    <2>5. pc' \notin Loaded
      BY <2>1 DEF Loaded
    <2> QED
      BY <2>1, <2>3, <2>4, <2>5 DEF StageInv, Staged, InOrder, Known
  <1>10. CASE CutSite \/ \E k \in Kind : CutTar(k)
    <2>1. UNCHANGED <<stored, saved>> /\ pc' \notin Loaded /\ forced' = {}
      BY <1>10, InterruptedEnds DEF CutSite, CutTar, StageInv
    <2> QED
      BY <2>1, <1>a
  <1>11. CASE CutReport
    <2>1. /\ pc' \notin Loaded /\ stored' = stored \ {vers} /\ forced' = {}
          /\ saved' = [saved EXCEPT ![vers] = NewReport]
      BY <1>11, InterruptedEnds DEF CutReport, StageInv
    <2>2. \A v \in stored' : v \in stored /\ saved'[v] = saved[v]
      BY <1>0, <2>1
    <2>3. \A v \in stored' : Staged(saved'[v])
      BY <2>2 DEF StageInv
    <2> QED
      BY <2>1, <2>3 DEF StageInv, Staged, InOrder, Known
  <1> QED
    BY <1>1, <1>2, <1>3, <1>4, <1>5, <1>6, <1>7, <1>8, <1>9, <1>10, <1>11 DEF Next, Stage, Cut

\* When the jobs of workflow.json are the same in all its contents and -j is not
\* used, no report on the drive has a job done before all jobs of every smaller
\* priority: not after failed boots, killed runs, lost saves and new versions.
THEOREM PriorityOrderHolds ==
  ASSUME \A w, x \in Workflows : JobsOf(w) = JobsOf(x), Forces = {{}}
  PROVE  Spec => []PriorityOrder
  <1>1. Init => StageInv
    BY DEF Init, StageInv, Loaded
  <1>2. TypeOK /\ StageInv /\ [Next]_vars => StageInv'
    BY StageStep
  <1>3. StageInv => PriorityOrder
    BY DEF StageInv, Staged, InOrder, PriorityOrder
  <1> QED
    BY <1>1, <1>2, <1>3, TypeCorrect, PTL DEF Spec
==============================================================================
