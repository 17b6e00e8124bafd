----------------------------- MODULE PartsProofs -----------------------------
(***************************************************************************)
(* Proofs about the parts that one build touches: the lock of Instances,   *)
(* the files of RunBuild and the commands of Proc, for any number of runs, *)
(* of jobs, versions and commands, and of kills and failures.              *)
(***************************************************************************)
EXTENDS Proc, RunBuild, Instances, FiniteSetTheorems, TLAPS

-----------------------------------------------------------------------------
(* Instances.                                                              *)

\* Every run is at a known stage, and the files belong to runs.
THEOREM LockTypeCorrect == LockSpec => []LockTypeOK
  <1> USE DEF Creating, Inside, Stopped
  <1>1. LockInit => LockTypeOK
    <2> SUFFICES ASSUME LockInit PROVE LockTypeOK
      OBVIOUS
    <2>1. kills \in 0..MaxKills
      BY InstancesAssumption, SMT DEF LockInit
    <2>4. folder \in BOOLEAN /\ lock \in BOOLEAN /\ files \subseteq Run /\ raced \in BOOLEAN
      BY Zenon DEF LockInit
    <2>2. rpc \in [Run -> {"off"} \cup Creating \cup Inside \cup Stopped]
      BY DEF LockInit
    <2>3. mine \in [Run -> BOOLEAN] /\ packed \in [Run -> SUBSET Run]
      BY DEF LockInit
    <2> QED
      BY <2>1, <2>2, <2>3, <2>4 DEF LockTypeOK
  <1>2. LockTypeOK /\ [LockNext]_lock_vars => LockTypeOK'
    <2> SUFFICES ASSUME LockTypeOK, [LockNext]_lock_vars PROVE LockTypeOK'
      OBVIOUS
    <2> USE DEF LockTypeOK, Advance
    <2>1. ASSUME NEW p \in Run,
                 Start(p) \/ CheckLock(p) \/ CreateFolder(p) \/ SetWork(p)
                 \/ WriteLock(p) \/ Fill(p) \/ PackFiles(p) \/ Fail(p) \/ ReleaseLock(p)
          PROVE  LockTypeOK'
      BY <2>1 DEF Start, CheckLock, CreateFolder, SetWork, WriteLock, Fill, PackFiles, Fail, ReleaseLock
    <2>2. ASSUME NEW p \in Run, DestroyFolder(p) PROVE LockTypeOK'
      BY <2>2 DEF DestroyFolder
    <2>3. ASSUME NEW p \in Run, KillRun(p) PROVE LockTypeOK'
      BY <2>3, InstancesAssumption DEF KillRun
    <2>4. CASE RemoveLock \/ AllEnded \/ UNCHANGED lock_vars
      BY <2>4 DEF RemoveLock, AllEnded, lock_vars
    <2> QED
      BY <2>1, <2>2, <2>3, <2>4 DEF LockNext
  <1> QED
    BY <1>1, <1>2, PTL DEF LockSpec

-----------------------------------------------------------------------------
\* No sequence of runs, overlapping or not, leaves a lock file that neither a
\* run still in the folder nor a killed one has written.
THEOREM LockHasOwnerHolds == LockSpec => []LockHasOwner
  <1> USE DEF Creating, Inside, Stopped
  <1>1. LockInit => LockHasOwner
    BY DEF LockInit, LockHasOwner
  <1>2. LockTypeOK /\ LockHasOwner /\ [LockNext]_lock_vars => LockHasOwner'
    <2> SUFFICES ASSUME LockTypeOK, LockHasOwner, [LockNext]_lock_vars, lock'
                 PROVE  \E q \in Run : mine'[q] /\ rpc'[q] \in Inside \cup {"killed"}
      BY DEF LockHasOwner
    <2> USE DEF LockTypeOK, LockHasOwner, Advance
    <2>1. ASSUME NEW p \in Run,
                 Start(p) \/ CheckLock(p) \/ CreateFolder(p) \/ SetWork(p) \/ PackFiles(p)
                 \/ Fill(p) \/ Fail(p) \/ DestroyFolder(p)
          PROVE  \E q \in Run : mine'[q] /\ rpc'[q] \in Inside \cup {"killed"}
      <3>1. PICK q \in Run : mine[q] /\ rpc[q] \in Inside \cup {"killed"}
        BY <2>1 DEF Start, CheckLock, CreateFolder, SetWork, PackFiles, Fill, Fail, DestroyFolder
      <3>2. mine' = mine /\ rpc'[q] \in Inside \cup {"killed"}
        BY <2>1, <3>1
           DEF Start, CheckLock, CreateFolder, SetWork, PackFiles, Fill, Fail, DestroyFolder
      <3> QED
        BY <3>1, <3>2
    <2>2. ASSUME NEW p \in Run, WriteLock(p)
          PROVE  \E q \in Run : mine'[q] /\ rpc'[q] \in Inside \cup {"killed"}
      <3>1. CASE folder
        BY <2>2, <3>1 DEF WriteLock
      <3>2. CASE ~folder
        <4>1. PICK q \in Run : mine[q] /\ rpc[q] \in Inside \cup {"killed"}
          BY <2>2, <3>2 DEF WriteLock
        <4>2. q # p /\ mine'[q] = mine[q] /\ rpc'[q] = rpc[q]
          BY <2>2, <4>1 DEF WriteLock
        <4> QED
          BY <4>1, <4>2
      <3> QED
        BY <3>1, <3>2
    <2>3. ASSUME NEW p \in Run, ReleaseLock(p)
          PROVE  \E q \in Run : mine'[q] /\ rpc'[q] \in Inside \cup {"killed"}
      <3>1. PICK q \in Run : mine[q] /\ rpc[q] \in Inside \cup {"killed"}
        BY <2>3 DEF ReleaseLock
      <3>2. q # p /\ mine'[q] = mine[q] /\ rpc'[q] = rpc[q]
        BY <2>3, <3>1 DEF ReleaseLock
      <3> QED
        BY <3>1, <3>2
    <2>4. ASSUME NEW p \in Run, KillRun(p)
          PROVE  \E q \in Run : mine'[q] /\ rpc'[q] \in Inside \cup {"killed"}
      BY <2>4 DEF KillRun
    <2>5. CASE RemoveLock \/ AllEnded \/ UNCHANGED lock_vars
      BY <2>5 DEF RemoveLock, AllEnded, lock_vars
    <2> QED
      BY <2>1, <2>2, <2>3, <2>4, <2>5 DEF LockNext
  <1> QED
    BY <1>1, <1>2, LockTypeCorrect, PTL DEF LockSpec

-----------------------------------------------------------------------------
(* Runs of which none has started while another created its paths.         *)

Holder(p)   == mine[p] /\ rpc[p] \in Inside
Replacing   == Creating \ {"check"}
OwnStages   == {"create", "chdir", "write"}

\* One run at a time creates its paths, and past the check it knows that no run
\* holds the lock; a run in the folder holds it, and alone.
SerialInv ==
    /\ \A p, q \in Run : rpc[p] \in Creating /\ rpc[q] \in Creating => p = q
    /\ \A p \in Run : rpc[p] \in {"fill", "pack"} => mine[p]
    /\ \A p \in Run : rpc[p] \in Creating \cup {"off"} => ~mine[p]
    /\ \A p, q \in Run : Holder(p) /\ Holder(q) => p = q
    /\ \A p \in Run : Holder(p) => lock
    /\ \A p \in Run : rpc[p] \in Replacing => ~lock
    /\ \A p \in Run : rpc[p] \in OwnStages => files = {}
    /\ \A p \in Run : rpc[p] \in {"fill", "pack"} => files \subseteq {p}

\* Every package holds the sources of its own run alone.
PackageIsOwn == \A p \in Run : packed[p] \subseteq {p}

\* One step of a run that has met no other keeps all of it.
LEMMA SerialStep ==
  ASSUME LockTypeOK, SerialInv, PackageIsOwn, [LockNext]_lock_vars, ~raced'
  PROVE  SerialInv' /\ PackageIsOwn'
  <1> USE DEF Creating, Inside, Stopped, Replacing, OwnStages, Holder
  <1> USE DEF LockTypeOK, SerialInv, PackageIsOwn, Advance
  <1>1. ASSUME NEW p \in Run, Start(p) PROVE SerialInv' /\ PackageIsOwn'
    <2>1. \A q \in Run : rpc[q] \notin Creating
      BY <1>1 DEF Start
    <2>2. rpc[p] = "off" /\ rpc' = [rpc EXCEPT ![p] = "check"]
      BY <1>1 DEF Start
    <2>3. UNCHANGED <<lock, files, mine, packed>>
      BY <1>1 DEF Start
    <2> QED
      BY <2>1, <2>2, <2>3
  <1>2. ASSUME NEW p \in Run, CheckLock(p) PROVE SerialInv' /\ PackageIsOwn'
    BY <1>2 DEF CheckLock
  <1>3. ASSUME NEW p \in Run, DestroyFolder(p) PROVE SerialInv' /\ PackageIsOwn'
    <2>1. CASE /\ Advance(p, "destroy", "create")
               /\ folder' = FALSE /\ lock' = FALSE /\ files' = {}
      BY <1>3, <2>1 DEF DestroyFolder
    <2>2. CASE /\ Advance(p, "destroy", "unlock")
               /\ lock' \in BOOLEAN /\ (lock' => lock) /\ files' \in SUBSET files
      <3>1. ~lock /\ ~lock' /\ ~mine[p]
        <4>1. rpc[p] = "destroy"
          BY <2>2
        <4>2. ~lock /\ ~mine[p]
          BY <4>1
        <4> QED
          BY <2>2, <4>2
      <3>2. \A q \in Run : ~Holder(q) /\ rpc[q] \notin {"fill", "pack"}
        BY <3>1
      <3> QED
        BY <1>3, <2>2, <3>1, <3>2 DEF DestroyFolder
    <2> QED
      BY <1>3, <2>1, <2>2 DEF DestroyFolder
  <1>4. ASSUME NEW p \in Run, CreateFolder(p) \/ SetWork(p) PROVE SerialInv' /\ PackageIsOwn'
    BY <1>4 DEF CreateFolder, SetWork
  <1>5. ASSUME NEW p \in Run, WriteLock(p) PROVE SerialInv' /\ PackageIsOwn'
    BY <1>5 DEF WriteLock
  <1>6. ASSUME NEW p \in Run, Fill(p) PROVE SerialInv' /\ PackageIsOwn'
    BY <1>6 DEF Fill
  <1>7. ASSUME NEW p \in Run, PackFiles(p) PROVE SerialInv' /\ PackageIsOwn'
    BY <1>7 DEF PackFiles
  <1>8. ASSUME NEW p \in Run, Fail(p) PROVE SerialInv' /\ PackageIsOwn'
    BY <1>8 DEF Fail
  <1>9. ASSUME NEW p \in Run, ReleaseLock(p) PROVE SerialInv' /\ PackageIsOwn'
    BY <1>9 DEF ReleaseLock
  <1>10. ASSUME NEW p \in Run, KillRun(p) PROVE SerialInv' /\ PackageIsOwn'
    BY <1>10 DEF KillRun
  <1>11. CASE RemoveLock \/ AllEnded \/ UNCHANGED lock_vars
    BY <1>11 DEF RemoveLock, AllEnded, lock_vars
  <1> QED
    BY <1>1, <1>2, <1>3, <1>4, <1>5, <1>6, <1>7, <1>8, <1>9, <1>10, <1>11 DEF LockNext

\* What every behaviour keeps until two runs create their paths at once.
ApartInv == ~raced => SerialInv /\ PackageIsOwn

LEMMA ApartInvHolds == LockSpec => []ApartInv
  <1>1. LockInit => ApartInv
    BY DEF LockInit, ApartInv, SerialInv, PackageIsOwn, Creating, Inside, Replacing, OwnStages, Holder
  <1>2. LockTypeOK /\ ApartInv /\ [LockNext]_lock_vars => ApartInv'
    <2> SUFFICES ASSUME LockTypeOK, ApartInv, [LockNext]_lock_vars, ~raced'
                 PROVE  SerialInv' /\ PackageIsOwn'
      BY DEF ApartInv
    <2>1. ~raced
      BY DEF LockTypeOK, LockNext, lock_vars, Start, CheckLock, DestroyFolder, CreateFolder, SetWork,
             WriteLock, Fill, PackFiles, Fail, ReleaseLock, KillRun, RemoveLock, AllEnded
    <2> QED
      BY <2>1, SerialStep DEF ApartInv
  <1> QED
    BY <1>1, <1>2, LockTypeCorrect, PTL DEF LockSpec

\* While no run has started in the middle of another's creation, the lock keeps
\* all but one out of the folder, however many runs have failed or been killed.
THEOREM AloneHolds == LockSpec => []AloneUnlessRaced
  <1>1. ApartInv => AloneUnlessRaced
    BY DEF ApartInv, SerialInv, Holder, Inside, AloneUnlessRaced, OneRunInside
  <1> QED
    BY <1>1, ApartInvHolds, PTL

\* With the same condition a package holds the sources of its own run and nothing
\* that a failed or killed run has left in the folder.
THEOREM CleanHolds == LockSpec => []CleanUnlessRaced
  <1>1. ApartInv => CleanUnlessRaced
    BY DEF ApartInv, PackageIsOwn, CleanUnlessRaced
  <1> QED
    BY <1>1, ApartInvHolds, PTL

-----------------------------------------------------------------------------
(* RunBuild.                                                               *)

Step == Ended \cup TestSteps \cup {"clear", "get_source", "tools", "configure", "compile",
                                   "install", "sign", "pack", "copy"}

-----------------------------------------------------------------------------
(* What a build and its files are.                                         *)

LEMMA WholeIsFiles == ASSUME NEW v \in Version PROVE Whole(v) \subseteq Files
  BY RunBuildAssumption DEF Whole, Files, Version

LEMMA HomeIsFiles == Home \subseteq Files
  BY RunBuildAssumption DEF Home, Files

\* Every variable of a build keeps its type.
THEOREM BuildTypeCorrect == BuildSpec => []BuildTypeOK
  <1>1. BuildInit => BuildTypeOK
    <2> SUFFICES ASSUME BuildInit PROVE BuildTypeOK
      OBVIOUS
    <2>1. vers \in Version /\ calls \in 0..MaxCalls
      BY RunBuildAssumption DEF BuildInit, Version
    <2>2. ok \in BOOLEAN /\ msg \in BOOLEAN /\ native \in BOOLEAN /\ blind \in BOOLEAN
      BY Zenon DEF BuildInit
    <2>3. /\ job \in JobKinds /\ there \subseteq Dir /\ has \in [Dir -> SUBSET Files]
          /\ drive \in [Version -> SUBSET Files]
          /\ done \subseteq Version /\ unseen \subseteq Version /\ ruined \subseteq Version
      BY DEF BuildInit
    <2>4. bpc \in Ended
      BY DEF BuildInit, Ended
    <2> QED
      BY <2>1, <2>2, <2>3, <2>4 DEF BuildTypeOK
  <1>2. BuildTypeOK /\ [BuildNext]_build_vars => BuildTypeOK'
    <2> SUFFICES ASSUME BuildTypeOK, [BuildNext]_build_vars PROVE BuildTypeOK'
      OBVIOUS
    <2> USE DEF BuildTypeOK, At, Goto, Success, Failure, Ended, TestSteps, past
    <2>1. CASE StartBuild
      <3>1. vers' \in Version /\ calls' \in 0..MaxCalls
        BY <2>1, RunBuildAssumption DEF StartBuild
      <3>2. ok' \in BOOLEAN /\ msg' \in BOOLEAN
        BY <2>1, Zenon DEF StartBuild
      <3>3. bpc' \in Step
        BY <2>1 DEF StartBuild, Step
      <3> QED
        BY <2>1, <3>1, <3>2, <3>3 DEF StartBuild, Step
    <2>11. CASE Save \/ Kill
      <3>1. ok' \in BOOLEAN /\ msg' \in BOOLEAN /\ blind' \in BOOLEAN
        BY <2>11, Zenon DEF Save, Kill
      <3>2. done' \subseteq Version /\ ruined' \subseteq Version
        BY <2>11 DEF Save, Kill
      <3> QED
        BY <2>11, <3>1, <3>2 DEF Save, Kill
    <2>2. CASE StartTest \/ FindTools \/ Codesign \/ ExecuteTests
      <3>1. bpc' \in Step
        BY <2>2 DEF StartTest, FindTools, Codesign, ExecuteTests, Step
      <3>2. ok' \in BOOLEAN /\ msg' \in BOOLEAN
        BY <2>2, Zenon DEF StartTest, FindTools, Codesign, ExecuteTests
      <3>3. native' \in BOOLEAN
        BY <2>2, RunBuildAssumption DEF StartTest, FindTools, Codesign, ExecuteTests, JobKind
      <3>4. UNCHANGED <<job, vers, calls, there, has, drive, past>>
        BY <2>2 DEF StartTest, FindTools, Codesign, ExecuteTests
      <3> QED
        BY <3>1, <3>2, <3>3, <3>4 DEF Step
    <2>3. CASE CreateBuildDirs
      BY <2>3 DEF CreateBuildDirs, Dir
    <2>4. ASSUME NEW step, NEW dest \in Dir, NEW then \in Step, GetPackage(step, dest, then)
          PROVE  BuildTypeOK'
      <3>1. there' \subseteq Dir /\ has' \in [Dir -> SUBSET Files]
        BY <2>4, WholeIsFiles DEF GetPackage
      <3>2. bpc' \in Step /\ UNCHANGED <<job, vers, calls, drive, native, past>>
        BY <2>4 DEF GetPackage, Step
      <3>3. ok' \in BOOLEAN /\ msg' \in BOOLEAN
        BY <2>4, Zenon DEF GetPackage
      <3> QED
        BY <3>1, <3>2, <3>3 DEF Step
    <2>5. ASSUME NEW step, NEW build \in Dir, NEW then \in Step, Configure(step, build, then)
          PROVE  BuildTypeOK'
      <3>1. past' = past \/ (blind' \in BOOLEAN /\ UNCHANGED <<done, unseen, ruined>>)
        BY <2>5, Zenon DEF Configure, NotSeen
      <3>2. /\ there' \subseteq Dir /\ bpc' \in Step /\ UNCHANGED <<job, vers, calls, has, drive, native>>
        BY <2>5 DEF Configure, Step
      <3>3. ok' \in BOOLEAN /\ msg' \in BOOLEAN
        BY <2>5, Zenon DEF Configure
      <3> QED
        BY <3>1, <3>2, <3>3 DEF Step
    <2>6. ASSUME NEW step, NEW src \in Dir, NEW build \in Dir, NEW then \in Step,
                 Compile(step, src, build, then)
          PROVE  BuildTypeOK'
      <3>1. past' = past \/ (blind' \in BOOLEAN /\ UNCHANGED <<done, unseen, ruined>>)
        BY <2>6, Zenon DEF Compile, NotSeen
      <3>2. /\ has' \in [Dir -> SUBSET Files] /\ bpc' \in Step
            /\ UNCHANGED <<job, vers, calls, there, drive, native>>
        BY <2>6 DEF Compile, Step
      <3>3. ok' \in BOOLEAN /\ msg' \in BOOLEAN
        BY <2>6, Zenon DEF Compile
      <3> QED
        BY <3>1, <3>2, <3>3 DEF Step
    <2>7. CASE Install
      <3>1. past' = past \/ (blind' \in BOOLEAN /\ UNCHANGED <<done, unseen, ruined>>)
        BY <2>7, Zenon DEF Install, NotSeen
      <3>2. /\ has' \in [Dir -> SUBSET Files] /\ there' \subseteq Dir /\ bpc' \in Step
            /\ UNCHANGED <<job, vers, calls, drive, native>>
        BY <2>7 DEF Install, Dir, Step
      <3>3. ok' \in BOOLEAN /\ msg' \in BOOLEAN
        BY <2>7, Zenon DEF Install
      <3> QED
        BY <3>1, <3>2, <3>3 DEF Step
    <2>8. CASE Pack
      BY <2>8, HomeIsFiles DEF Pack, Dir
    <2>9. CASE CopyToDrive
      BY <2>9 DEF CopyToDrive, Dir
    <2>10. CASE UNCHANGED build_vars
      BY <2>10 DEF build_vars
    <2> QED
      BY <2>1, <2>2, <2>3, <2>4, <2>5, <2>6, <2>7, <2>8, <2>9, <2>10, <2>11 DEF BuildNext, Dir, Step
  <1> QED
    BY <1>1, <1>2, PTL DEF BuildSpec
-----------------------------------------------------------------------------
(* The inductive invariant.                                                *)

\* The call has emptied the folder of the job, and nothing has failed since.
FolderIsEmpty == bpc \notin {"idle", "clear", "tested"} /\ (bpc = "built" => ok)

\* From then on the folder holds nothing of another version.
FreshInv == FolderIsEmpty => \A d \in Dir : \A f \in has[d] : f[1] \in {vers, 0}

\* What the steps before the installation find.
FolderInv ==
    /\ bpc = "get_source" => \A d \in Dir : has[d] = {}
    /\ bpc \in {"tools", "configure", "compile"} => has["src"] = Whole(vers) /\ has["build"] = {}
    /\ bpc \in {"get_source", "tools", "configure", "compile", "install"} => "install" \notin there

\* Each step hands on a whole version, unless something was not seen.
SeenInv == ~blind =>
    /\ bpc = "install" => has["build"] = Whole(vers)
    /\ bpc \in {"sign", "pack"} /\ "install" \in there => has["install"] = Whole(vers)
    /\ bpc = "pack" => "install" \in there
    /\ bpc = "copy" => has["flow"] = Whole(vers)

\* A call without an end has no message yet but for the one of the installation,
\* after which there is nothing to sign.
CallInv ==
    /\ bpc \notin Ended \cup {"sign"} => ok /\ ~msg
    /\ bpc = "sign" => (msg <=> ~ok) /\ (msg => "install" \notin there)

\* A build that has ended well has put a whole package on the drive, and it is no
\* longer one that a build has cut.
CopiedInv ==
    (bpc \in TestSteps \cup {"tested"} \/ (bpc = "built" /\ ok))
        => vers \notin ruined /\ (vers \notin unseen => drive[vers] = Whole(vers))

BuildInv == FreshInv /\ FolderInv /\ SeenInv /\ CallInv /\ CopiedInv

LEMMA OfOneVersion ==
  /\ \A v : \A f \in Whole(v) : f[1] = v
  /\ \A v : Whole(v) # {}
  /\ \A f \in Home : f[1] = 0
  <1>1. ASSUME NEW v PROVE Whole(v) # {} /\ \A f \in Whole(v) : f[1] = v
    <2>1. <<v, 1>> \in Whole(v)
      BY DEF Whole
    <2> QED
      BY <2>1 DEF Whole
  <1> QED
    BY <1>1 DEF Home

\* A step that ends the call with a failure.
LEMMA FailureStep ==
  ASSUME BuildTypeOK, BuildInv, Failure, bpc \notin Ended,
         bpc \notin TestSteps, vers' = vers
  PROVE  BuildInv'
  BY DEF BuildTypeOK, Failure, Goto, TestSteps, Ended, BuildInv, FreshInv, FolderIsEmpty, FolderInv, SeenInv,
         CallInv, CopiedInv

\* The same in the tests, which leave the package alone.
LEMMA TestFailureStep ==
  ASSUME BuildTypeOK, BuildInv, Failure, bpc \in TestSteps, UNCHANGED <<vers, drive, past>>
  PROVE  BuildInv'
  BY DEF BuildTypeOK, Failure, Goto, TestSteps, Ended, BuildInv, FreshInv, FolderIsEmpty, FolderInv, SeenInv,
         CallInv, CopiedInv, past

LEMMA GetPackageStep ==
  ASSUME BuildTypeOK, BuildInv, NEW step, NEW dest, NEW then, GetPackage(step, dest, then),
         \/ step = "get_source" /\ dest = "src" /\ then = "tools"
         \/ step = "get_tests" /\ dest = "test" /\ then = "configure_tests"
  PROVE  BuildInv'
  <1> USE DEF At, Ended, TestSteps
  <1>1. CASE Failure
    BY <1>1, FailureStep, TestFailureStep DEF GetPackage
  <1>2. CASE /\ there' = there \cup {dest} /\ Success(then)
             /\ has' = [has EXCEPT !["flow"] = Whole(vers), ![dest] = @ \cup Whole(vers)]
    <2>1. /\ bpc = step /\ bpc' = then
          /\ UNCHANGED <<vers, drive, done, blind, unseen, ruined, ok, msg>>
      BY <1>2 DEF GetPackage, Success, Goto, past
    <2>2. /\ has'[dest] = has[dest] \cup Whole(vers) /\ has'["flow"] = Whole(vers)
          /\ \A d \in Dir \ {dest, "flow"} : has'[d] = has[d]
      BY <1>2 DEF BuildTypeOK, Dir
    <2>3. FreshInv'
      BY <2>1, <2>2, OfOneVersion DEF BuildInv, FreshInv, FolderIsEmpty
    <2>4. FolderInv' /\ SeenInv' /\ CallInv' /\ CopiedInv'
      BY <1>2, <2>1, <2>2 DEF BuildInv, FolderInv, SeenInv, CallInv, CopiedInv, Dir
    <2> QED
      BY <2>3, <2>4 DEF BuildInv
  <1> QED
    BY <1>1, <1>2 DEF GetPackage

LEMMA ConfigureStep ==
  ASSUME BuildTypeOK, BuildInv, NEW step, NEW build, NEW then, Configure(step, build, then),
         \/ step = "configure" /\ build = "build" /\ then = "compile"
         \/ step = "configure_tests" /\ build = "test_build" /\ then = "compile_tests"
  PROVE  BuildInv'
  <1> USE DEF At, Ended, TestSteps
  <1>1. /\ bpc = step
        /\ UNCHANGED <<vers, has, drive, done, unseen, ruined>>
        /\ there' = there \/ there' = there \cup {build}
    BY DEF Configure, NotSeen, past
  <1>2. CASE Failure
    BY <1>1, <1>2, FailureStep, TestFailureStep DEF Configure, Success, Failure, Goto, past
  <1>3. CASE Success(then)
    <2>1. step = "configure" => (~blind' => ~blind)
      BY <1>1 DEF Configure, NotSeen, past
    <2> QED
      BY <1>1, <1>3, <2>1
      DEF Success, Goto, BuildInv, FreshInv, FolderIsEmpty, FolderInv, SeenInv, CallInv, CopiedInv
  <1> QED
    BY <1>2, <1>3 DEF Configure

LEMMA CompileStep ==
  ASSUME BuildTypeOK, BuildInv, NEW step, NEW src, NEW build, NEW then,
         Compile(step, src, build, then),
         \/ step = "compile" /\ src = "src" /\ build = "build" /\ then = "install"
         \/ step = "compile_tests" /\ src = "test" /\ build = "test_build" /\ then = "execute"
  PROVE  BuildInv'
  <1> USE DEF At, Ended, TestSteps
  <1>1. /\ bpc = step
        /\ UNCHANGED <<vers, there, drive, done, unseen, ruined>>
        /\ \A d \in Dir \ {build} : has'[d] = has[d]
        /\ has'[build] \subseteq has[build] \cup has[src]
    BY DEF Compile, BuildTypeOK, Dir, NotSeen, past
  <1>2. CASE Failure
    BY <1>1, <1>2, FailureStep, TestFailureStep DEF Compile, Success, Failure, Goto, past
  <1>3. CASE Success(then)
    <2>1. FreshInv'
      BY <1>1, <1>3 DEF Success, Goto, BuildInv, FreshInv, FolderIsEmpty, Dir
    <2>2. SeenInv'
      <3> SUFFICES ASSUME ~blind', step = "compile" PROVE has'["build"] = Whole(vers)
        BY <1>1, <1>3 DEF Success, Goto, SeenInv
      <3>1. CASE has' = [has EXCEPT ![build] = @ \cup has[src]]
        BY <1>1, <3>1 DEF BuildInv, FolderInv, BuildTypeOK, Dir
      <3>2. CASE NotSeen
        BY <1>1, <3>2 DEF NotSeen
      <3> QED
        BY <1>3, <3>1, <3>2, <1>1 DEF Compile, Failure, Success, Goto
    <2>3. FolderInv' /\ CallInv' /\ CopiedInv'
      BY <1>1, <1>3 DEF Success, Goto, BuildInv, FolderInv, CallInv, CopiedInv
    <2> QED
      BY <2>1, <2>2, <2>3 DEF BuildInv
  <1> QED
    BY <1>2, <1>3 DEF Compile

LEMMA InstallStep ==
  ASSUME BuildTypeOK, BuildInv, Install
  PROVE  BuildInv'
  <1> DEFINE refused == native /\ job.gen = "no_native"
  <1>1. PICK F \in SUBSET has["build"] :
           /\ has' = [has EXCEPT !["install"] = IF refused THEN {} ELSE F]
           /\ there' = IF refused \/ F = {} THEN there ELSE there \cup {"install"}
           /\ IF ~refused /\ F # has["build"] THEN NotSeen ELSE UNCHANGED past
    BY DEF Install
  <1>2. /\ bpc = "install" /\ bpc' \in {"sign", "pack", "built"}
        /\ bpc' = "pack" => ~refused
        /\ bpc' = "built" => refused
        /\ vers' = vers
    BY DEF Install, At, Goto
  <1>3. (ok' <=> ~refused) /\ (msg' <=> refused)
    BY Zenon DEF Install
  <1> HIDE DEF refused
  <1>4. /\ \A d \in Dir \ {"install"} : has'[d] = has[d]
        /\ has'["install"] = IF refused THEN {} ELSE F
    BY <1>1 DEF BuildTypeOK, Dir
  <1>5. "install" \notin there
    BY <1>2 DEF BuildInv, FolderInv
  <1>6. FreshInv'
    <2>1. FolderIsEmpty
      BY <1>2 DEF FolderIsEmpty
    <2> QED
      BY <2>1, <1>2, <1>4 DEF BuildInv, FreshInv, Dir
  <1>7. FolderInv'
    BY <1>2 DEF FolderInv
  <1>8. SeenInv'
    <2> SUFFICES ASSUME ~blind', ~refused
                 PROVE  has'["install"] = Whole(vers) /\ "install" \in there'
      BY <1>1, <1>2, <1>5 DEF SeenInv
    <2>1. ~blind /\ F = has["build"]
      BY <1>1, <1>2 DEF NotSeen, TestSteps, past
    <2>2. F = Whole(vers)
      BY <2>1, <1>2 DEF BuildInv, SeenInv
    <2> QED
      BY <2>2, <1>1, <1>4, OfOneVersion
  <1>9. CallInv'
    BY <1>1, <1>2, <1>3, <1>5 DEF CallInv, Ended, TestSteps
  <1>10. CopiedInv'
    BY <1>2, <1>3 DEF CopiedInv, TestSteps
  <1> QED
    BY <1>6, <1>7, <1>8, <1>9, <1>10 DEF BuildInv

LEMMA DriveStep ==
  ASSUME BuildTypeOK, BuildInv, Pack \/ CopyToDrive
  PROVE  BuildInv'
  <1> USE DEF At, Ended, TestSteps
  <1>1. CASE Failure
    <2>1. bpc \in {"pack", "copy"} /\ vers' = vers
      BY DEF Pack, CopyToDrive
    <2> QED
      BY <1>1, <2>1, FailureStep
  <1>2. CASE Pack /\ ~Failure
    <2>1. /\ bpc = "pack" /\ bpc' = "copy" /\ UNCHANGED <<vers, blind, ok, msg>>
          /\ has' = [has EXCEPT !["flow"] = IF "install" \in there THEN has["install"] ELSE Home]
      BY <1>2 DEF Pack, Success, Goto, past
    <2>2. /\ \A d \in Dir \ {"flow"} : has'[d] = has[d]
          /\ has'["flow"] = IF "install" \in there THEN has["install"] ELSE Home
      BY <2>1 DEF BuildTypeOK, Dir
    <2>3. FreshInv'
      BY <2>1, <2>2, OfOneVersion DEF BuildInv, FreshInv, FolderIsEmpty, Dir
    <2>4. SeenInv' /\ FolderInv' /\ CallInv' /\ CopiedInv'
      BY <2>1, <2>2 DEF BuildInv, SeenInv, FolderInv, CallInv, CopiedInv
    <2> QED
      BY <2>3, <2>4 DEF BuildInv
  <1>3. CASE CopyToDrive /\ Success("built")
    <2>1. /\ bpc = "copy" /\ bpc' = "built" /\ UNCHANGED <<vers, has, there, ok, msg>>
          /\ ok /\ ~msg
      BY <1>3 DEF CopyToDrive, Success, Goto, BuildInv, CallInv
    <2>2. CopiedInv'
      <3>1. /\ drive' = [drive EXCEPT ![vers] = has["flow"]]
            /\ unseen' = IF blind THEN unseen \cup {vers} ELSE unseen \ {vers}
            /\ ruined' = ruined \ {vers}
        BY <1>3, <2>1 DEF CopyToDrive, Failure, Success, Goto
      <3>2. vers \notin unseen' => ~blind
        BY <3>1
      <3>3. drive'[vers] = has["flow"]
        BY <3>1 DEF BuildTypeOK
      <3>4. ~blind => has["flow"] = Whole(vers)
        BY <2>1 DEF BuildInv, SeenInv
      <3> QED
        BY <2>1, <3>1, <3>2, <3>3, <3>4 DEF CopiedInv
    <2> QED
      BY <2>1, <2>2 DEF BuildInv, FreshInv, FolderIsEmpty, FolderInv, SeenInv, CallInv
  <1> QED
    BY <1>1, <1>2, <1>3 DEF Pack, CopyToDrive

LEMMA BuildInvInit == BuildInit => BuildInv
  BY DEF BuildInit, BuildInv, FreshInv, FolderIsEmpty, FolderInv, SeenInv, CallInv, CopiedInv, Ended,
         TestSteps

LEMMA BuildInvStep ==
  ASSUME BuildTypeOK, BuildInv, [BuildNext]_build_vars
  PROVE  BuildInv'
  <1> USE DEF At, Ended, TestSteps
  <1>1. CASE StartBuild \/ StartTest \/ Save \/ Kill
    <2> USE DEF BuildInv, FreshInv, FolderIsEmpty, FolderInv, SeenInv, CallInv, CopiedInv, past
    <2>1. CASE StartBuild
      <3>1. bpc' = "clear" \/ (bpc' = "built" /\ ~ok')
        BY <2>1 DEF StartBuild, Failure, Goto
      <3>2. bpc' = "clear" => ok' /\ ~msg'
        BY <2>1 DEF StartBuild, Failure, Goto
      <3> QED
        BY <3>1, <3>2
    <2>2. CASE StartTest
      BY <2>2 DEF StartTest, Goto
    <2>3. CASE Save \/ Kill
      <3>1. bpc' = "idle"
        BY <2>3 DEF Save, Kill, Goto
      <3> QED
        BY <3>1
    <2> QED
      BY <1>1, <2>1, <2>2, <2>3
  <1>2. CASE CreateBuildDirs
    <2>1. CASE Failure
      BY <1>2, <2>1, FailureStep DEF CreateBuildDirs
    <2>2. CASE ~Failure
      <3>1. /\ bpc = "clear" /\ bpc' = "get_source" /\ UNCHANGED <<vers, ok, msg>>
            /\ there' = {"flow"} /\ \A d \in Dir : has'[d] = {}
        BY <1>2, <2>2 DEF CreateBuildDirs, Success, Goto
      <3> QED
        BY <3>1 DEF BuildInv, FreshInv, FolderIsEmpty, FolderInv, SeenInv, CallInv, CopiedInv
    <2> QED
      BY <2>1, <2>2
  <1>3. CASE FindTools
    <2>1. CASE Failure
      BY <1>3, <2>1, FailureStep DEF FindTools
    <2>2. CASE ~Failure
      <3>1. /\ bpc = "tools" /\ bpc' = "configure"
            /\ UNCHANGED <<vers, ok, msg, there, has>>
        BY <1>3, <2>2 DEF FindTools, Success, Goto
      <3> QED
        BY <3>1 DEF BuildInv, FreshInv, FolderIsEmpty, FolderInv, SeenInv, CallInv, CopiedInv
    <2> QED
      BY <2>1, <2>2
  <1>4. CASE Codesign
    <2>1. CASE Failure
      BY <1>4, <2>1, FailureStep DEF Codesign
    <2>2. CASE ~Failure
      <3>1. /\ bpc = "sign" /\ bpc' = "pack" /\ "install" \in there /\ ok'
            /\ UNCHANGED <<vers, blind, msg, there, has>>
        BY <1>4, <2>2 DEF Codesign, Goto, past
      <3>2. ok /\ ~msg
        BY <3>1 DEF BuildInv, CallInv
      <3> QED
        BY <3>1, <3>2 DEF BuildInv, FreshInv, FolderIsEmpty, FolderInv, SeenInv, CallInv, CopiedInv
    <2> QED
      BY <2>1, <2>2
  <1>5. CASE ExecuteTests
    BY <1>5 DEF ExecuteTests, Success, Failure, Goto, BuildInv, FreshInv, FolderIsEmpty, FolderInv, SeenInv,
                CallInv, CopiedInv, past
  <1>6. CASE UNCHANGED build_vars
    BY <1>6 DEF build_vars, past, BuildInv, FreshInv, FolderIsEmpty, FolderInv, SeenInv, CallInv, CopiedInv
  <1> QED
    BY <1>1, <1>2, <1>3, <1>4, <1>5, <1>6, GetPackageStep, ConfigureStep, CompileStep, InstallStep,
       DriveStep DEF BuildNext

LEMMA BuildInvHolds == BuildSpec => []BuildInv
  BY BuildInvInit, BuildInvStep, BuildTypeCorrect, PTL DEF BuildSpec
-----------------------------------------------------------------------------
(* What the invariant gives.                                               *)

\* Only a copy writes a package on the drive, and only the end of a run the report.
LEMMA OnlyTheCopyWrites ==
  ASSUME BuildTypeOK, [BuildNext]_build_vars
  PROVE  \/ UNCHANGED <<drive, done, unseen, ruined>>
         \/ CopyToDrive
         \/ Save
  <1> USE DEF past
  <1>1. CASE StartBuild
    BY <1>1 DEF StartBuild
  <1>2. ASSUME NEW step, NEW src, NEW build, NEW then,
               \/ Configure(step, build, then)
               \/ Compile(step, src, build, then)
        PROVE  UNCHANGED <<drive, done, unseen, ruined>>
    BY <1>2 DEF Configure, Compile, NotSeen
  <1>3. ASSUME NEW step, NEW dest, NEW then, GetPackage(step, dest, then)
        PROVE  UNCHANGED <<drive, done, unseen, ruined>>
    BY <1>3 DEF GetPackage
  <1>4. CASE Install
    BY <1>4 DEF Install, NotSeen
  <1> QED
    BY <1>1, <1>2, <1>3, <1>4
    DEF BuildNext, StartTest, Kill, CreateBuildDirs, FindTools, Codesign, Pack, ExecuteTests, build_vars

\* The package of a version on the drive never has files of another version,
\* whatever failed, was killed, or was built before in the same folder: a build
\* begins with the removal of the folder and ends when that fails.
THEOREM NothingStaleHolds == BuildSpec => []NothingStale
  <1>1. BuildInit => NothingStale
    BY DEF BuildInit, NothingStale
  <1>2. BuildTypeOK /\ BuildInv /\ NothingStale /\ [BuildNext]_build_vars => NothingStale'
    <2> SUFFICES ASSUME BuildTypeOK, BuildInv, NothingStale, [BuildNext]_build_vars,
                        NEW v \in Version, NEW f \in Files, f \in drive'[v]
                 PROVE  f[1] \in {v, 0}
      BY DEF NothingStale
    <2>1. CASE UNCHANGED drive
      BY <2>1 DEF NothingStale
    <2>2. CASE CopyToDrive
      <3>1. bpc = "copy"
        BY <2>2 DEF CopyToDrive, At
      <3>2. \A g \in has["flow"] : g[1] \in {vers, 0}
        BY <3>1 DEF BuildInv, FreshInv, FolderIsEmpty, Dir
      <3>3. drive'[vers] \subseteq has["flow"] /\ \A w \in Version \ {vers} : drive'[w] = drive[w]
        BY <2>2 DEF CopyToDrive, BuildTypeOK
      <3> QED
        BY <3>2, <3>3 DEF NothingStale
    <2> QED
      BY <2>1, <2>2, OnlyTheCopyWrites DEF Save
  <1> QED
    BY <1>1, <1>2, BuildInvHolds, BuildTypeCorrect, PTL DEF BuildSpec

\* A version that the report on the drive has as built has a whole package there,
\* whatever was killed, failed or was forced since: a forced build writes its package
\* over that of the version, which is whole again, or it is one the report will have
\* as failed, or nbuild was killed between the cut copy and the report.  Unless one of
\* the commands of the build failed in a way that the code does not look at.
THEOREM PackageUnlessUnseenHolds == BuildSpec => []PackageUnlessUnseen
  <1>1. BuildInit => PackageUnlessUnseen
    BY DEF BuildInit, PackageUnlessUnseen
  <1>2. BuildTypeOK /\ BuildInv /\ PackageUnlessUnseen /\ [BuildNext]_build_vars
           => PackageUnlessUnseen'
    <2> SUFFICES ASSUME BuildTypeOK, BuildInv, PackageUnlessUnseen, [BuildNext]_build_vars,
                        NEW v \in done', v \notin unseen', v \notin ruined'
                 PROVE  drive'[v] = Whole(v)
      BY DEF PackageUnlessUnseen
    <2>1. CASE UNCHANGED <<drive, done, unseen, ruined>>
      BY <2>1 DEF PackageUnlessUnseen
    <2>2. CASE CopyToDrive
      <3>1. bpc = "copy" /\ done' = done
        BY <2>2 DEF CopyToDrive, At
      <3>2. CASE v = vers
        <4>1. v \in ruined' \/ Success("built")
          BY <2>2, <3>1, <3>2 DEF CopyToDrive
        <4>2. /\ drive' = [drive EXCEPT ![vers] = has["flow"]]
              /\ unseen' = IF blind THEN unseen \cup {vers} ELSE unseen \ {vers}
          <5>1. ok
            BY <3>1 DEF BuildInv, CallInv, Ended, TestSteps
          <5> QED
            BY <2>2, <4>1, <5>1 DEF CopyToDrive, Failure, Success
        <4>3. ~blind /\ drive'[vers] = has["flow"]
          BY <3>2, <4>2 DEF BuildTypeOK
        <4> QED
          BY <3>1, <3>2, <4>3 DEF BuildInv, SeenInv
      <3>3. CASE v # vers
        <4>1. drive'[v] = drive[v] /\ v \notin unseen /\ v \notin ruined
          BY <2>2, <3>3 DEF CopyToDrive, BuildTypeOK
        <4> QED
          BY <3>1, <4>1 DEF PackageUnlessUnseen
      <3> QED
        BY <3>2, <3>3
    <2>3. CASE Save
      <3>1. UNCHANGED <<drive, unseen>> /\ ruined' = ruined \ {vers}
        BY <2>3 DEF Save
      <3>2. CASE v = vers
        <4>1. bpc = "tested" \/ (bpc = "built" /\ ok)
          BY <2>3, <3>2 DEF Save
        <4> QED
          BY <3>1, <3>2, <4>1 DEF BuildInv, CopiedInv
      <3>3. CASE v # vers
        <4>1. v \in done /\ v \notin ruined
          BY <2>3, <3>1, <3>3 DEF Save
        <4> QED
          BY <3>1, <4>1 DEF PackageUnlessUnseen
      <3> QED
        BY <3>2, <3>3
    <2> QED
      BY <2>1, <2>2, <2>3, OnlyTheCopyWrites
  <1> QED
    BY <1>1, <1>2, BuildInvHolds, BuildTypeCorrect, PTL DEF BuildSpec

\* A call that has returned FALSE has set its message and one that has returned
\* TRUE has not, also where a signature follows an installation that was refused.
THEOREM MessageOfResultHolds == BuildSpec => []MessageOfResult
  <1> USE DEF At, Ended, TestSteps
  <1>1. BuildInit => MessageOfResult
    BY DEF BuildInit, MessageOfResult
  <1>2. BuildTypeOK /\ BuildInv /\ MessageOfResult /\ [BuildNext]_build_vars => MessageOfResult'
    <2> SUFFICES ASSUME BuildTypeOK, BuildInv, MessageOfResult, [BuildNext]_build_vars,
                        bpc' \in {"built", "tested"}
                 PROVE  msg' <=> ~ok'
      BY DEF MessageOfResult
    <2>1. CASE Failure
      BY <2>1 DEF Failure
    <2>2. CASE Install
      BY <2>2, Zenon DEF Install
    <2>3. CASE UNCHANGED <<ok, msg>> /\ bpc \notin Ended \cup {"sign"}
      BY <2>3 DEF BuildInv, CallInv
    <2>4. CASE UNCHANGED build_vars
      BY <2>4 DEF build_vars, MessageOfResult
    <2> QED
      BY <2>1, <2>2, <2>3, <2>4
      DEF BuildNext, StartBuild, StartTest, Save, Kill, CreateBuildDirs, GetPackage, FindTools, Configure,
          Compile, Codesign, Pack, CopyToDrive, ExecuteTests, Success, Goto
  <1> QED
    BY <1>1, <1>2, BuildInvHolds, BuildTypeCorrect, PTL DEF BuildSpec

-----------------------------------------------------------------------------
(* Proc.                                                                   *)

-----------------------------------------------------------------------------
(* The inductive invariant, as a conjunction of named parts.               *)

\* The descriptors of a command are those of its pipes, and it has them from i_pipes to
\* the end of the call or until it closes them.
FdInv ==
    \A c \in Command, p \in Pipe :
        /\ rfd[c][p] # NoFd => fd[rfd[c][p]] = <<c, p>>
        /\ \A f \in Fd : fd[f] = <<c, p>> => rfd[c][p] = f
        /\ cpc[c] \in {"pipes", "end"} => rfd[c][p] = NoFd
        /\ cpc[c] \in {"fork", "close_ends", "read", "close_err"} => rfd[c][p] # NoFd

\* The thread that reads the errors lives inside the call that wants them.
ReaderInv ==
    \A c \in Command :
        /\ cpc[c] \in {"pipes", "fork", "close_ends"} => reader[c] = "none"
        /\ cpc[c] = "end" => reader[c] \in {"none", "done"}
        /\ reader[c] = "read" <=> rpipe[c] # NoPipe
        /\ reader[c] # "none" => prog[c].call = "command" /\ prog[c].errors
        /\ cpc[c] = "close_both" => prog[c].call # "command"
        /\ cpc[c] \in {"read", "close_err"} =>
              prog[c].call = "command" /\ (prog[c].errors <=> reader[c] # "none")

\* A command that runs can write on its pipes; one that was not started has not.
HolderInv ==
    \A c \in Command :
        /\ cpc[c] \in {"fork", "close_ends"} => Nbuild \in holders[c]
        /\ status[c] = "runs" => c \in holders[c]
        /\ cpc[c] \in {"pipes", "fork"} => status[c] = "no"
        /\ status[c] = "no" => \A p \in Pipe : wrote[c][p] = 0

\* While no descriptor was closed under a reader, a reader has the descriptor and the
\* pipe of its own command,
OwnPipe(c) ==
    /\ reader[c] \in {"load", "resolve", "read"} => cpc[c] \in {"read", "close_err"}
    /\ reader[c] = "resolve" => rreg[c] = rfd[c]["err"]
    /\ reader[c] = "read" => rpipe[c] = <<c, "err">>

\* what was written is in the pipe or in the stream,
Stored(c, p) ==
    /\ got[c][p].other = 0
    /\ prog[c].call = "command" /\ p \in Wanted(c) => fill[c][p] + got[c][p].own = wrote[c][p]

\* and nothing is left in the pipe when the end of it was read.
Emptied(c, p) == fill[c][p] = 0 /\ status[c] # "runs"
OutRead(c) == prog[c].call = "command" /\ cpc[c] \in {"close_err", "wait", "join", "end"}
ErrRead(c) == reader[c] = "done"

CommandKnown(c) ==
    /\ OwnPipe(c)
    /\ Stored(c, "out") /\ Stored(c, "err")
    /\ OutRead(c) => Emptied(c, "out")
    /\ ErrRead(c) => Emptied(c, "err")
    /\ prog[c].call = "command" /\ prog[c].errors /\ cpc[c] \in {"wait", "join", "end"} =>
          ErrRead(c) \/ status[c] = "no"
OutputInv == ~cut => \A c \in Command : CommandKnown(c)

ProcInv == FdInv /\ ReaderInv /\ HolderInv /\ OutputInv

-----------------------------------------------------------------------------
(* The descriptors a process gets.                                         *)

LEMMA LowestIsOne == \A S \in SUBSET Fd : S # {} => Lowest(S) \in S
<1> SUFFICES ASSUME NEW S \in SUBSET Fd, S # {} PROVE Lowest(S) \in S
  OBVIOUS
<1> DEFINE Below == {1..f : f \in S}
           R == StrictSubsetOrdering(Fd)
<1>1. S \subseteq Nat /\ \A f \in S : 1..f \subseteq Fd /\ IsFiniteSet(1..f)
  BY ProcAssumption, FS_Interval DEF Fd
<1>2. PICK U \in Below : \A V \in Below : <<V, U>> \notin R
  <2>1. IsWellFoundedOn(R, FiniteSubsetsOf(Fd))
    BY FS_StrictSubsetOrderingWellFounded
  <2>2. Below # {} /\ Below \subseteq FiniteSubsetsOf(Fd)
    BY <1>1 DEF FiniteSubsetsOf
  <2> HIDE DEF Below, R
  <2> QED BY <2>1, <2>2, WFMin
<1>3. PICK f \in S : U = 1..f
  BY <1>2
<1>4. ASSUME NEW g \in S PROVE f <= g
  <2>1. ~(1..g \subseteq 1..f /\ 1..g # 1..f)
    <3>1. 1..g \in SUBSET Fd /\ 1..f \in SUBSET Fd
      BY <1>1
    <3>2. <<1..g, 1..f>> \notin R
      BY <1>2, <1>3
    <3> QED BY <3>1, <3>2, Zenon DEF StrictSubsetOrdering
  <2>2. CASE g < f
    <3>1. f \in 1..f /\ f \notin 1..g /\ 1..g \subseteq 1..f
      BY <1>1, <2>2, ProcAssumption DEF Fd
    <3> QED BY <2>1, <3>1
  <2> QED BY <1>1, <2>2
<1>5. \E h \in S : \A g \in S : h <= g
  BY <1>4
<1> QED BY <1>5 DEF Lowest

\* There are two descriptors for a command that opens its pipes: the others have two each.
LEMMA TwoFree ==
  ASSUME ProcTypeOK, FdInv, NEW c \in Command, cpc[c] = "pipes"
  PROVE  FreeFd # {} /\ \A f \in FreeFd : FreeFd \ {f} # {}
<1> USE ProcAssumption
<1> DEFINE Used   == Fd \ FreeFd
           Others == Command \ {c}
           Ends   == Others \X Pipe
           owner  == [f \in Used |-> fd[f]]
<1>1. IsFiniteSet(Fd) /\ Cardinality(Fd) = NFds
  BY FS_Interval DEF Fd
<1>2. IsFiniteSet(Ends) /\ Cardinality(Ends) = 2 * (NCommands - 1)
  <2>1. IsFiniteSet(Command) /\ Cardinality(Command) = NCommands
    BY FS_Interval DEF Command
  <2>2. IsFiniteSet(Others) /\ Cardinality(Others) = NCommands - 1
    BY <2>1, FS_RemoveElement
  <2>3. IsFiniteSet(Pipe) /\ Cardinality(Pipe) = 2
    <3>1. IsFiniteSet({"out"}) /\ Cardinality({"out"}) = 1
      BY FS_Singleton
    <3>2. Pipe = {"out"} \cup {"err"} /\ "err" \notin {"out"}
      BY DEF Pipe
    <3> QED BY <3>1, <3>2, FS_AddElement
  <2>4. IsFiniteSet(Ends) /\ Cardinality(Ends) = Cardinality(Others) * Cardinality(Pipe)
    BY <2>2, <2>3, FS_Product
  <2> QED BY <2>2, <2>3, <2>4
<1>3. owner \in Injection(Used, Ends)
  <2>1. ASSUME NEW f \in Used PROVE fd[f] \in Ends /\ rfd[fd[f][1]][fd[f][2]] = f
    <3>1. PICK d \in Command, p \in Pipe : fd[f] = <<d, p>>
      BY DEF ProcTypeOK, FreeFd
    <3>2. rfd[d][p] = f /\ f # NoFd
      BY <3>1 DEF FdInv, Fd, NoFd
    <3>3. d # c
      BY <3>2 DEF FdInv
    <3> QED BY <3>1, <3>2, <3>3
  <2>2. owner \in [Used -> Ends]
    BY <2>1
  <2>3. \A f, g \in Used : owner[f] = owner[g] => f = g
    BY <2>1
  <2> HIDE DEF owner, Used, Ends
  <2> QED BY <2>2, <2>3 DEF Injection, IsInjective
<1>4. IsFiniteSet(Used) /\ Cardinality(Used) <= 2 * (NCommands - 1)
  <2> HIDE DEF owner, Used, Ends
  <2> QED BY <1>2, <1>3, FS_Injection
<1>5. IsFiniteSet(FreeFd) /\ Cardinality(FreeFd) >= 2
  <2>1. FreeFd \subseteq Fd /\ IsFiniteSet(FreeFd)
    BY <1>1, FS_Subset DEF FreeFd
  <2>2. Cardinality(Fd) = Cardinality(FreeFd) + Cardinality(Used)
    <3>1. FreeFd \cup Used = Fd /\ FreeFd \cap Used = {}
      BY <2>1
    <3>2. Cardinality(FreeFd \cup Used)
             = Cardinality(FreeFd) + Cardinality(Used) - Cardinality(FreeFd \cap Used)
      BY <1>4, <2>1, FS_Union
    <3>3. Cardinality(FreeFd \cap Used) = 0
      BY <3>1, FS_EmptySet
    <3>4. Cardinality(FreeFd) \in Nat /\ Cardinality(Used) \in Nat
      BY <1>4, <2>1, FS_CardinalityType
    <3> HIDE DEF Used
    <3>5. Cardinality(FreeFd \cup Used) = Cardinality(Fd)
      BY <3>1
    <3> QED BY <3>2, <3>3, <3>4, <3>5
  <2>3. Cardinality(FreeFd) \in Nat /\ Cardinality(Used) \in Nat
    BY <1>4, <2>1, FS_CardinalityType
  <2> HIDE DEF Used
  <2> QED BY <1>1, <1>4, <2>1, <2>2, <2>3
<1>6. FreeFd # {}
  BY <1>5, FS_EmptySet
<1>7. ASSUME NEW f \in FreeFd PROVE FreeFd \ {f} # {}
  <2>1. Cardinality(FreeFd \ {f}) = Cardinality(FreeFd) - 1
    BY <1>5, FS_RemoveElement
  <2>2. Cardinality({}) = 0 /\ Cardinality(FreeFd) \in Nat
    BY <1>5, FS_EmptySet, FS_CardinalityType
  <2>3. Cardinality(FreeFd \ {f}) # 0
    BY <1>5, <2>1, <2>2
  <2> QED BY <2>2, <2>3
<1> QED BY <1>6, <1>7

\* What i_pipes does.
LEMMA Opened ==
  ASSUME ProcTypeOK, FdInv, NEW c \in Command, OpenPipes(c)
  PROVE  \E out, err \in Fd :
            /\ out # err /\ fd[out] = NoPipe /\ fd[err] = NoPipe
            /\ fd' = [fd EXCEPT ![out] = <<c, "out">>, ![err] = <<c, "err">>]
            /\ rfd' = [rfd EXCEPT ![c] = [p \in Pipe |-> IF p = "out" THEN out ELSE err]]
<1> DEFINE out == Lowest(FreeFd)
           err == Lowest(FreeFd \ {out})
<1>1. FreeFd # {} /\ \A f \in FreeFd : FreeFd \ {f} # {}
  BY TwoFree DEF OpenPipes, Moves
<1>2. out \in FreeFd
  BY <1>1, LowestIsOne DEF FreeFd
<1>3. FreeFd \ {out} # {} /\ FreeFd \ {out} \in SUBSET Fd
  BY <1>1, <1>2 DEF FreeFd
<1>4. err \in FreeFd \ {out}
  BY <1>3, LowestIsOne
<1>5. /\ fd' = [fd EXCEPT ![out] = <<c, "out">>, ![err] = <<c, "err">>]
      /\ rfd' = [rfd EXCEPT ![c] = [p \in Pipe |-> IF p = "out" THEN out ELSE err]]
  BY DEF OpenPipes
<1> HIDE DEF out, err
<1>6. out \in Fd /\ err \in Fd /\ out # err /\ fd[out] = NoPipe /\ fd[err] = NoPipe
  BY <1>2, <1>4 DEF FreeFd
<1> QED BY <1>5, <1>6

-----------------------------------------------------------------------------
(* The types.                                                              *)

LEMMA OnePipe ==
  ASSUME NEW S, NEW f \in [Command -> [Pipe -> S]], NEW c \in Command, NEW p \in Pipe, NEW x \in S
  PROVE  [f EXCEPT ![c][p] = x] \in [Command -> [Pipe -> S]]
OBVIOUS

LEMMA OneMore ==
  ASSUME NEW r \in [own : Nat, other : Nat]
  PROVE  /\ [r EXCEPT !.own = r.own + 1] \in [own : Nat, other : Nat]
         /\ [r EXCEPT !.other = r.other + 1] \in [own : Nat, other : Nat]
OBVIOUS

LEMMA NextTypes ==
  ASSUME ProcTypeOK, FdInv, ReaderInv, [ProcNext]_proc_vars
  PROVE  ProcTypeOK'
<1>a. ASSUME NEW c \in Command, OpenPipes(c)
      PROVE  \E out, err \in Fd :
                /\ fd' = [fd EXCEPT ![out] = <<c, "out">>, ![err] = <<c, "err">>]
                /\ rfd' = [rfd EXCEPT ![c] = [p \in Pipe |-> IF p = "out" THEN out ELSE err]]
  BY <1>a, Opened
<1> USE ProcAssumption DEF ProcTypeOK
<1>1. ASSUME NEW fds PROVE ClosedFds(fds) \in [Fd -> (Command \X Pipe) \cup {NoPipe}]
  BY DEF ClosedFds
<1>2. [p \in Pipe |-> NoFd] \in [Pipe -> Fd \cup {NoFd}]
  OBVIOUS
<1>3. ASSUME NEW c \in Command, OpenPipes(c) PROVE ProcTypeOK'
  <2>1. PICK out \in Fd, err \in Fd :
            /\ fd' = [fd EXCEPT ![out] = <<c, "out">>, ![err] = <<c, "err">>]
            /\ rfd' = [rfd EXCEPT ![c] = [p \in Pipe |-> IF p = "out" THEN out ELSE err]]
    BY <1>3, <1>a
  <2>2. fd' \in [Fd -> (Command \X Pipe) \cup {NoPipe}]
    BY <2>1 DEF Pipe
  <2>3. rfd' \in [Command -> [Pipe -> Fd \cup {NoFd}]]
    BY <2>1
  <2>4. UNCHANGED cut
    BY <1>3 DEF OpenPipes
  <2> QED BY <1>3, <2>2, <2>3, <2>4 DEF OpenPipes, Moves
<1>4. ASSUME NEW c \in Command, Fork(c) PROVE ProcTypeOK'
  BY <1>4 DEF Fork, Moves
<1>5. ASSUME NEW c \in Command, ExecFails(c) PROVE ProcTypeOK'
  BY <1>1, <1>2, <1>5 DEF ExecFails, Moves
<1>6. ASSUME NEW c \in Command, CloseEnds(c) PROVE ProcTypeOK'
  <2>1. prog[c].call \in {"command", "ping", "scp"}
    BY DEF Program
  <2> QED BY <1>6, <2>1 DEF CloseEnds, Moves
<1>7. ASSUME NEW c \in Command, NEW p \in Pipe, Write(c, p) PROVE ProcTypeOK'
  <2>1. wrote' \in [Command -> [Pipe -> Nat]]
    <3>1. wrote' = [wrote EXCEPT ![c][p] = wrote[c][p] + 1] /\ wrote[c][p] + 1 \in Nat
      BY <1>7 DEF Write
    <3> QED BY <3>1, OnePipe
  <2>2. fill' \in [Command -> [Pipe -> 0..Capacity]]
    <3>1. CASE UNCHANGED fill
      BY <3>1
    <3>2. CASE ~UNCHANGED fill
      <4>1. fill' = [fill EXCEPT ![c][p] = fill[c][p] + 1] /\ fill[c][p] + 1 \in 0..Capacity
        BY <1>7, <3>2 DEF Write
      <4> QED BY <4>1, OnePipe
    <3> QED BY <3>1, <3>2
  <2> QED BY <1>7, <2>1, <2>2 DEF Write
<1>8. ASSUME NEW c \in Command, Exit(c) PROVE ProcTypeOK'
  BY <1>8 DEF Exit
<1>9. ASSUME NEW c \in Command, ReadOut(c) PROVE ProcTypeOK'
  <2>1. fill' \in [Command -> [Pipe -> 0..Capacity]]
    <3>1. fill' = [fill EXCEPT ![c]["out"] = fill[c]["out"] - 1] /\ "out" \in Pipe
      BY <1>9 DEF ReadOut, Pipe
    <3>2. fill[c]["out"] - 1 \in 0..Capacity
      BY <1>9, <3>1 DEF ReadOut
    <3> QED BY <3>1, <3>2, OnePipe
  <2>2. got' \in [Command -> [Pipe -> [own : Nat, other : Nat]]]
    <3>1. got' = [got EXCEPT ![c]["out"] = [got[c]["out"] EXCEPT !.own = got[c]["out"].own + 1]]
      BY <1>9 DEF ReadOut
    <3>2. "out" \in Pipe /\ [got[c]["out"] EXCEPT !.own = got[c]["out"].own + 1] \in [own : Nat, other : Nat]
      <4>1. "out" \in Pipe /\ got[c]["out"] \in [own : Nat, other : Nat]
        BY DEF Pipe
      <4> QED BY <4>1, OneMore
    <3> QED BY <3>1, <3>2, OnePipe
  <2> QED BY <1>9, <2>1, <2>2 DEF ReadOut
<1>10. ASSUME NEW c \in Command, OutEnds(c) PROVE ProcTypeOK'
  BY <1>10 DEF OutEnds, Moves
<1>11. ASSUME NEW c \in Command, LoadFd(c) PROVE ProcTypeOK'
  BY <1>11 DEF LoadFd, Reads, Pipe
<1>12. ASSUME NEW c \in Command, ResolveFd(c) PROVE ProcTypeOK'
  BY <1>12 DEF ResolveFd, Reads
<1>13. ASSUME NEW c \in Command, ReadErr(c) PROVE ProcTypeOK'
  <2>1. PICK d \in Command, p \in Pipe : rpipe[c] = <<d, p>>
    BY <1>13 DEF ReadErr, Reads, ReaderInv
  <2>2. fill' \in [Command -> [Pipe -> 0..Capacity]]
    <3>1. fill' = [fill EXCEPT ![d][p] = fill[d][p] - 1] /\ fill[d][p] > 0
      BY <1>13, <2>1 DEF ReadErr
    <3>2. fill[d][p] - 1 \in 0..Capacity
      BY <3>1
    <3> QED BY <3>1, <3>2, OnePipe
  <2>3. got' \in [Command -> [Pipe -> [own : Nat, other : Nat]]]
    <3>1. got' \in {[got EXCEPT ![c]["err"] = [got[c]["err"] EXCEPT !.own = got[c]["err"].own + 1]],
                    [got EXCEPT ![c]["err"] = [got[c]["err"] EXCEPT !.other = got[c]["err"].other + 1]]}
      BY <1>13 DEF ReadErr
    <3>2. /\ [got[c]["err"] EXCEPT !.own = got[c]["err"].own + 1] \in [own : Nat, other : Nat]
          /\ [got[c]["err"] EXCEPT !.other = got[c]["err"].other + 1] \in [own : Nat, other : Nat]
          /\ "err" \in Pipe
      <4>1. "err" \in Pipe /\ got[c]["err"] \in [own : Nat, other : Nat]
        BY DEF Pipe
      <4> QED BY <4>1, OneMore
    <3>3. CASE got' = [got EXCEPT ![c]["err"] = [got[c]["err"] EXCEPT !.own = got[c]["err"].own + 1]]
      BY <3>2, <3>3, OnePipe
    <3>4. CASE got' = [got EXCEPT ![c]["err"] = [got[c]["err"] EXCEPT !.other = got[c]["err"].other + 1]]
      BY <3>2, <3>4, OnePipe
    <3> QED BY <3>1, <3>3, <3>4
  <2>4. reader' \in [Command -> {"none", "load", "resolve", "read", "done"}]
    BY <1>13 DEF ReadErr, Reads
  <2>5. rpipe' \in [Command -> (Command \X Pipe) \cup {NoPipe}]
    BY <1>13 DEF ReadErr
  <2> QED BY <1>13, <2>2, <2>3, <2>4, <2>5 DEF ReadErr
<1>14. ASSUME NEW c \in Command, ErrEnds(c) PROVE ProcTypeOK'
  BY <1>14 DEF ErrEnds, Reads
<1>15. ASSUME NEW c \in Command, CloseErr(c) PROVE ProcTypeOK'
  BY <1>1, <1>15 DEF CloseErr, Moves
<1>16. ASSUME NEW c \in Command, CloseBoth(c) PROVE ProcTypeOK'
  BY <1>1, <1>2, <1>16 DEF CloseBoth, Moves
<1>17. ASSUME NEW c \in Command, Wait(c) PROVE ProcTypeOK'
  BY <1>17 DEF Wait, Moves
<1>18. ASSUME NEW c \in Command, Join(c) PROVE ProcTypeOK'
  BY <1>1, <1>2, <1>18 DEF Join, Moves
<1>19. CASE UNCHANGED proc_vars
  BY <1>19 DEF proc_vars
<1> QED
  BY <1>3, <1>4, <1>5, <1>6, <1>7, <1>8, <1>9, <1>10, <1>11, <1>12, <1>13, <1>14, <1>15,
     <1>16, <1>17, <1>18, <1>19 DEF ProcNext, Caller, Reader, Remote

-----------------------------------------------------------------------------
(* Every step keeps the invariant: the descriptors.                        *)

\* Whatever else a step does, the descriptors are kept if it closes some of a command, or none.
LEMMA FdsClosed ==
  ASSUME ProcTypeOK, FdInv, NEW c \in Command, NEW P \in SUBSET Pipe,
         fd' = ClosedFds({rfd[c][p] : p \in P}),
         \A p \in Pipe : rfd'[c][p] = IF p \in P THEN NoFd ELSE rfd[c][p],
         \A d \in Command, p \in Pipe : d # c => rfd'[d][p] = rfd[d][p],
         \A d \in Command, p \in Pipe :
            /\ cpc'[d] \in {"pipes", "end"} => rfd'[d][p] = NoFd
            /\ cpc'[d] \in {"fork", "close_ends", "read", "close_err"} => rfd'[d][p] # NoFd
  PROVE  FdInv'
<1>1. ASSUME NEW d \in Command, NEW q \in Pipe, rfd'[d][q] # NoFd
      PROVE  fd'[rfd'[d][q]] = <<d, q>>
  <2>1. rfd'[d][q] = rfd[d][q] /\ rfd[d][q] \in Fd /\ (d = c => q \notin P)
    BY <1>1 DEF ProcTypeOK
  <2>2. fd[rfd[d][q]] = <<d, q>>
    BY <1>1, <2>1 DEF FdInv
  <2>3. ASSUME NEW p \in P PROVE rfd[c][p] # rfd[d][q]
    <3>1. SUFFICES ASSUME rfd[c][p] = rfd[d][q] PROVE FALSE
      OBVIOUS
    <3>2. fd[rfd[c][p]] = <<c, p>>
      BY <1>1, <2>1, <3>1 DEF FdInv
    <3> QED BY <2>1, <2>2, <3>1, <3>2
  <2> QED BY <2>1, <2>2, <2>3 DEF ClosedFds
<1>2. ASSUME NEW d \in Command, NEW q \in Pipe, NEW f \in Fd, fd'[f] = <<d, q>>
      PROVE  rfd'[d][q] = f
  <2>1. f \notin {rfd[c][p] : p \in P} /\ fd[f] = <<d, q>>
    BY <1>2 DEF ClosedFds, NoPipe, Command
  <2>2. rfd[d][q] = f
    BY <2>1 DEF FdInv
  <2> QED BY <2>1, <2>2
<1> QED BY <1>1, <1>2 DEF FdInv

LEMMA FdsKept ==
  ASSUME ProcTypeOK, FdInv, UNCHANGED <<fd, rfd>>,
         \A d \in Command :
            /\ cpc'[d] \in {"pipes", "end"} => cpc[d] \in {"pipes", "end"}
            /\ cpc'[d] \in {"fork", "close_ends", "read", "close_err"} =>
                  cpc[d] \in {"fork", "close_ends", "read", "close_err"}
  PROVE  FdInv'
BY DEF FdInv

LEMMA NextFds ==
  ASSUME ProcTypeOK, FdInv, ReaderInv, [ProcNext]_proc_vars
  PROVE  FdInv'
<1> DEFINE Having == {"fork", "close_ends", "read", "close_err"}
<1>1. ASSUME NEW c \in Command, OpenPipes(c) PROVE FdInv'
  <2>1. PICK out \in Fd, err \in Fd :
            /\ out # err /\ fd[out] = NoPipe /\ fd[err] = NoPipe
            /\ fd' = [fd EXCEPT ![out] = <<c, "out">>, ![err] = <<c, "err">>]
            /\ rfd' = [rfd EXCEPT ![c] = [p \in Pipe |-> IF p = "out" THEN out ELSE err]]
    BY <1>1, Opened
  <2>2. /\ fd'[out] = <<c, "out">> /\ fd'[err] = <<c, "err">>
        /\ \A f \in Fd : f # out /\ f # err => fd'[f] = fd[f]
    BY <2>1 DEF ProcTypeOK
  <2>3. /\ rfd'[c]["out"] = out /\ rfd'[c]["err"] = err
        /\ \A d \in Command, p \in Pipe : d # c => rfd'[d][p] = rfd[d][p]
    BY <2>1 DEF ProcTypeOK, Pipe
  <2>4. cpc[c] = "pipes" /\ cpc'[c] = "fork" /\ \A d \in Command : d # c => cpc'[d] = cpc[d]
    BY <1>1 DEF OpenPipes, Moves, ProcTypeOK
  <2>5. ASSUME NEW d \in Command, NEW p \in Pipe, rfd'[d][p] # NoFd
        PROVE  fd'[rfd'[d][p]] = <<d, p>>
    <3>1. CASE d = c
      BY <2>2, <2>3, <3>1 DEF Pipe
    <3>2. CASE d # c
      <4>1. fd[rfd[d][p]] = <<d, p>> /\ rfd[d][p] \in Fd /\ rfd'[d][p] = rfd[d][p]
        BY <2>3, <2>5, <3>2 DEF FdInv, ProcTypeOK
      <4>2. rfd[d][p] # out /\ rfd[d][p] # err
        BY <2>1, <4>1 DEF NoPipe, Command
      <4> QED BY <2>2, <4>1, <4>2
    <3> QED BY <3>1, <3>2
  <2>6. ASSUME NEW d \in Command, NEW p \in Pipe, NEW f \in Fd, fd'[f] = <<d, p>>
        PROVE  rfd'[d][p] = f
    <3>1. CASE f = out
      BY <2>2, <2>3, <2>6, <3>1
    <3>2. CASE f = err
      BY <2>2, <2>3, <2>6, <3>2
    <3>3. CASE f # out /\ f # err
      <4>1. fd[f] = <<d, p>>
        BY <2>2, <2>6, <3>3
      <4>2. rfd[d][p] = f /\ f # NoFd
        BY <4>1 DEF FdInv, Fd, NoFd
      <4>3. d # c
        BY <2>4, <4>2 DEF FdInv
      <4> QED BY <2>3, <4>2, <4>3
    <3> QED BY <3>1, <3>2, <3>3
  <2>7. ASSUME NEW d \in Command, NEW p \in Pipe
        PROVE  /\ cpc'[d] \in {"pipes", "end"} => rfd'[d][p] = NoFd
               /\ cpc'[d] \in Having => rfd'[d][p] # NoFd
    BY <2>3, <2>4 DEF FdInv, Pipe, Fd, NoFd
  <2> QED BY <2>5, <2>6, <2>7 DEF FdInv
<1>2. ASSUME NEW c \in Command, ExecFails(c) \/ CloseBoth(c) \/ Join(c) PROVE FdInv'
  <2>1. fd' = ClosedFds({rfd[c][p] : p \in Pipe})
    BY <1>2 DEF ExecFails, CloseBoth, Join, FdsOf
  <2>2. /\ \A p \in Pipe : rfd'[c][p] = NoFd
        /\ \A d \in Command, p \in Pipe : d # c => rfd'[d][p] = rfd[d][p]
    BY <1>2 DEF ExecFails, CloseBoth, Join, ProcTypeOK
  <2>3. cpc'[c] \in {"end", "wait"} /\ \A d \in Command : d # c => cpc'[d] = cpc[d]
    BY <1>2 DEF ExecFails, CloseBoth, Join, Moves, ProcTypeOK
  <2>4. \A d \in Command, p \in Pipe :
            /\ cpc'[d] \in {"pipes", "end"} => rfd'[d][p] = NoFd
            /\ cpc'[d] \in Having => rfd'[d][p] # NoFd
    BY <2>2, <2>3 DEF FdInv
  <2> QED BY <2>1, <2>2, <2>4, FdsClosed
<1>3. ASSUME NEW c \in Command, CloseErr(c) PROVE FdInv'
  <2>1. fd' = ClosedFds({rfd[c][p] : p \in {"err"}})
    BY <1>3 DEF CloseErr
  <2>2. /\ \A p \in Pipe : rfd'[c][p] = IF p \in {"err"} THEN NoFd ELSE rfd[c][p]
        /\ \A d \in Command, p \in Pipe : d # c => rfd'[d][p] = rfd[d][p]
    BY <1>3 DEF CloseErr, ProcTypeOK, Pipe
  <2>3. cpc'[c] = "wait" /\ \A d \in Command : d # c => cpc'[d] = cpc[d]
    BY <1>3 DEF CloseErr, Moves, ProcTypeOK
  <2>4. \A d \in Command, p \in Pipe :
            /\ cpc'[d] \in {"pipes", "end"} => rfd'[d][p] = NoFd
            /\ cpc'[d] \in Having => rfd'[d][p] # NoFd
    BY <2>2, <2>3 DEF FdInv
  <2>5. {"err"} \in SUBSET Pipe
    BY DEF Pipe
  <2> QED BY <2>1, <2>2, <2>4, <2>5, FdsClosed
<1>4. ASSUME NEW c \in Command, Fork(c) \/ OutEnds(c) \/ Wait(c) PROVE FdInv'
  BY <1>4, FdsKept DEF Fork, OutEnds, Wait, Moves, ProcTypeOK
<1>5. ASSUME NEW c \in Command, CloseEnds(c) PROVE FdInv'
  <2>1. prog[c].call \in {"command", "ping", "scp"}
    BY ProcAssumption DEF ProcTypeOK, Program
  <2> QED BY <1>5, <2>1, FdsKept DEF CloseEnds, Moves, ProcTypeOK
<1>6. ASSUME NEW c \in Command, ReadOut(c) \/ Reader(c) \/ Remote(c) PROVE FdInv'
  <2>1. UNCHANGED <<fd, rfd, cpc>>
    BY <1>6 DEF ReadOut, Reader, LoadFd, ResolveFd, ReadErr, ErrEnds, Remote, Write, Exit
  <2> QED BY <2>1, FdsKept
<1>7. CASE UNCHANGED proc_vars
  BY <1>7, FdsKept DEF proc_vars
<1> QED
  BY <1>1, <1>2, <1>3, <1>4, <1>5, <1>6, <1>7 DEF ProcNext, Caller

-----------------------------------------------------------------------------
(* Every step keeps the invariant: readers and holders.                    *)

LEMMA NextReaders ==
  ASSUME ProcTypeOK, ReaderInv, [ProcNext]_proc_vars
  PROVE  ReaderInv'
<1> USE DEF ProcTypeOK, ReaderInv
<1>a. \A c \in Command : /\ prog[c].call \in {"command", "ping", "scp"} /\ prog[c].errors \in BOOLEAN
                         /\ (<<c, "err">> # NoPipe)
  BY ProcAssumption DEF Program, NoPipe, Command
<1>1. ASSUME NEW c \in Command, CloseEnds(c) PROVE ReaderInv'
  BY <1>1, <1>a DEF CloseEnds, Moves
<1>2. ASSUME NEW c \in Command, OpenPipes(c) \/ Fork(c) \/ ExecFails(c) \/ CloseBoth(c) \/ Wait(c)
                                  \/ OutEnds(c) \/ CloseErr(c)
      PROVE  ReaderInv'
  BY <1>2 DEF OpenPipes, Fork, ExecFails, CloseBoth, Wait, OutEnds, CloseErr, Moves
<1>3. ASSUME NEW c \in Command, Join(c) PROVE ReaderInv'
  BY <1>3 DEF Join, Moves
<1>4. ASSUME NEW c \in Command, LoadFd(c) PROVE ReaderInv'
  BY <1>4 DEF LoadFd, Reads
<1>5. ASSUME NEW c \in Command, ResolveFd(c) PROVE ReaderInv'
  BY <1>5 DEF ResolveFd, Reads
<1>6. ASSUME NEW c \in Command, ReadErr(c) PROVE ReaderInv'
  BY <1>6 DEF ReadErr, Reads
<1>7. ASSUME NEW c \in Command, ErrEnds(c) PROVE ReaderInv'
  BY <1>7 DEF ErrEnds, Reads
<1>8. ASSUME NEW c \in Command, ReadOut(c) \/ Remote(c) PROVE ReaderInv'
  BY <1>8 DEF ReadOut, Remote, Write, Exit
<1>9. CASE UNCHANGED proc_vars
  BY <1>9 DEF proc_vars
<1> QED
  BY <1>1, <1>2, <1>3, <1>4, <1>5, <1>6, <1>7, <1>8, <1>9 DEF ProcNext, Caller, Reader

LEMMA NextHolders ==
  ASSUME ProcTypeOK, HolderInv, [ProcNext]_proc_vars
  PROVE  HolderInv'
<1> USE DEF ProcTypeOK, HolderInv
<1>a. \A c \in Command : prog[c].call \in {"command", "ping", "scp"} /\ c # Nbuild
  BY ProcAssumption DEF Program, Nbuild, Command
<1>1. ASSUME NEW c \in Command, CloseEnds(c) PROVE HolderInv'
  BY <1>1, <1>a DEF CloseEnds, Moves
<1>2. ASSUME NEW c \in Command, OpenPipes(c) PROVE HolderInv'
  BY <1>2 DEF OpenPipes, Moves
<1>3. ASSUME NEW c \in Command, Fork(c) PROVE HolderInv'
  BY <1>3, <1>a DEF Fork, Moves
<1>4. ASSUME NEW c \in Command, ExecFails(c) PROVE HolderInv'
  BY <1>4, <1>a DEF ExecFails, Moves
<1>5. ASSUME NEW c \in Command, CloseBoth(c) \/ Wait(c) \/ OutEnds(c) \/ CloseErr(c) \/ Join(c)
      PROVE  HolderInv'
  BY <1>5 DEF CloseBoth, Wait, OutEnds, CloseErr, Join, Moves
<1>6. ASSUME NEW c \in Command, Exit(c) PROVE HolderInv'
  BY <1>6, <1>a DEF Exit
<1>7. ASSUME NEW c \in Command, ReadOut(c) \/ Reader(c) \/ \E p \in Pipe : Write(c, p)
      PROVE  HolderInv'
  <2>1. UNCHANGED <<cpc, holders, status>>
    BY <1>7 DEF ReadOut, Reader, LoadFd, ResolveFd, ReadErr, ErrEnds, Write
  <2>2. \A d \in Command : status[d] = "no" => \A p \in Pipe : wrote'[d][p] = wrote[d][p]
    BY <1>7 DEF ReadOut, Reader, LoadFd, ResolveFd, ReadErr, ErrEnds, Write
  <2> QED BY <2>1, <2>2
<1>8. CASE UNCHANGED proc_vars
  BY <1>8 DEF proc_vars
<1> QED
  BY <1>1, <1>2, <1>3, <1>4, <1>5, <1>6, <1>7, <1>8 DEF ProcNext, Caller, Remote

-----------------------------------------------------------------------------
(* Every step keeps the invariant: what the streams hold.                  *)

\* A step leaves alone what is known of the commands it does not touch.
Same(d) == /\ cpc'[d] = cpc[d] /\ rfd'[d]["err"] = rfd[d]["err"] /\ status'[d] = status[d]
           /\ reader'[d] = reader[d] /\ rreg'[d] = rreg[d] /\ rpipe'[d] = rpipe[d]
           /\ \A p \in Pipe : /\ got'[d][p] = got[d][p] /\ wrote'[d][p] = wrote[d][p]
                              /\ fill'[d][p] = fill[d][p]

LEMMA KnownFollows ==
  ASSUME NEW d \in Command, CommandKnown(d), Same(d), UNCHANGED prog
  PROVE  CommandKnown(d)'
<1>1. "out" \in Pipe /\ "err" \in Pipe
  BY DEF Pipe
<1>2. OwnPipe(d)'
  BY DEF CommandKnown, OwnPipe, Same
<1>3. Stored(d, "out")' /\ Stored(d, "err")'
  BY <1>1 DEF CommandKnown, Stored, Wanted, Same
<1> QED BY <1>1, <1>2, <1>3 DEF CommandKnown, OutRead, ErrRead, Emptied, Same

LEMMA NextOutput ==
  ASSUME ProcTypeOK, ProcInv, [ProcNext]_proc_vars
  PROVE  OutputInv'
<1> SUFFICES ASSUME ~cut', ~cut PROVE \A d \in Command : CommandKnown(d)'
  <2>1. ~cut' => ~cut
    BY DEF ProcNext, Caller, Reader, Remote, OpenPipes, Fork, ExecFails, CloseEnds, ReadOut, OutEnds,
           CloseErr, CloseBoth, Wait, Join, LoadFd, ResolveFd, ReadErr, ErrEnds, Write, Exit, proc_vars
  <2> QED BY <2>1 DEF OutputInv
<1>a. "out" \in Pipe /\ "err" \in Pipe /\ \A p \in Pipe : p = "out" \/ p = "err"
  BY DEF Pipe
<1>b. \A c \in Command : CommandKnown(c)
  BY DEF ProcInv, OutputInv
<1>c. \A c \in Command : /\ prog[c].call \in {"command", "ping", "scp"} /\ prog[c].errors \in BOOLEAN
                         /\ c # Nbuild /\ <<c, "err">> # NoPipe
  BY ProcAssumption DEF Program, Nbuild, Command, NoPipe, ProcTypeOK
<1>d. ReaderInv /\ HolderInv /\ FdInv
  BY DEF ProcInv
<1>e. ASSUME NEW c \in Command, UNCHANGED prog, \A d \in Command : d # c => Same(d), CommandKnown(c)'
      PROVE  \A d \in Command : CommandKnown(d)'
  BY <1>b, <1>e, KnownFollows
<1>1. ASSUME NEW c \in Command, OpenPipes(c)
      PROVE  \A d \in Command : CommandKnown(d)'
  <2>1. \A d \in Command : d # c => Same(d)
    BY <1>1, Opened, <1>d DEF OpenPipes, Moves, Same, ProcTypeOK
  <2>2. CommandKnown(c)'
    <3> USE DEF CommandKnown, OwnPipe, Stored, Emptied, OutRead, ErrRead, Wanted, ProcTypeOK
    <3> QED BY <1>1, <1>b, <1>d DEF OpenPipes, Moves, ReaderInv
  <2>3. UNCHANGED prog
    BY <1>1 DEF OpenPipes
  <2> QED BY <1>e, <2>1, <2>2, <2>3
<1>2. ASSUME NEW c \in Command, Fork(c)
      PROVE  \A d \in Command : CommandKnown(d)'
  <2>1. \A d \in Command : d # c => Same(d)
    BY <1>2 DEF Fork, Moves, Same, ProcTypeOK
  <2>2. CommandKnown(c)'
    <3> USE DEF CommandKnown, OwnPipe, Stored, Emptied, OutRead, ErrRead, Wanted, ProcTypeOK
    <3> QED BY <1>2, <1>b, <1>d DEF Fork, Moves, ReaderInv
  <2>3. UNCHANGED prog
    BY <1>2 DEF Fork
  <2> QED BY <1>e, <2>1, <2>2, <2>3
<1>3. ASSUME NEW c \in Command, ExecFails(c)
      PROVE  \A d \in Command : CommandKnown(d)'
  <2>1. \A d \in Command : d # c => Same(d)
    BY <1>3 DEF ExecFails, Moves, Same, ProcTypeOK
  <2>3. UNCHANGED prog
    BY <1>3 DEF ExecFails
  <2>2. CommandKnown(c)'
    <3> USE DEF CommandKnown, OwnPipe, Stored, Emptied, OutRead, ErrRead, Wanted, ProcTypeOK
    <3> QED BY <1>3, <1>a, <1>b, <1>d DEF ExecFails, Moves, ReaderInv, HolderInv
  <2> QED BY <1>e, <2>1, <2>2, <2>3
<1>4. ASSUME NEW c \in Command, CloseEnds(c)
      PROVE  \A d \in Command : CommandKnown(d)'
  <2>1. UNCHANGED prog /\ \A d \in Command : d # c => Same(d)
    BY <1>4 DEF CloseEnds, Moves, Same, ProcTypeOK
  <2>2. CommandKnown(c)'
    <3> USE DEF CommandKnown, OwnPipe, Stored, Emptied, OutRead, ErrRead, Wanted, ProcTypeOK
    <3> QED BY <1>4, <1>a, <1>b, <1>c, <1>d DEF CloseEnds, Moves, ReaderInv, HolderInv
  <2> QED BY <1>e, <2>1, <2>2
<1>5. ASSUME NEW c \in Command, NEW p \in Pipe, Write(c, p)
      PROVE  \A d \in Command : CommandKnown(d)'
  <2>1. UNCHANGED prog /\ \A d \in Command : d # c => Same(d)
    BY <1>5 DEF Write, Same, ProcTypeOK
  <2>2. CommandKnown(c)'
    <3> USE DEF CommandKnown, OwnPipe, Stored, Emptied, OutRead, ErrRead, Wanted, ProcTypeOK
    <3>1. CASE prog[c].call # "command"
      BY <1>5, <1>a, <1>b, <1>d, <3>1 DEF Write, ReaderInv
    <3>2. CASE prog[c].call = "command"
      <4>1. status[c] = "runs" /\ ~OutRead(c) /\ ~ErrRead(c) /\ cpc[c] \notin {"pipes", "fork"}
        BY <1>5, <1>b, <1>d DEF Write, HolderInv
      <4>2. cpc[c] \in {"close_ends", "read"}
        BY <1>d, <3>2, <4>1 DEF ReaderInv
      <4>3. rfd[c][p] \in Fd /\ fd[rfd[c][p]] = <<c, p>>
        BY <1>d, <4>2 DEF FdInv
      <4>4. Readable(c, p)
        BY <4>3 DEF Readable, Open
      <4>5. /\ wrote'[c][p] = wrote[c][p] + 1 /\ fill'[c][p] = fill[c][p] + 1
            /\ \A q \in Pipe : q # p => wrote'[c][q] = wrote[c][q] /\ fill'[c][q] = fill[c][q]
            /\ UNCHANGED <<prog, cpc, rfd, status, reader, rreg, rpipe, got>>
        BY <1>5, <4>4 DEF Write
      <4>6. /\ ~OutRead(c)' /\ ~ErrRead(c)' /\ status'[c] = "runs" /\ OwnPipe(c)'
            /\ cpc'[c] \in {"close_ends", "read"}
        BY <1>b, <4>1, <4>2, <4>5
      <4>7. \A q \in Pipe : /\ got[c][q].own \in Nat /\ fill[c][q] \in Int /\ wrote[c][q] \in Nat
                            /\ Stored(c, q)
        BY <1>a, <1>b
      <4>8. Stored(c, "out")' /\ Stored(c, "err")'
        <5>1. ASSUME NEW q \in Pipe PROVE Stored(c, q)'
          <6>1. CASE q = p
            BY <4>5, <4>7, <6>1
          <6>2. CASE q # p
            BY <4>5, <4>7, <6>2
          <6> QED BY <6>1, <6>2
        <5> QED BY <1>a, <5>1
      <4> QED BY <4>6, <4>8
    <3> QED BY <3>1, <3>2
  <2> QED BY <1>e, <2>1, <2>2
<1>6. ASSUME NEW c \in Command, Exit(c)
      PROVE  \A d \in Command : CommandKnown(d)'
  <2>1. UNCHANGED prog /\ \A d \in Command : d # c => Same(d)
    BY <1>6 DEF Exit, Same, ProcTypeOK
  <2>2. CommandKnown(c)'
    <3> USE DEF CommandKnown, OwnPipe, Stored, Emptied, OutRead, ErrRead, Wanted, ProcTypeOK
    <3> QED BY <1>6, <1>a, <1>b, <1>c, <1>d DEF Exit
  <2> QED BY <1>e, <2>1, <2>2
<1>7. ASSUME NEW c \in Command, ReadOut(c)
      PROVE  \A d \in Command : CommandKnown(d)'
  <2>1. UNCHANGED prog /\ \A d \in Command : d # c => Same(d)
    BY <1>7 DEF ReadOut, Same, ProcTypeOK
  <2>2. CommandKnown(c)'
    <3> USE DEF CommandKnown, OwnPipe, Stored, Emptied, OutRead, ErrRead, Wanted, ProcTypeOK
    <3> QED BY <1>7, <1>a, <1>b, <1>c, <1>d DEF ReadOut
  <2> QED BY <1>e, <2>1, <2>2
<1>8. ASSUME NEW c \in Command, OutEnds(c)
      PROVE  \A d \in Command : CommandKnown(d)'
  <2>1. UNCHANGED prog /\ \A d \in Command : d # c => Same(d)
    BY <1>8 DEF OutEnds, Moves, Same, ProcTypeOK
  <2>2. CommandKnown(c)'
    <3> USE DEF CommandKnown, OwnPipe, Stored, Emptied, OutRead, ErrRead, Wanted, ProcTypeOK
    <3> QED BY <1>8, <1>a, <1>b, <1>c, <1>d DEF OutEnds, Moves, Eof, HolderInv, ReaderInv
  <2> QED BY <1>e, <2>1, <2>2
<1>9. ASSUME NEW c \in Command, LoadFd(c)
      PROVE  \A d \in Command : CommandKnown(d)'
  <2>1. UNCHANGED prog /\ \A d \in Command : d # c => Same(d)
    BY <1>9 DEF LoadFd, Reads, Same, ProcTypeOK
  <2>2. CommandKnown(c)'
    <3> USE DEF CommandKnown, OwnPipe, Stored, Emptied, OutRead, ErrRead, Wanted, ProcTypeOK
    <3> QED BY <1>9, <1>a, <1>b, <1>c, <1>d DEF LoadFd, Reads
  <2> QED BY <1>e, <2>1, <2>2
<1>10. ASSUME NEW c \in Command, ResolveFd(c)
      PROVE  \A d \in Command : CommandKnown(d)'
  <2>1. UNCHANGED prog /\ \A d \in Command : d # c => Same(d)
    BY <1>10 DEF ResolveFd, Reads, Same, ProcTypeOK
  <2>2. CommandKnown(c)'
    <3> USE DEF CommandKnown, OwnPipe, Stored, Emptied, OutRead, ErrRead, Wanted, ProcTypeOK
    <3>1. reader[c] = "resolve" /\ cpc[c] \in {"read", "close_err"} /\ rreg[c] = rfd[c]["err"]
      BY <1>10, <1>b DEF ResolveFd, Reads
    <3>2. rreg[c] # NoFd /\ fd[rreg[c]] = <<c, "err">>
      BY <1>a, <1>d, <3>1 DEF FdInv
    <3>3. reader'[c] = "read" /\ rpipe'[c] = <<c, "err">>
      BY <1>10, <1>c, <3>2 DEF ResolveFd, Reads
    <3>4. UNCHANGED <<prog, cpc, rfd, fill, wrote, status, got>>
      BY <1>10 DEF ResolveFd
    <3> QED BY <1>a, <1>b, <3>1, <3>3, <3>4
  <2> QED BY <1>e, <2>1, <2>2
<1>11. ASSUME NEW c \in Command, ReadErr(c)
      PROVE  \A d \in Command : CommandKnown(d)'
  <2>1. UNCHANGED prog /\ \A d \in Command : d # c => Same(d)
    <3>1. rpipe[c] = <<c, "err">> /\ reader[c] = "read"
      BY <1>11, <1>b DEF ReadErr, Reads, CommandKnown, OwnPipe
    <3> QED BY <1>11, <1>a, <3>1 DEF ReadErr, Reads, Same, ProcTypeOK
  <2>2. CommandKnown(c)'
    <3> USE DEF CommandKnown, OwnPipe, Stored, Emptied, OutRead, ErrRead, Wanted, ProcTypeOK
    <3> QED BY <1>11, <1>a, <1>b, <1>c, <1>d DEF ReadErr, Reads
  <2> QED BY <1>e, <2>1, <2>2
<1>12. ASSUME NEW c \in Command, ErrEnds(c)
      PROVE  \A d \in Command : CommandKnown(d)'
  <2>1. UNCHANGED prog /\ \A d \in Command : d # c => Same(d)
    BY <1>12 DEF ErrEnds, Reads, Same, ProcTypeOK
  <2>2. CommandKnown(c)'
    <3> USE DEF CommandKnown, OwnPipe, Stored, Emptied, OutRead, ErrRead, Wanted, ProcTypeOK
    <3> QED BY <1>12, <1>a, <1>b, <1>c, <1>d DEF ErrEnds, Reads, Eof, HolderInv, ReaderInv
  <2> QED BY <1>e, <2>1, <2>2
<1>13. ASSUME NEW c \in Command, CloseErr(c)
      PROVE  \A d \in Command : CommandKnown(d)'
  <2>1. UNCHANGED prog /\ \A d \in Command : d # c => Same(d)
    BY <1>13 DEF CloseErr, Moves, Same, ProcTypeOK
  <2>2. CommandKnown(c)'
    <3> USE DEF CommandKnown, OwnPipe, Stored, Emptied, OutRead, ErrRead, Wanted, ProcTypeOK
    <3> QED BY <1>13, <1>a, <1>b, <1>c, <1>d DEF CloseErr, Moves
  <2> QED BY <1>e, <2>1, <2>2
<1>14. ASSUME NEW c \in Command, CloseBoth(c)
      PROVE  \A d \in Command : CommandKnown(d)'
  <2>1. UNCHANGED prog /\ \A d \in Command : d # c => Same(d)
    BY <1>14 DEF CloseBoth, Moves, Same, ProcTypeOK
  <2>2. CommandKnown(c)'
    <3> USE DEF CommandKnown, OwnPipe, Stored, Emptied, OutRead, ErrRead, Wanted, ProcTypeOK
    <3> QED BY <1>14, <1>a, <1>b, <1>c, <1>d DEF CloseBoth, Moves, ReaderInv
  <2> QED BY <1>e, <2>1, <2>2
<1>15. ASSUME NEW c \in Command, Wait(c)
      PROVE  \A d \in Command : CommandKnown(d)'
  <2>1. UNCHANGED prog /\ \A d \in Command : d # c => Same(d)
    BY <1>15 DEF Wait, Moves, Same, ProcTypeOK
  <2>2. CommandKnown(c)'
    <3> USE DEF CommandKnown, OwnPipe, Stored, Emptied, OutRead, ErrRead, Wanted, ProcTypeOK
    <3> QED BY <1>15, <1>a, <1>b, <1>c, <1>d DEF Wait, Moves
  <2> QED BY <1>e, <2>1, <2>2
<1>16. ASSUME NEW c \in Command, Join(c)
      PROVE  \A d \in Command : CommandKnown(d)'
  <2>1. UNCHANGED prog /\ \A d \in Command : d # c => Same(d)
    BY <1>16 DEF Join, Moves, Same, ProcTypeOK
  <2>2. CommandKnown(c)'
    <3> USE DEF CommandKnown, OwnPipe, Stored, Emptied, OutRead, ErrRead, Wanted, ProcTypeOK
    <3> QED BY <1>16, <1>a, <1>b, <1>c, <1>d DEF Join, Moves
  <2> QED BY <1>e, <2>1, <2>2
<1>17. CASE UNCHANGED proc_vars
  <2>1. UNCHANGED prog /\ \A d \in Command : Same(d)
    BY <1>17 DEF proc_vars, Same, ProcTypeOK
  <2> QED BY <1>b, <2>1, KnownFollows
<1> QED
  BY <1>1, <1>2, <1>3, <1>4, <1>5, <1>6, <1>7, <1>8, <1>9, <1>10, <1>11, <1>12, <1>13, <1>14,
     <1>15, <1>16, <1>17 DEF ProcNext, Caller, Reader, Remote

-----------------------------------------------------------------------------
(* The theorems.                                                           *)

LEMMA InitProc == ProcInit => ProcTypeOK /\ ProcInv
<1> USE ProcAssumption
<1> SUFFICES ASSUME ProcInit PROVE ProcTypeOK /\ ProcInv
  OBVIOUS
<1>1. ProcTypeOK
  <2>1. fd \in [Fd -> (Command \X Pipe) \cup {NoPipe}]
    BY DEF ProcInit
  <2>2. cut \in BOOLEAN
    BY Zenon DEF ProcInit
  <2> QED BY <2>1, <2>2 DEF ProcInit, ProcTypeOK
<1>2. FdInv
  BY DEF ProcInit, FdInv, NoPipe, Command
<1>3. ReaderInv
  BY DEF ProcInit, ReaderInv
<1>4. HolderInv
  BY DEF ProcInit, HolderInv
<1>5. OutputInv
  BY DEF ProcInit, OutputInv, CommandKnown, OwnPipe, Stored, Emptied, OutRead, ErrRead, Wanted, Pipe
<1> QED BY <1>1, <1>2, <1>3, <1>4, <1>5 DEF ProcInv

\* The types of the commands and what the invariant says of descriptors, readers, pipes
\* and streams are kept, for any number of commands (ssh.c:91, bproc.c:54).
THEOREM CommandsKnown == ProcSpec => [](ProcTypeOK /\ ProcInv)
<1>1. ProcTypeOK /\ ProcInv /\ [ProcNext]_proc_vars => ProcTypeOK' /\ ProcInv'
  BY NextTypes, NextFds, NextReaders, NextHolders, NextOutput DEF ProcInv
<1> QED BY <1>1, InitProc, PTL DEF ProcSpec

\* No call keeps a descriptor and no thread reads after its call has ended (bproc_close,
\* and bthread_wait in ssh_command), however many calls of other threads overlap with it.
THEOREM NothingIsLeftHolds == ProcSpec => []NothingIsLeft
<1>1. ASSUME ProcTypeOK, ProcInv, NEW c \in Command, cpc[c] = "end"
      PROVE  (\A f \in Fd : fd[f] = NoPipe \/ fd[f][1] # c) /\ reader[c] \in {"none", "done"}
  <2>1. ASSUME NEW f \in Fd, fd[f] # NoPipe, fd[f][1] = c PROVE FALSE
    <3>1. PICK d \in Command, p \in Pipe : fd[f] = <<d, p>>
      BY <1>1, <2>1 DEF ProcTypeOK
    <3> QED BY <1>1, <2>1, <3>1 DEF ProcInv, FdInv, Fd, NoFd
  <2> QED BY <1>1, <2>1 DEF ProcInv, ReaderInv
<1>2. ProcTypeOK /\ ProcInv => NothingIsLeft
  BY <1>1 DEF NothingIsLeft
<1> QED BY <1>2, CommandsKnown, PTL

\* Unless a descriptor was closed under its reader, the streams of a command hold all it
\* wrote and nothing of another one (ssh_command, i_std_err), for any number of commands
\* that fork, inherit pipes and reuse descriptors at the same time.
THEOREM OutputUnlessCutHolds == ProcSpec => []OutputUnlessCut
<1>1. ASSUME ProcTypeOK, ProcInv, ~cut, NEW c \in Command, Returned(c)
      PROVE  Complete(c)
  <2>1. CommandKnown(c) /\ OutRead(c)
    BY <1>1 DEF ProcInv, OutputInv, Returned, OutRead
  <2>2. prog[c].errors => ErrRead(c)
    BY <1>1, <2>1 DEF Returned, CommandKnown
  <2>3. ASSUME NEW p \in Wanted(c) PROVE got[c][p] = [own |-> wrote[c][p], other |-> 0]
    <3>1. p \in Pipe /\ Stored(c, p) /\ Emptied(c, p)
      BY <2>1, <2>2, <2>3 DEF CommandKnown, Wanted, Pipe
    <3>2. got[c][p] \in [own : Nat, other : Nat] /\ wrote[c][p] \in Nat /\ fill[c][p] \in Int
      BY <1>1, <3>1 DEF ProcTypeOK
    <3>3. got[c][p].other = 0 /\ got[c][p].own = wrote[c][p]
      BY <1>1, <3>1, <3>2, <2>3 DEF Stored, Emptied, Returned
    <3> QED BY <3>2, <3>3
  <2> QED BY <2>3 DEF Complete
<1>2. ProcTypeOK /\ ProcInv => OutputUnlessCut
  BY <1>1 DEF OutputUnlessCut
<1> QED BY <1>2, CommandsKnown, PTL
==============================================================================
