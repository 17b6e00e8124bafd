------------------------------- MODULE RunBuild -------------------------------
(***************************************************************************)
(* host_run_build and host_run_test of src/nbuild/host.c: what happens in  *)
(* the folder of a job on its host, and on the drive, from one run of      *)
(* nbuild to the next.  Every step is a remote command that may fail, do a *)
(* part of its work, or lose its connection.                               *)
(*                                                                         *)
(* Files stand for the version they were made from: a package, and what is *)
(* built of it, has two Halves, so that it can be incomplete.  Names of    *)
(* files, options, environments and logs are left out.                     *)
(***************************************************************************)
EXTENDS Integers, FiniteSets

CONSTANTS
    JobKinds,   \* the jobs: see JobKind
    MaxBuildVers,
    MaxCalls    \* bound on the calls of host_run_build

Version == 1..MaxBuildVers
Whole(v) == {v} \X {1, 2}
Files   == (0..MaxBuildVers) \X {1, 2}
Home    == {<<0, 1>>}       \* what the home of the user has
Dir     == {"flow", "src", "build", "install", "test", "test_build"}

\* gen: the generator is known, has no native install, or is unknown;
\* resigns: macOS arm64; old: cmake has no --install.
JobKind == [gen : {"known", "no_native", "unknown"}, resigns : BOOLEAN, old : BOOLEAN]

ASSUME RunBuildAssumption ==
    JobKinds \subseteq JobKind /\ MaxBuildVers \in Nat \ {0} /\ MaxCalls \in Nat

VARIABLES
    job,        \* the job
    bpc,        \* the next step of the call
    vers,       \* the version this run builds
    calls,      \* calls left
    there,      \* the folders that exist on the host
    has,        \* what they hold; has["flow"] is the last archive put there
    drive,      \* the packages on the drive
    ok,         \* the result so far, in the end that of the call
    msg,        \* error_msg is set
    native,     \* the install step uses the native build tool
    done,       \* the versions built without an error, by the report on the drive
    blind,      \* history: this build has had a failure that the code cannot see
    unseen,     \* history: the versions whose package comes from such a build
    ruined      \* history: the versions done whose package a later build has cut

past == <<done, blind, unseen, ruined>>
build_vars == <<job, bpc, vers, calls, there, has, drive, ok, msg, native, past>>

BuildInit ==
    /\ job \in JobKinds
    /\ bpc = "idle" /\ vers = 1 /\ calls = MaxCalls
    /\ there = {} /\ has = [d \in Dir |-> {}]
    /\ drive = [v \in Version |-> {}]
    /\ ok = FALSE /\ msg = FALSE /\ native = FALSE
    /\ done = {} /\ blind = FALSE /\ unseen = {} /\ ruined = {}

-----------------------------------------------------------------------------
At(step)   == bpc = step
Goto(step) == bpc' = step

TestSteps == {"get_tests", "configure_tests", "compile_tests", "execute"}
Ended     == {"idle", "built", "tested"}    \* no call, or one that has returned
NotSeen   == blind' = (bpc \notin TestSteps) /\ UNCHANGED <<done, unseen, ruined>>

\* A step that succeeds, and one that sets error_msg and ends the call.
Success(step) == Goto(step) /\ UNCHANGED <<ok, msg>>
Failure == Goto(IF bpc \in TestSteps THEN "tested" ELSE "built") /\ ok' = FALSE /\ msg' = TRUE

\* A run takes the version of the repository, the last one or a newer one.  One
\* that is built is built again when its job is forced (-j).
StartBuild ==
    /\ At("idle") /\ calls > 0 /\ calls' = calls - 1
    /\ \E v \in Version : v >= vers /\ vers' = v
    /\ IF job.gen = "unknown" THEN Failure ELSE Goto("clear") /\ ok' = TRUE /\ msg' = FALSE
    /\ UNCHANGED <<job, there, has, drive, native, past>>

\* The tests follow the build at once.
StartTest ==
    /\ At("built") /\ ok
    /\ Goto("get_tests") /\ ok' = TRUE /\ msg' = FALSE
    /\ UNCHANGED <<job, vers, calls, there, has, drive, native, past>>

\* i_save_report, when all the jobs of the run have ended: only now the report on
\* the drive knows how this build, and not an earlier one of the version, ended.
Save ==
    /\ bpc \in {"built", "tested"}
    /\ Goto("idle") /\ ok' = FALSE /\ msg' = FALSE /\ blind' = FALSE
    /\ done' = IF bpc = "tested" \/ ok THEN done \cup {vers} ELSE done \ {vers}
    /\ ruined' = ruined \ {vers}
    /\ UNCHANGED <<job, vers, calls, there, has, drive, native, unseen>>

\* nbuild is killed, or the master is turned off, before the report is saved.
Kill ==
    /\ bpc # "idle"
    /\ Goto("idle") /\ ok' = FALSE /\ msg' = FALSE /\ blind' = FALSE
    /\ UNCHANGED <<job, vers, calls, there, has, drive, native, done, unseen, ruined>>

\* Mutant of CreateBuildDirs: the folder of the last build is kept.
CreateBuildDirsOver ==
    /\ At("clear")
    /\ \/ there' = there \cup {"flow"} /\ Success("get_source")
       \/ UNCHANGED there /\ Failure
    /\ UNCHANGED <<job, vers, calls, has, drive, native, past>>

\* i_create_build_dirs: the folder of the last build is removed, wholly or, when
\* rm fails, in part, and made again.
CreateBuildDirs ==
    /\ At("clear")
    /\ \/ /\ there' = {"flow"} /\ has' = [d \in Dir |-> {}]
          /\ Success("get_source")
       \/ /\ \E D \in {{}, there \ {"src"}, there} :
                 there' = D /\ has' = [d \in Dir |-> IF d \in D THEN has[d] ELSE {}]
          /\ Failure
    /\ UNCHANGED <<job, vers, calls, drive, native, past>>

\* Mutant of GetPackage: nobody looks whether the package was unpacked.
GetPackageUnchecked(step, dest, then) ==
    /\ At(step)
    /\ \E F \in SUBSET Whole(vers) :
          has' = [has EXCEPT !["flow"] = Whole(vers), ![dest] = @ \cup F]
    /\ there' = there \cup {dest}
    /\ Success(then)
    /\ UNCHANGED <<job, vers, calls, drive, native, past>>

\* i_get_source_package: the package of this run is copied, a folder is created
\* and the package is unpacked there.
GetPackage(step, dest, then) ==
    /\ At(step)
    /\ \/ /\ there' = there \cup {dest}
          /\ has' = [has EXCEPT !["flow"] = Whole(vers), ![dest] = @ \cup Whole(vers)]
          /\ Success(then)
       \/ /\ \E D \in {{}, {dest}}, F \in SUBSET Whole(vers) :
                 /\ there' = there \cup D
                 /\ has' = [has EXCEPT !["flow"] = F,
                                       ![dest] = @ \cup (IF D = {} THEN {} ELSE F)]
          /\ Failure
    /\ UNCHANGED <<job, vers, calls, drive, native, past>>

\* i_cmake_version: a command that fails gives version 0.0.0, which has no
\* --install.  i_cmake_make_program: asks cmake for the native tool.
FindTools ==
    /\ At("tools")
    /\ \E isOld \in {TRUE, job.old} :
          /\ native' = isOld
          /\ Success("configure") \/ (isOld /\ Failure)
    /\ UNCHANGED <<job, vers, calls, there, has, drive, past>>

\* i_cmake_configure.  When the question whether the folder exists is lost, the
\* answer is yes, no folder is created, "cd" fails and cmake runs, with success,
\* in the home of the user.
Configure(step, build, then) ==
    /\ At(step)
    /\ \/ there' = there \cup {build} /\ Success(then) /\ UNCHANGED past
       \/ UNCHANGED there /\ Success(then) /\ NotSeen
       \/ (\E D \in {{}, {build}} : there' = there \cup D) /\ Failure /\ UNCHANGED past
    /\ UNCHANGED <<job, vers, calls, has, drive, native>>

\* i_cmake_build: the exit status is not looked at.  The build has failed when a
\* line of the log has one of two words in it, which a build that fails may lack
\* ("CMake Error", "error C2065", a killed compiler) and a build that succeeds
\* may have.
Compile(step, src, build, then) ==
    /\ At(step)
    /\ \/ /\ build \in there
          /\ has' = [has EXCEPT ![build] = @ \cup has[src]]
          /\ Success(then) \/ Failure
          /\ UNCHANGED past
       \/ /\ \E F \in SUBSET has[src] :
                 has' = [has EXCEPT ![build] = IF build \in there THEN @ \cup F ELSE @]
          /\ \/ Failure /\ UNCHANGED past
             \/ Success(then) /\ NotSeen
    /\ UNCHANGED <<job, vers, calls, there, drive, native>>

\* i_cmake_install: the exit status is not looked at, and the result of the
\* signature replaces an earlier one.  An archive of a build that was not
\* installed has no folder.
Install ==
    LET refused == native /\ job.gen = "no_native"
    IN  /\ At("install")
        /\ \E F \in SUBSET has["build"] :
              /\ has' = [has EXCEPT !["install"] = IF refused THEN {} ELSE F]
              /\ there' = IF refused \/ F = {} THEN there ELSE there \cup {"install"}
              /\ IF ~refused /\ F # has["build"] THEN NotSeen ELSE UNCHANGED past
        /\ Goto(IF job.resigns THEN "sign" ELSE IF refused THEN "built" ELSE "pack")
        /\ ok' = ~refused /\ msg' = refused
        /\ UNCHANGED <<job, vers, calls, drive, native>>

\* Mutant of Codesign: a failure without a message.
CodesignSilent ==
    /\ At("sign")
    /\ ok' = ("install" \in there) /\ Goto(IF ok' THEN "pack" ELSE "built")
    /\ UNCHANGED <<job, vers, calls, there, has, drive, msg, native, past>>

\* i_macos_codesign, of a folder that must exist.
Codesign ==
    /\ At("sign")
    /\ \/ /\ "install" \in there /\ ok' = TRUE /\ UNCHANGED msg /\ Goto("pack")
       \/ Failure
    /\ UNCHANGED <<job, vers, calls, there, has, drive, native, past>>

\* i_copy_to_drive, the archive: without its folder, "cd" fails and the home of
\* the user is packed.
Pack ==
    /\ At("pack")
    /\ \/ /\ has' = [has EXCEPT !["flow"] = IF "install" \in there THEN has["install"] ELSE Home]
          /\ Success("copy")
       \/ UNCHANGED has /\ Failure
    /\ UNCHANGED <<job, vers, calls, there, drive, native, past>>

\* i_copy_to_drive, the copy, over the package that is there.
CopyToDrive ==
    /\ At("copy")
    /\ \/ /\ drive' = [drive EXCEPT ![vers] = has["flow"]]
          /\ unseen' = IF blind THEN unseen \cup {vers} ELSE unseen \ {vers}
          /\ ruined' = ruined \ {vers}
          /\ Success("built")
       \/ /\ \E F \in SUBSET has["flow"] : drive' = [drive EXCEPT ![vers] = F]
          /\ ruined' = ruined \cup ({vers} \cap done)
          /\ UNCHANGED unseen /\ Failure
    /\ blind' = FALSE
    /\ UNCHANGED <<job, vers, calls, there, has, native, done>>

\* i_execute_tests.
ExecuteTests ==
    /\ At("execute")
    /\ Success("tested") \/ Failure
    /\ UNCHANGED <<job, vers, calls, there, has, drive, native, past>>

BuildNext ==
    \/ StartBuild \/ StartTest \/ Save \/ Kill \/ CreateBuildDirs
    \/ GetPackage("get_source", "src", "tools")
    \/ FindTools
    \/ Configure("configure", "build", "compile")
    \/ Compile("compile", "src", "build", "install")
    \/ Install \/ Codesign \/ Pack \/ CopyToDrive
    \/ GetPackage("get_tests", "test", "configure_tests")
    \/ Configure("configure_tests", "test_build", "compile_tests")
    \/ Compile("compile_tests", "test", "test_build", "execute")
    \/ ExecuteTests

BuildSpec == BuildInit /\ [][BuildNext]_build_vars
-----------------------------------------------------------------------------
(* Properties.                                                             *)

\* The type invariant of a build.
BuildTypeOK ==
    /\ job \in JobKinds
    /\ bpc \in Ended \cup TestSteps \cup {"clear", "get_source", "tools", "configure",
                                         "compile", "install", "sign", "pack", "copy"}
    /\ vers \in Version
    /\ calls \in 0..MaxCalls
    /\ there \subseteq Dir
    /\ has \in [Dir -> SUBSET Files]
    /\ drive \in [Version -> SUBSET Files]
    /\ ok \in BOOLEAN /\ msg \in BOOLEAN /\ native \in BOOLEAN
    /\ done \subseteq Version /\ blind \in BOOLEAN
    /\ unseen \subseteq Version /\ ruined \subseteq Version

\* Whatever failed, was killed and was built before in the same folder, the
\* package of a version never has files of another version.
NothingStale == \A v \in Version, f \in Files : f \in drive[v] => f[1] \in {v, 0}

\* A version that the report on the drive has as built has a whole package there,
\* whatever was killed and forced since; unless something failed in its build that
\* the code cannot see, or a build of it that was forced later has cut the package in
\* its copy and the report does not say so yet.
PackageUnlessUnseen == \A v \in done \ (unseen \cup ruined) : drive[v] = Whole(v)

\* The assertions of i_event_end (report.c:326-336), to which both calls return: a
\* result of FALSE comes with a message and a result of TRUE without, also where the
\* result of the signature replaces that of an installation.
MessageOfResult == bpc \in {"built", "tested"} => (msg <=> ~ok)
==============================================================================
