------------------------------ MODULE Instances ------------------------------
(***************************************************************************)
(* Runs of nbuild for the same flow on the same master, started by hand or *)
(* by a timer without regard for each other: i_create_temp_paths of        *)
(* src/nbuild/workflow.c and the end of i_run.  The lock file lies in the  *)
(* temporal folder of the flow, and every run empties that folder before   *)
(* it writes its own lock file.                                            *)
(***************************************************************************)
EXTENDS Integers, FiniteSets

CONSTANTS
    Run,        \* the runs of nbuild
    MaxKills    \* bound on the runs that are killed

ASSUME InstancesAssumption == MaxKills \in Nat

VARIABLES
    folder,     \* the temporal folder exists
    lock,       \* the lock file exists
    files,      \* the runs whose sources lie in the folder
    rpc,
    mine,       \* remove_lockfile
    packed,     \* the runs whose sources are in the package a run has made
    kills,
    raced       \* history: a run has started while another created its paths

lock_vars == <<folder, lock, files, rpc, mine, packed, kills, raced>>

Creating == {"check", "destroy", "create", "chdir", "write"}
Inside   == {"fill", "pack", "unlock"}
Stopped  == {"refused", "end", "killed"}

LockInit ==
    /\ folder = FALSE /\ lock = FALSE /\ files = {}
    /\ rpc = [p \in Run |-> "off"]
    /\ mine = [p \in Run |-> FALSE]
    /\ packed = [p \in Run |-> {}]
    /\ kills = MaxKills
    /\ raced = FALSE

Advance(p, from, to) == rpc[p] = from /\ rpc' = [rpc EXCEPT ![p] = to]

Start(p) ==
    /\ Advance(p, "off", "check")
    /\ raced' = (raced \/ \E q \in Run : rpc[q] \in Creating)
    /\ UNCHANGED <<folder, lock, files, mine, packed, kills>>

\* Mutant of CheckLock: the lock file is not looked for.
CheckNothing(p) ==
    /\ Advance(p, "check", "destroy")
    /\ UNCHANGED <<folder, lock, files, mine, packed, kills, raced>>

\* The lock file is looked for; a run that finds one gives up.
CheckLock(p) ==
    /\ Advance(p, "check", IF lock THEN "refused" ELSE "destroy")
    /\ UNCHANGED <<folder, lock, files, mine, packed, kills, raced>>

\* Mutant of DestroyFolder: the folder of the earlier run is kept.
KeepFolder(p) ==
    /\ Advance(p, "destroy", "create")
    /\ UNCHANGED <<folder, lock, files, mine, packed, kills, raced>>

\* hfile_dir_destroy: the folder goes, whoever has put something in it.  It
\* fails, with part of the content gone, when a file cannot be removed.
DestroyFolder(p) ==
    /\ \/ /\ Advance(p, "destroy", "create")
          /\ folder' = FALSE /\ lock' = FALSE /\ files' = {}
       \/ /\ folder
          /\ Advance(p, "destroy", "unlock")
          /\ lock' \in BOOLEAN /\ (lock' => lock)
          /\ files' \in SUBSET files
          /\ UNCHANGED folder
    /\ UNCHANGED <<mine, packed, kills, raced>>

CreateFolder(p) ==
    /\ Advance(p, "create", "chdir")
    /\ folder' = TRUE
    /\ UNCHANGED <<lock, files, mine, packed, kills, raced>>

\* bfile_dir_set_work fails when another run has just removed the folder.
SetWork(p) ==
    /\ Advance(p, "chdir", IF folder THEN "write" ELSE "unlock")
    /\ UNCHANGED <<folder, lock, files, mine, packed, kills, raced>>

\* hfile_from_string overwrites a lock file that has appeared in the meantime.
WriteLock(p) ==
    /\ Advance(p, "write", IF folder THEN "fill" ELSE "unlock")
    /\ lock' = (lock \/ folder)
    /\ mine' = [mine EXCEPT ![p] = folder]
    /\ UNCHANGED <<folder, files, packed, kills, raced>>

\* Subfolders and sources: hfile_dir_create makes the missing parents too.
Fill(p) ==
    /\ Advance(p, "fill", "pack")
    /\ folder' = TRUE
    /\ files' = files \cup {p}
    /\ UNCHANGED <<lock, mine, packed, kills, raced>>

\* target_tar packs what the folder holds; the rest of i_run follows.
PackFiles(p) ==
    /\ Advance(p, "pack", "unlock")
    /\ packed' = [packed EXCEPT ![p] = files]
    /\ UNCHANGED <<folder, lock, files, mine, kills, raced>>

\* Mutant of Fail: a run that fails returns at once.
FailAtOnce(p) ==
    /\ \E stage \in {"fill", "pack"} : Advance(p, stage, "end")
    /\ UNCHANGED <<folder, lock, files, mine, packed, kills, raced>>

\* A stage of i_run fails.
Fail(p) ==
    /\ \E stage \in {"fill", "pack"} : Advance(p, stage, "unlock")
    /\ UNCHANGED <<folder, lock, files, mine, packed, kills, raced>>

\* The end of i_run: bfile_delete when remove_lockfile is set.
ReleaseLock(p) ==
    /\ Advance(p, "unlock", "end")
    /\ lock' = (lock /\ ~mine[p])
    /\ mine' = [mine EXCEPT ![p] = FALSE]
    /\ UNCHANGED <<folder, files, packed, kills, raced>>

KillRun(p) ==
    /\ kills > 0 /\ kills' = kills - 1
    /\ rpc[p] \notin Stopped \cup {"off"}
    /\ rpc' = [rpc EXCEPT ![p] = "killed"]
    /\ UNCHANGED <<folder, lock, files, mine, packed, raced>>

\* The operator removes a stale lock file, seeing that nothing runs.
RemoveLock ==
    /\ lock
    /\ \A p \in Run : rpc[p] \in Stopped \cup {"off"}
    /\ lock' = FALSE
    /\ UNCHANGED <<folder, files, rpc, mine, packed, kills, raced>>

AllEnded == (\A p \in Run : rpc[p] \in Stopped) /\ ~lock /\ UNCHANGED lock_vars

LockNext ==
    \/ \E p \in Run :
          \/ Start(p) \/ CheckLock(p) \/ DestroyFolder(p) \/ CreateFolder(p)
          \/ SetWork(p) \/ WriteLock(p) \/ Fill(p) \/ PackFiles(p)
          \/ Fail(p) \/ ReleaseLock(p) \/ KillRun(p)
    \/ RemoveLock
    \/ AllEnded

LockSpec == LockInit /\ [][LockNext]_lock_vars

-----------------------------------------------------------------------------
\* The type invariant of the runs.
LockTypeOK ==
    /\ folder \in BOOLEAN /\ lock \in BOOLEAN
    /\ files \subseteq Run
    /\ rpc \in [Run -> {"off"} \cup Creating \cup Inside \cup Stopped]
    /\ mine \in [Run -> BOOLEAN]
    /\ packed \in [Run -> SUBSET Run]
    /\ kills \in 0..MaxKills
    /\ raced \in BOOLEAN

\* The comment of i_create_temp_paths (workflow.c:328), "Check if another
\* 'nbuild' instance is running for this flow": two runs never work in the
\* folder at once.
OneRunInside ==
    \A p, q \in Run :
        (rpc[p] \in {"fill", "pack"} /\ rpc[q] \in {"fill", "pack"}) => p = q

\* What the lock does achieve: runs are kept apart, through any failures and
\* kills, as long as none has started while another was creating its paths.
AloneUnlessRaced == ~raced => OneRunInside

\* With the same condition, a package holds the sources of the run that makes it
\* and nothing a failed or killed run has left behind in the folder.
CleanUnlessRaced == ~raced => \A p \in Run : packed[p] \subseteq {p}

\* A lock file is always one that a run still has to remove, or that a killed
\* run has left: no sequence of overlapping runs leaves the flow locked.
LockHasOwner ==
    lock => \E p \in Run : mine[p] /\ rpc[p] \in Inside \cup {"killed"}
==============================================================================
