# nbuild in TLA+

nbuild is a continuous integration program written in C. One process on a *master* Linux
computer reads `workflow.json`, collects sources with Subversion or copies, packs them on a
*drive* reached by ssh, generates documentation, and builds and tests jobs on the other machines
of the network through ssh. It runs from time to time, each time as a new process. What it must
remember is in `report.json` on the drive. This directory holds the models of that program, the
TLC runs that check them and the proofs TLAPS checks.

Paths below are relative to `src/src/` of the repository unless they begin with `src/`;
`nbuild/` is the program itself, the other directories are libraries it is linked with.

## Inventory

| Component | State it keeps | Operations | Works with |
|---|---|---|---|
| Scheduler, `nbuild/sched.c` | tasks, runners (growable array), one mutex, one thread per runner | `sched_start`: assign a runner to each task, copy the packages, spawn, join; in a thread: boot, take a task, build, test, record, shut down | Report (written by the threads without a lock), Hosts, Booting, Dynamic arrays |
| Report, `nbuild/report.c` | events with start, end and seconds; sources, packages, documentation, jobs with two steps; loop ids | load and count the loop, open and close an event, select jobs, force jobs, record a result | all stages of Workflow, Scheduler |
| Workflow, `nbuild/workflow.c` | stage of the run, temporal folders, lock file | `i_run`: lock, load, copy, pack, document, schedule, save, unlock | all of the above |
| Targets and packages, `nbuild/target.c` | `src.tar`, `test.tar` on the drive | copy one source or test, copy the build file, pack | Workflow, Report |
| Documentation, `nbuild/prdoc.c` | a folder on the drive per version: package, site, `stdout.txt`, `stderr.txt` | take from the drive, or generate, store, upload | Workflow, Report |
| Temporal folder and lock file, `nbuild/workflow.c`, `core/hfile.c` | one folder and one file on the master, shared by all processes | look for the lock, destroy the folder, create it, write the lock, remove it | other processes of nbuild |
| Booting, `nbuild/nboot.c` | power of the machines, the blessed volume of a Mac, the launch script of UTM, the state of each runner | boot (vbox, vmware, utm, macOS volumes), wait with a limit, shut down | Scheduler threads, all at once |
| Hosts, `nbuild/host.c` | records of `network.json` | match a job with hosts, find the volume alive, run a build, run the tests | Scheduler, Booting |
| Remote commands, `nlib/ssh.c`, `osbs/unix/bproc.c` | three pipes and a process per command, the table of file descriptors, one file `temp_file` per user | run, read both outputs, copy files; ping | everything, from all threads |
| Data binding, `core/dbind.c`, `encode/json.c` | registered types with names, defaults and members | create, set and remove objects; write and read them as JSON | Report, network and workflow files |
| Regular expressions, `core/nfa.c`, `core/regex.c` | an automaton | compile a pattern, match a text | Targets (`ignore`), Report (`-j`) |
| Streams, `core/stream.c` | a buffer, a cache, the characters put back | read, write, put back, pipe, flush | output of commands, files, JSON |
| Dynamic arrays, `core/array.c`, `sewer/qsort.c`, `sewer/blib.c` | one block of elements | insert, delete, join, copy, sort, search | everything |
| Red-black trees, `core/rbtree.c` | nodes, and an iterator with a path | insert, delete, find, walk | sets and maps of the libraries |
| Heap, `core/heap.c` | pages, the current one, counters, one mutex | malloc, free, realloc | everything, from all threads |
| Lexer and versions, strings, dates, threads, base library | their own | their own | everything |
| Other programs and libraries of the repository: `ndoc/`, `tools/nrc`, `html5`, `draw2d`, `geom2d`, `inet`, the Windows and macOS back-ends | | | nbuild starts ndoc as a command |

What makes each of them correct, and what makes it hard:

* **Scheduler.** A job is built once and by one thread; every job of a host that answers gets
  done; a job whose host does not answer is left as it was. Hard because threads share the list
  of tasks and the report, and because tasks hold addresses into an array that grows.
* **Report and Workflow.** A version has one package, complete, and all its jobs compile it; a
  job done stays done; stages of jobs run in order; each run makes some progress. Hard because a
  run may fail or be killed anywhere, what it did on the drive remains while the report it had
  in memory does not, and because the repository, the documentation and `workflow.json` change
  between (and during) runs.
* **Documentation.** What the cache says is stored is stored, and is on the site. Hard for the
  same reason.
* **Lock file.** Two processes do not share the folder; the lock does not stay. Hard because
  looking and writing are separate steps.
* **Booting.** A machine is up while it works, machines that were off are off again, machines
  found running are left so. Hard because several threads drive one Mac or one physical host.
* **Remote commands.** A command ends, its two outputs arrive whole and at its caller. Hard
  because pipes are finite, processes inherit each other's pipes, and descriptors are closed
  under a thread that reads.
* **Hosts.** The package of a job is made of this version, wholly. Hard because the folder of
  the last build is there, each of a dozen remote commands may fail or stop half-way, and some
  results are not looked at.
* **Data binding.** The report of a run is that of the next one, also when the program has
  changed, and half a file is not taken for a report. Hard because of the many shapes a value
  may have where another one is expected.
* **Heap.** Threads get disjoint blocks, and pages go back when they are empty.
* **Arrays, trees, streams, expressions.** An array is a sequence, a tree a dictionary, a stream
  a queue, an expression a set of texts, through any calls. Hard at the sizes where a block
  changes, for the mirrored cases of a rotation, when what is unread moves, and for nested
  operators.

The full list of components, with the ones not modelled, and the list of hazards with their
lines and the properties that cover them are in `PROJECT.json`.

## Modules

| Module | Models | Composition |
|---|---|---|
| `Sched` | `sched.c`, and the part of `report.c` its threads write; growth of the array of runners (`core/array.c`) | |
| `JobPool` | abstract: what `sched_start` promises | `MCSched` shows that `Sched` implements it |
| `Workflow` | `i_run` over the life of a flow, with `report.c`, `target.c`, `prdoc.c` | takes `sched_start` as one step |
| `Instances` | concurrent processes around the lock file and the temporal folder | the part of `i_run` that `Workflow` takes as alone |
| `Boot` | `nboot.c` by all threads at once | the inside of the step `Boot` of `Sched` |
| `RunBuild` | `host_run_build` and `host_run_test`, command by command | the inside of `RunStep` of `Sched` |
| `Proc` | `ssh.c` and `bproc.c`: commands of several threads | the inside of every remote command of the other modules |
| `Json` | `json.c` with the part of `dbind.c` it uses; `report.json` from run to run | the inside of `LoadReport` and of saving in `Workflow` |
| `Heap` | `heap.c` by all threads at once | below all others |
| `Regex`, `Arrays`, `Streams`, `RBTree` | the libraries of these names | below all others |
| `Powers` | powers of two | used by `Streams` and `Arrays` |
| `MCSched`, `MCWorkflow`, `MCInstances`, `MCBoot` | constants for TLC | |
| `MCParts` | constants, and one specification of nine parts | `Heap`, `Proc`, `RunBuild`, `RBTree`, `Instances`, `Json`, `Regex`, `Arrays`, `Streams` |
| `SchedProofs`, `WorkflowProofs`, `BootProofs`, `HeapProofs`, `StreamsProofs`, `ArraysProofs` | theorems and proofs | each EXTENDS its module; `SchedProofs` also `MCSched`, for its refinement mapping |
| `PartsProofs` | theorems and proofs about `Instances`, `RunBuild` and `Proc` | EXTENDS all three |
| `PowersProofs` | lemmas about powers of two and natural numbers | used by `StreamsProofs` and `ArraysProofs` |

The nine parts of `MCParts` share no state. A variable `part` chooses one of them in the initial
state; that part takes its steps and the others rest in one initial state. So one run checks all
of them, and each with the states and the steps it has alone.

A definition whose comment begins with "Mutant of" is not part of a model. It is a variant of
the named definition with a plausible mistake; the property it is meant for finds the mistake.

### Sched

The variables are the fields of the C structures: `tstate` and `trunner` are `Task.state` and
`Task.runner`, `runners`, `nallocs` and `block` the dynamic array, `report` the `RJob` record of
each task, `mpc` and `next` the place of `sched_start` and `pc`, `cur`, `phase`, `outcome` that
of the threads. A pointer to a runner is the pair of a memory block and a slot. When the array
grows the block changes, so that an older pointer is no longer equal to the address of the same
runner: this is how `i_select_task_for_runner` compares them. `AssignTask` is one turn of the
first loop, `PreparePackages` is `i_prepare_before_runners` with the result of its two copies,
`Spawn` and `JoinAll` the last two loops; `Boot` to `FinishTask` are the steps of
`i_run_runner_thread`. Sections under the mutex are one action; `EndStep` and `RecordStep` are
apart, as the two calls that write the report are. `host_run_build` and `host_run_test` are one
step with any result the code can return. `report0` and `verdict` are history.

`JobPool` has a set of jobs, each of which at most one worker may take: `Take`, `Complete`,
`Close`. A worker does one job at a time, and the pool closes when no job is running.

### Workflow

`pc` is the stage of the run, in the order of `i_run`. What is on the drive (`stored`, `saved`,
`pkg`, `docFiles`, `uploaded`) survives a run, the temporal folder `tmp` and the `lock` do too, and
`report` is the report in memory. `Commit`, `CommitDoc` and `EditWorkflow` are the world; `Start` a
new process, which chooses whether it has `-j`. `Fail` is any stage that returns FALSE and `Crash`
a kill in any stage. Loop ids matter only through the question whether an event was done in the
current loop, so that a mark is `none`, `now` or `before`, and loading a report makes `before` of
`now`. `Dest` is where each source and test goes: the report has one event for each destination
(workflow.c:610), so that the second source of one is never copied (`ToCopy`). What svn fails to
give is missing, or is an empty file, under an event that is done (ssh.c:407-423): `CopyTarget`
puts `Hole(i)` in its place. `CanStartJobs` is `report_can_start_jobs`, `SelectJobs` is
`report_select_jobs`; the result of `sched_start` is any subset of the selected jobs (all, when no
fault is left). The documentation is stored file after file, as `prdoc_generate` does, and a kill
may come between them.

Nothing on the drive is replaced in one piece. `CutTar`, `CutSite` and `CutReport` are the copies
of a package, of the site and of `report.json` that stop half-way, each in two ways
(`Interrupted`): the run sees the failure and ends as it does after any other, or it is killed. A
report that is cut is in `torn`; `LoadTorn` is the run that finds it, which dies at the NULL of
`json_read` and leaves its lock file.

### Instances

Each process has its own place `rpc`; `folder`, `lock` and `files` are shared. `CheckLock`,
`DestroyFolder`, `CreateFolder`, `SetWork`, `WriteLock` are the steps of `i_create_temp_paths`,
`Fill` and `PackFiles` the work in the folder, `ReleaseLock` the end of `i_run`. `DestroyFolder`
may fail with part of the content gone. `raced` is history: a process has started while another was
in `i_create_temp_paths`.

### Boot

`power` of a host is off, starting or on (it answers to ping). A macOS host is a volume; the
volumes of one Mac have the same `Physical` and at most one of them is on. The machine a vm stands
on is no vm itself (`BootAssumption`). `FindAlive` to `Reboot` are `i_boot_macos` and
`i_boot_from_bless` in the steps in which they talk to the Mac, `StartVm`, `CopyScript`,
`LoadScript`, `UnloadScript` the machines on a physical host, `WokeUp` and `TimedOut` the two
outcomes of `i_ping_with_timeout`, `Shutdown` is `nboot_shutdown`, called only when the host has
booted.

`loaded` is the script that launchd of each Mac has: all scripts have one label, so that a second
one is not loaded while the first is there, and unloading takes away whichever it is. Between the
two, which are two seconds apart, `Launch` starts the machine of the script whenever it is off, as
the script asks for (nboot.c:139). Loading, unloading and shutting down may fail without anybody
seeing it (`Fail`, up to `MaxFailures` on a host that answers; on one that does not they always
fail). `stuck` is history: the machines whose script stayed loaded, or that stayed up, in this way.

### RunBuild

One job in its folder on a host, from run to run of nbuild. Files stand for the version they were
made from, and what belongs to a version has two halves, so that a step can do half of its work.
`there` is which folders exist and `has` what they hold; `drive` is what arrives at the drive, and
`done` the versions that the report on the drive has as built: it learns of a build only when the
run ends (`Save`, i_save_report), and not at all when the run is killed before (`Kill`).
`StartBuild` takes the version of the last run or a later one, built already or not: `-j` builds a
version again (report.c:939), and its copy writes over the package that the report has as built.
Each action is one function of `host.c` with its outcomes: success, failure (with what was done
until then), and what the code takes for a success though it is none. The latter adds the version
to `unseen`, which is history and names the places: the exit status of `cmake --build` and of the
installation is not looked at (lines 705, 812, 847; words in the log decide for the build); when
the question whether the build folder exists is lost the answer is taken for yes, `cd` fails, and
`cmake` configures in the home of the user; and an archive of an installation that is not there
packs the home. The result of the signature replaces that of an installation the generator has no
command for (line 857), but then there is nothing to sign and the signature fails too. `ruined` is
history too: the versions built whose package a forced build has cut in its copy, until the report
says so.

### Proc

Commands are called by one thread each. `fd` is the table of descriptors of nbuild: a closed
number is given to the next pipe that is opened. `fork` copies the table, so that a new process
can write on, and keeps open, the pipes other threads have at this moment (`holders`, `heirs`);
the end of a pipe is seen when nobody can write on it. The call `read` of the reader thread of
stderr is three steps, as the number is loaded, then found in the table, then waited on, and
`bproc_eread_close` (ssh.c:144) comes before the thread is joined. `cut` is history: the
descriptor was closed while the reader was at work. Without it `OutputUnlessCut` fails: what is
left in the pipe is lost, or the reader gets what another command wrote.

### Json

A document is a sequence of tokens. `Written` is `json_write`; `ParseValue` and the operators
around it are the recursive descent of `json_read`, with the values it jumps over because the
type does not know their name, and the conversions of `dbind.c` for values of another kind.
`Create`, `SetNull` and `RemoveData` are what a new, a nulled and a removed object hold. Around
them are runs: `LoadReport`, `ChangeReport`, `SaveReport`, and `SaveIsCut`, a run that is killed
while it writes, which leaves any beginning of the file. The first file may have been written by
another version of the program, with more members or fewer.

### Heap

Each thread is in a call at a place `hpc` between the statements that matter: `Place` (choose
the page and the offset), `Put` (count the block), `Drop` (count one less), `Destroy` (the page
is empty), `Stats`. With the mutex a call is alone; without, the steps of two calls mix. A page
given back to the system and a page with its contents are told apart, so that a block in a page
that is gone is seen. The list of pages is the set `pages`, and `current_page` the one that new
blocks go to.

### RBTree, Regex

These are the algorithms as operators, on top of them one action per call, and history with what
a dictionary or an expression would hold. In `RBTree` the mirrored cases of the code are one with
a side, and a node is named by its key. `Regex` goes through the five stages of `nfa.c`;
`Denotes` is the definition the automaton is compared with.

### Arrays

`cells` is the block, with an explicit size `allocs`, in which a write behind the end is lost;
`contents` is history, the sequence that the calls should have made. A call is one step but for
two, whose loops are steps, so that what holds in their middle can be stated and proved. The sort
is `_qsort_ex` of `sewer/qsort.c`: `Median` puts a pivot in the middle of the part in hand, each
`CollapseWalls` is one turn of the loop of that name, `Split` goes on with one of the two parts
and pushes the other on `stack`, and when no part is left `LeastFirst`, one `InsertRun` for each
element and `EndSort` are the insertion sort. `sort` holds the pointers, as indices. The scans of
both sorts look at no bound: in the model they go over the whole array, and `SortStaysInside`
says where they end. `Halve` is one turn of the loop of `blib_bsearch`, and `answer` what the
last search has given.

### Streams

Two streams, each a memory, a block or a file, with their buffers. The bytes are numbered, so
that a byte lost, doubled or out of order is seen; the system may take or give fewer bytes than
it was asked for, and an error makes a stream broken. `reading` is the read that is
under way: `BeginRead` and each `Turn` are the loop of `i_read`, over what was put back, what is
in the cache and what the file still gives. `BeginPipe`, `NextPiece` and `WritePiece` are the loop
of `stm_pipe`, piece by piece. `Buffered` and `GrownBuffer` are a write to a memory: there is
room, or what is unread moves to the front, or the buffer is doubled until there is.

## Runs

| Run | Instance | Shows |
|---|---|---|
| `sched` | 3 jobs, 2 hosts | `TaskOwnership`, `TestNeedsCleanBuild`, `PendingJobUntouched`, `DoneTaskIsRecorded`, `HostNameIsSticky`, `BootedRunnersDrain`, refinement of `JobPool`, `SchedReturns` |
| `sched_nine_hosts` | 9 jobs, 9 hosts | violation of `BootedRunnersDrain` |
| `sched_package` | 2 jobs, 2 hosts | violation of `SourcePackageReady` |
| `flow` | 2 versions of both repositories, 3 sources of which 2 go to one place, 2 faults, 2 stages of jobs | `PackageHoldsWorkflow`, `PriorityOrder`, `CachedDocIsStored`, `JobsGetDone` |
| `flow_edit` | 1 version, 4 contents of `workflow.json`, 2 faults, `-j` | `PackageFrozen`, `DoneIsKept` |
| `flow_upload` | 1 version, 1 fault | violation of `DocIsUploaded` |
| `parts`: heap | 2 threads, 2 blocks, 3 pages, 3 sizes | `BlocksAreSafe`, `MemoryIsAccounted` |
| proc | 2 commands, pipes of 1 chunk | `OutputUnlessCut`, `NothingIsLeft`, `CommandsEnd` |
| build | 5 kinds of jobs, 2 versions, 3 calls | `NothingStale`, `PackageUnlessUnseen`, `MessageOfResult` |
| tree | 8 keys | `TreeIsDictionary`, `TreeIsBalanced`, `PathsFit` |
| lock | 3 processes, 2 kills | `LockHasOwner`, `AloneUnlessRaced`, `CleanUnlessRaced` |
| json | 9 reports of this version of nbuild, files of 2 others | `ReportSurvives`, `TornIsRefused` |
| regex | 70 expressions, texts of up to 4 characters | `MatchIsLanguage` |
| array | 14 contents of up to 16 elements, 2 calls | `ArrayIsSequence` |
| stream | pairs of memories, blocks and files, 3 bytes, caches of 2 | `StreamIsQueue` |
| `lock_overlap` | 3 processes, no kills | violation of `OneRunInside` |
| `boot` | 9 hosts, 5 threads, 1 failure unseen | `HostStaysUp`, `WokenVmIsOff`, `RebootIsDirect` |
| `boot_same_mac` | 1 Mac, 4 volumes, 3 threads | violation of `FoundRunningStaysUp` |
| `boot_utm` | 2 UTM machines on one Mac, no failures | violation of `NotLaunchedAgain` |
| `heap_unlocked` | as heap, without `heap_start_mt` | violation of `BlocksAreSafe` |

The runs `sched`, `flow` and `boot` check their module's `TypeOK` too, and `parts` the type
invariants of the heap, the commands, the build and the lock (`PartsTypeOK`).

Bounds, and why they are enough:

* `NTasks`, `NHosts`. Threads meet only in the list of tasks and, when two jobs share a host, in
  the order they are taken. Two hosts give two threads; three jobs make one host take two of
  them while the other works. The matches include a job two hosts can run and one no host can
  run. `JobChoices` holds a new job, a job without tests, and one forced again after a broken
  run. `MinArray` is the real 8 of `core/array.c`; the ninth host is the first for which the
  array grows.
* `Elapsed` is {0}, the case in which the code has to correct the seconds of an event.
* `MaxVers`, `MaxDocVers`. With 2, a new version arrives while the old one is unfinished.
* `MaxFaults` counts failures, kills, cut copies, commands of svn and sets of hosts that do not
  boot. Two let a fault hit the recovery of an earlier one.
* `Workflows` and `Forces`. A source, a test or a job in front is added to a first workflow; `-j`
  names one of its jobs. Three sources, two of them for one destination (`Dests`), and three jobs
  suffice for an incomplete package and for two stages, one with two jobs.
* `Run`, `MaxKills`. Three processes (interchangeable in `lock_overlap`, by symmetry): one that
  holds the lock, one that creates its paths and a third in between; two kills let a stale lock
  be left twice.
* The networks of `MCBoot` have every type of host, a Mac with one volume and one with several,
  an older volume (`Catalina`) and one without a version. Two threads drive volumes of one Mac in
  `boot`, with a virtual machine on one of them, and three in `boot_same_mac`. `HostStaysUp` is
  about the hosts on a Mac that the thread of no other volume reboots, such as the UTM machine of
  `boot`, and `WokenVmIsOff` about the virtual machines whose launch script no other one has. One
  failure (`MaxFailures`) is a load, an unload or a shutdown that nobody sees fail, of any machine:
  the others must still be off. `boot_same_mac` and `boot_utm` need none.
* Heap: a page has room for two small blocks or for a medium one; the third size needs an
  allocation of its own. A second block makes a page that is neither empty nor current;
  three pages are in use at most. One thread in a free and one in a malloc is all a race needs.
* Proc: pipes of one chunk are full at once. `make` writes two chunks of errors, so that it needs
  its reader; the other command asks, copies (and throws away more than a pipe holds) or pings.
  Four descriptors make numbers be used again.
* RunBuild: two versions for what an older build leaves behind, three calls for a build, a forced
  one of the same version that is cut or killed, and one more.
* RBTree: with eight keys every case of both repairs happens, at the root and below it. All
  trees that insertions and deletions can make are reached.
* Json: each kind of member, empty and full arrays, strings with characters that JSON drops, and
  every length of a torn file. Numbers go up to 3.
* Regex: every operator inside every other, with characters, the dot and ranges; four characters
  take a loop more than once.
* Arrays: contents of 0, 5, 9, 14 and 16 elements, to which a call adds 2 or 5: on both sides of
  8, where a block begins, and of 4, up to which the sort only inserts; two calls after them.
  Numbers have 6 bits, and sizes stay below 2^6, as the code needs (`ArrayAssumption`); above
  half of 2^32 elements `i_next_pow2` gives 0 and the next write is behind the block, which no
  array of nbuild comes near.
* Streams: three bytes through caches and pieces of two, so that a cache is full, is crossed and
  is passed by; both sizes at which a memory begins.

Deadlock is checked in every run but `parts`. A program that has ended is a stuttering action
(`Returned`, `AllEnded`) with the condition that it really has. The parts of `MCParts` do stop:
commands that have returned, and calls at their bound; that commands do not wait for each other
is the liveness property `CommandsEnd` there, and that the calls of the heap end is seen from
`MemoryIsAccounted`, which speaks of states in which no call is under way.

Fairness. `Sched!Fairness` is weak fairness of the calling thread and of each runner thread: the
operating system schedules them, and a thread only waits for the mutex, held for a few
statements, or for a remote command, of which the models assume that it ends.
`Workflow!Fairness` is weak fairness of `Start` (nbuild is run again and again) and of the
stages of a run, and strong fairness of `RemoveLock`: somebody removes a stale lock file in the
end, which the program never does itself. Strong, because that action is only possible between
two runs, and runs keep starting. No fairness is assumed of commits, edits, failures or kills,
and faults are bounded, without which nothing would ever be done. `PartsFairness` is weak fairness
of each thread that calls a command, of each reader thread and of each command: the operating
systems of both sides schedule them. A command that never ends by itself is outside of it, and
nbuild has no limit of time for one.

## What the code does otherwise than it says

Seven runs end in a counterexample, each quoted with its lines in `PROJECT.json`:

* `sched_nine_hosts`: `i_add_runner` returns an address inside a growable array; after the ninth
  runner the addresses kept by the first eight tasks are stale, their
  threads find no task, and `sched_start` returns with the jobs pending.
* `sched_package`: the result of the first copy of `i_prepare_before_runners` is lost.
* `flow_upload`: the cache of the documentation is complete before the upload; a failed upload
  is not tried again.
* `lock_overlap`: the lock is looked for and written in separate steps.
* `boot_same_mac`: two hosts on one Mac disturb each other.
* `boot_utm`: the launch script of every UTM machine is `/tmp/utm_launch.plist`. Of two machines of
  one Mac, the second copy may replace the script before the first thread loads it. The first load
  then starts the second machine; its thread may find it awake, use it and turn it off before the
  next load starts it once more, for good.
* `heap_unlocked`: nothing calls `heap_start_mt`, so that `heap_free` and `heap_realloc` never
  take the mutex that `heap_malloc` takes.

Others follow from the same models and have no run here. They were met with TLC by adding the
formula in question:

* `report.c:323` asserts that the seconds of an event are not negative. The times are those of
  the local wall clock; with a negative number in `Elapsed` the assertion fails, and
  `DoneTaskIsRecorded` with it.
* The exit status of `svn cat` and `svn list` is not looked at (ssh.c:407-423): a source that could
  not be had is an empty file or a folder without files, its event is done, and jobs start from
  that package; it stays so in every later loop of the version (`PackageHoldsWorkflow` without
  `Hole`).
* Of two sources with the same `dest` the second is never copied, without a message
  (workflow.c:610; the same property with `wf.src` for the sources of each destination).
* A run that stops in the copy of `report.json` leaves a half, which `json_read` refuses with a
  NULL: `cassert_no_null` (workflow.c:578), or `report_loop_incr` in a release, ends every later
  run of that version, each with its lock file in place (`JobsGetDone` without `torn`).
* A workflow without `build` waits forever for the event of that file: `target_build_file`
  (target.c:404) skips it and `report_can_start_jobs` (report.c:920) always asks for it
  (`JobsGetDone` without `file.build`).
* `report.c:958` asserts that a forced job has the same position in the report and in the
  workflow. After a job is put in front of the others in `workflow.json` it has not.
* `PackageHoldsWorkflow` fails when a source is added to `workflow.json` without a commit: the
  package of the version is done already and `target_tar` skips it. (So `flow` has one workflow,
  and `flow_edit` does not check this property.)
* A killed run leaves its lock file; every later run is refused with the message that another
  instance is running (`workflow.c:334`), though none is.
* `nboot_shutdown` has branches for machines whose boot timed out (`nboot.c:611`, 625, 639), and
  `sched.c:338` never calls it for them: a machine that answers late stays up.
* When `launchctl unload` fails, or the shutdown of a machine does, nobody sees it (nboot.c:196,
  sched.c:342): the machine stays up, or launchd starts it again within a second
  (`WokenVmIsOff` without `stuck`).
* A job forced again writes its package over the one the report has as built. When nbuild is killed
  in that copy, the report goes on saying so of half a package (`PackageUnlessUnseen` without
  `ruined`), until the job is forced once more.
* A virtual machine on a volume of a Mac goes down in the middle of its job when the thread of
  another volume reboots that Mac (`HostStaysUp` with `Shared` for the volumes alone).
* `i_macos_codesign` begins with `cassert(*error_msg == NULL)` (`host.c:758`) and is called also
  after the installation has set a message: a debug build stops there (`MessageOfResult` is about
  the release build).
* A command that fills the pipe of its errors while nobody reads them keeps its caller waiting
  for the end of the other pipe. `ssh_scp` closes both ends at once, but the ends that another
  command has inherited stay open: two copies that write more than a pipe holds wait for each
  other (`Harmless` excludes this).
* `ssh_command` closes the descriptor of stderr before its reader is joined (ssh.c:144): errors
  are lost, or come from another command (`cut`).
* A build whose compiler is killed, or that stops with "CMake Error", has neither of the two words
  the code looks for, and its package is stored as done (`unseen`).
* The expressions `(a*)*` and `[a*b*]`, and others with a repetition at the end of a repeated
  body or of an alternative, lose a loop or make `i_add_closure` go in circles (`Plain` excludes
  them).

Read in the code, without a model:

* `bproc_wait` gives 0, the code of success, for a command that a signal has killed
  (`bproc.c:222`).
* A pattern with a `-` that is not escaped, such as `mac-arm`, is taken for a range and may be
  refused; `report.c:941`, `target.c:130` and `workflow.c:447` use the NULL that
  `regex_create` then returns. An empty pattern is refused too.
* Nobody asks `stm_state` after writing: `ssh_to_file` and `hfile_copy` return TRUE for a file
  that a full disk has cut short, and `hfile_copy` takes 32 bits of the size of a file
  (`hfile.c:494`). `stm_pipe` passes what its buffer held before when its source breaks (in
  `Streams`: `Garbage`).
* A byte that is put back when the end of a stream has been seen is not read again.
* A value of another shape as the first element of an array ends the reading of that array
  (`i_parse_json_array`), and one in place of a string leaves it NULL; numbers in JSON go past
  the ranges registered with dbind.
* `blib_strtol`, `blib_strtoul` and `blib_strtod` look at `errno` without having set it to 0, so
  that an earlier ERANGE makes every later number an error.
* `i_nested_member` (`dbind.c:1755`) does not end for types that contain each other in a circle.
* In `lex.c` the escapes `\u` and `\x` are misread, an octal escape takes the character behind
  it, and a last comment without an end of line gives no token; a version without a patch number
  is read as 0.0.0, the version of a `cmake` that has failed.

## Proofs

All theorems hold for every value of the constants that satisfies the ASSUME of the module (any
number of jobs, hosts, processes, versions, kills, commands, threads, any network, any set of
workflows), and of which the table says more where a theorem has a hypothesis of its own. The
assumptions are evaluated by TLC in each run. The proofs take one step per action, and the last
step of each is PTL.

| Theorem | Property | Argument |
|---|---|---|
| `SchedProofs!TypeCorrect` | `TypeOK` | part of `IInv` |
| `SchedProofs!OwnershipHolds` | `TaskOwnership` | `IInv` and `HeldInv` |
| `SchedProofs!PendingHolds` | `PendingJobUntouched` | only the holder of a task writes its record, and a held task is not pending |
| `SchedProofs!TestNeedsCleanBuildHolds` | `TestNeedsCleanBuild` | `EntryInv` and `BuildInv` |
| `SchedProofs!SchedImplementsJobPool` | `ImplementsJobPool` | `PoolInv`, `EndedInv`; one lemma per kind of step |
| `SchedProofs!HostNameIsStickyHolds` | `HostNameIsSticky` | `PoolInv` and `NameInv` |
| `SchedProofs!DoneTaskIsRecordedHolds` | `DoneTaskIsRecorded`, if times do not go back (`Elapsed \subseteq Nat`) | `RecordInv` |
| `SchedProofs!BootedRunnersDrainHolds` | `Len(runners) <= MinArray => BootedRunnersDrain` | `PoolInv`: no address is stale |
| `WorkflowProofs!TypeCorrect` | `TypeOK` | inductive by itself |
| `WorkflowProofs!PackageFrozenHolds` | `PackageFrozen` | `FrozenInv` |
| `WorkflowProofs!DoneIsKeptHolds` | `DoneIsKept` | `DoneInv` |
| `WorkflowProofs!CachedDocHolds` | `CachedDocIsStored` | the order in which `prdoc_generate` stores its files |
| `WorkflowProofs!PackageHoldsWorkflowHolds` | `PackageHoldsWorkflow`, if edits leave the sources and `build` as they are (`SameSources`) | `PackInv` and `FrozenInv` |
| `WorkflowProofs!PriorityOrderHolds` | `PriorityOrder`, if edits leave the set of jobs, and without `-j` | `StageInv` |
| `PartsProofs!LockTypeCorrect` | `LockTypeOK` | inductive by itself |
| `PartsProofs!LockHasOwnerHolds` | `LockHasOwner` | inductive with `LockTypeOK` |
| `PartsProofs!AloneHolds` | `AloneUnlessRaced` | `~raced => SerialInv` |
| `PartsProofs!CleanHolds` | `CleanUnlessRaced` | `ApartInv`: the same, with what has been packed |
| `BootProofs!TypeCorrect` | `TypeOK` | with `LoadIsUtm`: launchd is asked for UTM machines only |
| `BootProofs!RebootIsDirectHolds` | `RebootIsDirect` | `RebootInv` |
| `BootProofs!HostStaysUpHolds` | `HostStaysUp` | `RebootInv` and `ThreadInv` |
| `BootProofs!WokenVmIsOffHolds` | `WokenVmIsOff` | `ThreadInv` and `ScriptInv` |
| `PartsProofs!BuildTypeCorrect` | `BuildTypeOK` | inductive by itself |
| `PartsProofs!NothingStaleHolds` | `NothingStale` | `BuildInv` |
| `PartsProofs!PackageUnlessUnseenHolds` | `PackageUnlessUnseen` | `BuildInv` |
| `PartsProofs!MessageOfResultHolds` | `MessageOfResult` | the result and the message of each step |
| `HeapProofs!TypeCorrect` | `HeapTypeOK` | with `MtInv`, and without a hypothesis |
| `HeapProofs!BlocksAreSafeHolds` | `BlocksAreSafe`, with `heap_start_mt` or with one thread | `HeapInv` |
| `HeapProofs!MemoryIsAccountedHolds` | `MemoryIsAccounted`, with `heap_start_mt` or with one thread | `HeapInv` |
| `PartsProofs!CommandsKnown` | `ProcTypeOK` | with `ProcInv` |
| `PartsProofs!NothingIsLeftHolds` | `NothingIsLeft` | `ReaderInv` and `FdInv` |
| `PartsProofs!OutputUnlessCutHolds` | `OutputUnlessCut` | `OutputInv` |
| `StreamsProofs!StreamsAreQueues` | `StreamIsQueue` | `StreamsInv` |
| `ArraysProofs!ArraysAreSequences` | `ArrayIsSequence` | `ArrayInv` |

* **Sched.** `TaskOwnership` is not inductive: that no second thread takes a task depends on a
  running task being the current task of a thread. `ThreadsInv` says when threads run and have
  runners, `HoldsInv` that the current task of a thread is running and is assigned to that
  runner, `HeldInv` the converse. Since a runner has one thread, two threads never hold the same
  task. `TestNeedsCleanBuild` needs that selected jobs enter with a build that is not done
  (`EntryInv`, from what `report_select_jobs` selects), so that a done build seen by
  `report_job_can_test` was run in this call, and that the record of the job agrees with the
  verdict between the two steps (`BuildInv`).
* **Sched as a pool.** `PoolInv` relates tasks and runners: there is one runner per host and each
  task is given that of a host it may run on (`RunnersInv`), every task that has such a host is
  given one before a thread starts (`AssignedInv`), and until the array has grown each address is
  that of its runner (`StillInv`). From the first two come the steps of `JobPool`: `SelectTask`
  is `Take`, `FinishTask` is `Complete`, the return of `sched_start` is `Close`, and everything
  else, the growth of the array included, is no step of the pool. `BootedRunnersDrain` needs the
  third and is false without it (`sched_nine_hosts`): eight hosts is the exact condition.
  `HostNameIsSticky` needs that a job that has a name is given to the host of this name.
  `RecordInv` follows the record of the task in hand through the steps of its thread, in the
  middle of which the record is open; `DoneTaskIsRecorded` speaks of the end.
* **Workflow.** A version's package changes only in `Tar`, which happens only when the report in
  memory does not say that it is packed. `FrozenInv` connects memory and drive: jobs are started
  only for a version whose saved report says packed (`CompiledIsSaved`), a report in memory of that
  version keeps saying so (`PackedIsKept`), and a mark "before" comes from a saved report
  (`BeforeIsSaved`), which is what the wait for an earlier loop in `report_can_start_jobs` is for.
  `DoneInv` says that the report in memory holds every job done that the saved one does, but for
  forced ones. `DoneIsKept` lets a report be lost in one way only, the copy that is cut (`torn`),
  and what is left then is refused, not taken for a report that knows less. Two properties need a
  hypothesis about `workflow.json`, without which they are false. `PackInv` says that a run that
  gets as far as the save has packed, that a packed version has every source, or the hole svn has
  left of it, and that until then what the report calls copied is in the folder of this run (a
  report on the drive is always that of a run that packed, so that a report that is not packed has
  no marks of earlier runs, whose folder is gone); an edit that adds a source without a commit
  breaks it. A copy of the package that was cut is not packed by any report. `StageInv` says that a
  report knows none of the jobs or all of them, and that a job is done only when those of smaller
  priority are; a job that an edit puts in front, or that `-j` takes out of its turn, breaks it.
* **Instances.** `SerialInv`: one process at a time creates its paths; past the check no process
  holds the lock; a process in the folder holds it and is alone; files in the folder are its own.
  All of it is lost in the first race, hence `~raced`.
* **Boot.** Another thread may bless or reboot the Mac between the check of a volume and the
  reboot, so the check itself is not enough. `RebootInv` has what survives: at most one volume of
  a Mac is not off (`OneVolume`), and the volume blessed can be reached from whichever volume is
  on (`BlessedIsDirect`). `ThreadInv` and `ScriptInv` say who can turn a host off or on: its own
  thread, a thread that reboots its Mac, a thread that loads the script of its physical host, and
  launchd, as long as the script is loaded. A script that is still loaded when the thread of its
  machine is past the unload is of a machine in `stuck`, or of one that shares its script.
  The attempt to prove `HostStaysUp` and `WokenVmIsOff` showed that their first forms left two of
  these out (a vm on a volume of a shared Mac; two UTM machines of one host): they were false, on
  networks no run had. The network of `boot` now has a vm on a shared Mac.
* **RunBuild.** `FreshInv`: once the folders are emptied they hold files of the version in work,
  or of none. `FolderInv` says what the steps before the installation find there, `SeenInv` that
  each step hands on a whole version when no failure has gone unseen, and `CallInv` that no step
  but the signature begins after a failure. The version in work may be one the report has as built.
  So what is whole is said of the copy: `CopiedInv`, that a build which has ended well has put the
  package back in order before the report is saved; a copy that failed makes the version `ruined`
  until then. Only the copy writes packages, and only `Save` the report (`OnlyTheCopyWrites`).
* **Heap.** `AloneInv`: a thread in a call holds the mutex, or is the only thread. It makes the
  rest of `HeapInv` possible: what a call knows of its block and page between its statements
  (`CallsKnown`), that blocks lie below the offset of their page and apart (`BlockInv`), that a
  page counts its blocks and the one that is just taken off, so that an empty page is current and
  fresh or about to be destroyed (`PageInv`), and that `bytes_allocated` is the size of all
  blocks but for what the call has still to add (`BytesInv`). The counts rest on lemmas about the
  cardinality of unions (`WordsCount`, `LivePages`). Nothing calls `heap_start_mt`: for several
  threads the theorems are about the heap as it is meant to be used, and `heap_unlocked` shows
  what happens otherwise; for one thread they are about the program as it is.
* **Proc.** `FdInv`: descriptors in use by different calls are different numbers, although
  numbers are used again; for this `pipe` has to find two free ones (`TwoFree`, a pigeonhole
  argument from the assumption on `Fd`). `ReaderInv` says which steps of a call have a reader
  thread, and with what number; `HolderInv` which processes can write on a pipe; `OutputInv` that
  without `cut` a stream and what is in its pipe are together what the command wrote there.

* **Streams.** `StreamsOK`: the bytes that went into a stream are those that came out followed by
  those that are left, in what was put back, the cache, the buffer or the file, unless it is
  broken; and the offsets of a buffer are in order and below its size. `ReadingOK` is the same in
  the middle of a read, for which what the read has so far counts as left; `PipeOK` says that a
  pipe has passed whole pieces and never more than was left. Most of the lemmas are about the
  buffer: what a move to the front and a write keep of the unread bytes, and that doubling it
  reaches any size (`DoublingsReach`).
* **Arrays.** A block is large enough and at most twice too large, and its bytes do not overflow
  (`BlockInv`, from what `i_next_pow2` gives: `NeededIs`). Outside of a sort the block begins with
  the sequence; in a sort it holds the same elements in some order (`Arranged`, by a bijection of
  the indices, of which every exchange gives another). From this and the order at the end follows
  that the result is `Ordered`. `PartsInv` has the argument of the comment in `qsort.c` that the
  stack is large enough: the part at depth `d` is at most the `2^d`-th of the array, because the
  larger of two is pushed; with fewer than `2^32` elements there are never more than 32. It also
  has the argument for which the insertion sort needs no bound: the least elements, up to some
  index, are the first part that is left (`Front`), and when none is left they are among those up
  to the threshold, of which `LeastFirst` takes the least. `WallsInv` has on both sides of the
  walls an element at which the scan of that side ends: the first and last of the part, which
  `Median` has put there, then those that were exchanged. `SearchInv`: the key is between the two
  ends.

The two libraries needed induction. The provers cannot use the induction theorems of the library,
whose parameter is an operator, so `PowersProofs` has induction for sets of numbers: a nonempty
set has a least element (`LeastNat`, from the well-foundedness of `<` as a relation), and a set
that has each number of which it has all smaller ones has every number (`EachNat`). The values of
the recursive functions `TwoTo` and `Doublings` follow from it. A loop needs none: its turns are
steps, and the invariant is the hypothesis.

Only model-checked:

* The liveness properties (`SchedReturns`, `JobsGetDone`, `CommandsEnd`): fairness and ENABLED are
  beyond the prover.
* What `RBTree`, `Json` and `Regex` compute (`TreeIsDictionary`, `TreeIsBalanced`, `PathsFit`,
  `ReportSurvives`, `TornIsRefused`, `MatchIsLanguage`): recursive descents, walks and automata
  over trees and texts, written as RECURSIVE operators, for which there is no invariant of steps
  to prove.
* `PartsTypeOK`, the conjunction of four type invariants, each of which is a theorem about its own
  part. `MCParts` itself reaches the RECURSIVE operators of the libraries, with which the prover
  does not work.

## What is not modelled

* ndoc, nrc, HTML, the graphics and geometry libraries, and the back-ends for Windows and macOS:
  other programs, or code that the master does not run. They are most of the lines of the
  repository (`nbuild`, `nlib`, `core`, `encode`, `sewer` and the Unix part of `osbs` are about a
  third of them), and hardly have state: they translate text, draw, or compute with real
  numbers. The models cover the part whose steps can be put in order and go wrong.
* `dbind.c` beyond what a report needs: reflection for graphical programs, numbers with signs
  and fractions, enums, ranges, binary objects.
* Sockets, encodings other than UTF-8, byte orders and lines in `stream.c`; the lexer, strings,
  dates, hashes and resources of `core`: sequential helpers.
* The web report and the log: pages written and never read again. The ebooks of the
  documentation, whose failure is only counted.
* Options of the command line, except `-j`. What happens to one file when sources are copied
  (ignore patterns, formatting, the legal header).
* The texts of commands and logs, environments, and the options of cmake.
* An operator who removes a report that was cut; only then does that version go on. Half a log of
  ndoc counts as a log. The pipes and the process of a command (`bproc_exec`) can be had, and a
  connection that is lost while the report is read is a failure or a kill in `load`.
* Two threads that write the file `temp_file` of the master at once (ssh.c:691): nothing keeps
  them apart, so that there is no property to check.

## Plan

Done: `Sched` and `JobPool`, `Workflow`, `Instances`, `Boot`, and proofs about them; then what
they stand on: `RunBuild`, `Proc`, `Json`, `Heap`, and the libraries `RBTree`, `Regex`, `Arrays`
and `Streams`. The order was the importance of the behaviour: the threads, the memory of the
flow, processes side by side, the machines; the inside of their steps; the libraries.

Proved as well: the safety of `RunBuild`, `Heap` and `Proc`, the refinement of `JobPool`, the
other safety properties of `Sched`, `Workflow`, `Instances` and `Boot`, and the libraries
`Streams` and `Arrays`.

Left to TLC, and what could be proved next:

1. `PriorityOrder` with `-j`, for the jobs that were never forced; `PackageHoldsWorkflow` with
   edits, for the versions committed after the last one.
2. `RBTree` with the turns of its loops as steps, as in `Arrays`: the descent with the bounds of
   the keys below a node, and one lack of a black node that each turn of the repair moves up.
3. `TornIsRefused`, with the reader of `Json` as a stack of open values, and `MatchIsLanguage`,
   whose induction is over the expression.
