--------------------------------- MODULE Boot ---------------------------------
(***************************************************************************)
(* How the runner threads turn the machines of the network on and off:     *)
(* src/nbuild/nboot.c, as called by i_run_runner_thread of sched.c.  Each  *)
(* thread boots its own host, runs its jobs there and may shut it down.    *)
(*                                                                         *)
(* A virtual machine (vbox, utm, vmware) needs its physical host.  The     *)
(* macos hosts that share a Mac are volumes of one machine, of which one   *)
(* runs at a time: another one is reached by blessing it and rebooting.    *)
(***************************************************************************)
EXTENDS Integers

CONSTANTS
    NHosts,       \* the hosts of the network, in the order of the list
    Runner,       \* the hosts that have a runner thread
    Type,         \* host->type: metal, vm (vbox or vmware), utm or macos
    Physical,     \* the host of a vm; for a macos volume, a number for its Mac
    Catalina,     \* the macos volumes with Catalina or lower
    Unversioned,  \* the macos volumes without a known version
    MaxFailures   \* bound: commands that fail though the host answers, unseen

Host   == 1..NHosts
NoHost == 0
IsVm(h) == Type[h] \in {"vm", "utm"}
Mac    == {Physical[h] : h \in {g \in Host : Type[g] = "macos"}}
Volumes(m) == {h \in Host : Type[h] = "macos" /\ Physical[h] = m}

ASSUME BootAssumption ==
    /\ NHosts \in Nat \ {0}
    /\ Runner \subseteq Host
    /\ Type \in [Host -> {"metal", "vm", "utm", "macos"}]
    /\ Physical \in [Host -> Nat]
    /\ \A h \in Host : IsVm(h) => Physical[h] \in Host /\ ~IsVm(Physical[h])
    /\ Catalina \subseteq Host /\ Unversioned \subseteq Host
    /\ MaxFailures \in Nat

VARIABLES
    power,      \* off, starting or on (it answers to ping)
    blessed,    \* the volume each Mac boots next, or NoHost
    script,     \* the vm that /tmp/utm_launch.plist of each host names, or NoHost
    loaded,     \* the vm whose launch script launchd runs on each host, or NoHost
    pc,         \* the thread of each host
    from,       \* the volume a thread has found alive on its Mac
    state,      \* runner->state
    failures,   \* commands that may still fail
    stuck       \* history: the vms whose unload or shutdown failed and nobody saw it

launchd == <<loaded, failures, stuck>>
vars == <<power, blessed, script, launchd, pc, from, state>>

On(h) == power[h] = "on"

\* A vm runs on a running host, and a Mac runs one volume.
PowerOK ==
    /\ \A h \in Host : (IsVm(h) /\ power[h] # "off") => On(Physical[h])
    /\ \A m \in Mac, g, h \in Host :
          (g \in Volumes(m) /\ h \in Volumes(m) /\ power[g] # "off" /\ power[h] # "off")
              => g = h

Init ==
    /\ power \in [Host -> {"off", "on"}]
    /\ PowerOK
    /\ blessed = [m \in Mac |-> NoHost]
    /\ script = [h \in Host |-> NoHost]
    /\ loaded = [h \in Host |-> NoHost]
    /\ failures = MaxFailures
    /\ stuck = {}
    /\ pc = [h \in Host |-> IF h \in Runner THEN "boot" ELSE "end"]
    /\ from = [h \in Host |-> NoHost]
    /\ state = [h \in Host |-> "NOT_INIT"]

-----------------------------------------------------------------------------
Goto(h, here, to) == pc[h] = here /\ pc' = [pc EXCEPT ![h] = to]
Result(h, s)      == state' = [state EXCEPT ![h] = s]

\* nboot_boot: the host answers already.
AlreadyRunning(h) ==
    /\ On(h)
    /\ Goto(h, "boot", "run")
    /\ Result(h, "ALREADY_RUNNING")
    /\ UNCHANGED <<power, blessed, script, launchd, from>>

\* i_boot_metal: a physical machine cannot be turned on.
BootMetal(h) ==
    /\ ~On(h) /\ Type[h] = "metal"
    /\ Goto(h, "boot", "end")
    /\ Result(h, "UNREACHABLE")
    /\ UNCHANGED <<power, blessed, script, launchd, from>>

\* i_boot_vbox, i_boot_vmware: the start command needs the physical host, and
\* can fail on it.
StartVm(h) ==
    /\ ~On(h) /\ Type[h] = "vm"
    /\ On(Physical[h])
    /\ Goto(h, "boot", "wait")
    /\ power' = [power EXCEPT ![h] = "starting"]
    /\ UNCHANGED <<blessed, script, launchd, from, state>>

\* i_boot_utm: the script that starts the vm has the same name for every vm, and
\* is loaded with a command of its own.
CopyScript(h) ==
    /\ ~On(h) /\ Type[h] = "utm"
    /\ On(Physical[h])
    /\ Goto(h, "boot", "load")
    /\ script' = [script EXCEPT ![Physical[h]] = h]
    /\ UNCHANGED <<power, blessed, launchd, from, state>>

\* A command that fails on a host that answers: nobody looks at its result.
Fail == failures > 0 /\ failures' = failures - 1

\* launchctl load, which fails when a script is loaded already: they all have the
\* same label.  The job is run at load.
LoadScript(h) ==
    /\ Goto(h, "load", "unload")
    /\ LET p == Physical[h]
       IN  \/ /\ On(p) /\ loaded[p] = NoHost
              /\ loaded' = [loaded EXCEPT ![p] = script[p]]
              /\ power' = IF power[script[p]] = "off"
                          THEN [power EXCEPT ![script[p]] = "starting"]
                          ELSE power
              /\ UNCHANGED failures
           \/ /\ IF On(p) /\ loaded[p] = NoHost THEN Fail ELSE UNCHANGED failures
              /\ UNCHANGED <<power, loaded>>
    /\ UNCHANGED <<blessed, script, from, state, stuck>>

\* launchctl unload, two seconds later: it goes by the label too.
UnloadScript(h) ==
    /\ Goto(h, "unload", "wait")
    /\ LET p == Physical[h]
       IN  \/ /\ On(p)
              /\ loaded' = [loaded EXCEPT ![p] = NoHost]
              /\ UNCHANGED <<failures, stuck>>
           \/ /\ IF On(p) THEN Fail ELSE UNCHANGED failures
              /\ stuck' = stuck \cup ({loaded[p]} \ {NoHost})
              /\ UNCHANGED loaded
    /\ UNCHANGED <<power, blessed, script, from, state>>

\* launchd, every second: a loaded script starts its vm whenever it is off.
Launch(p) ==
    /\ On(p) /\ loaded[p] # NoHost
    /\ power[loaded[p]] = "off"
    /\ power' = [power EXCEPT ![loaded[p]] = "starting"]
    /\ UNCHANGED <<blessed, script, launchd, pc, from, state>>

VmNotStarted(h) ==
    /\ ~On(h) /\ IsVm(h)
    /\ Goto(h, "boot", "end")
    /\ Result(h, IF On(Physical[h]) THEN "HOST_SSH" ELSE "HOST_DOWN")
    /\ UNCHANGED <<power, blessed, script, launchd, from>>

\* Mutant of Alive: the volumes of every Mac are asked.
AliveAnywhere(m) == {h \in Host : Type[h] = "macos" /\ On(h)}

\* host_macos_alive: the first volume of the Mac that answers.
Alive(m) == {h \in Volumes(m) : On(h)}

CanBootDirect(g, h) == g \notin Catalina \/ h \in Catalina

\* Mutant of FindAlive: any volume may boot any other one.
FindAnyAlive(h) ==
    /\ ~On(h) /\ Type[h] = "macos"
    /\ \E g \in Alive(Physical[h]) :
          /\ \A f \in Alive(Physical[h]) : g <= f
          /\ from' = [from EXCEPT ![h] = g]
    /\ Goto(h, "boot", "bless")
    /\ UNCHANGED <<power, blessed, script, launchd, state>>

\* Mutant of FindAlive: the loop has moved past the volume that answered.
FindAfterAlive(h) ==
    /\ ~On(h) /\ Type[h] = "macos"
    /\ \E g \in Alive(Physical[h]) : from' = [from EXCEPT ![h] = g + 1]
    /\ Goto(h, "boot", "bless")
    /\ UNCHANGED <<power, blessed, script, launchd, state>>

\* i_boot_macos, when the volume that runs can boot this one.
FindAlive(h) ==
    /\ ~On(h) /\ Type[h] = "macos"
    /\ \E g \in Alive(Physical[h]) :
          /\ \A f \in Alive(Physical[h]) : g <= f
          /\ {g, h} \cap Unversioned = {}
          /\ CanBootDirect(g, h)
          /\ from' = [from EXCEPT ![h] = g]
    /\ Goto(h, "boot", "bless")
    /\ UNCHANGED <<power, blessed, script, launchd, state>>

NotBootable(h) ==
    /\ ~On(h) /\ Type[h] = "macos"
    /\ \/ Alive(Physical[h]) = {} /\ Result(h, "UNREACHABLE")
       \/ \E g \in Alive(Physical[h]) :
             /\ \A f \in Alive(Physical[h]) : g <= f
             /\ \/ {g, h} \cap Unversioned # {} /\ Result(h, "MACOS_UNKNOWN_VERSION")
                \/ /\ {g, h} \cap Unversioned = {}
                   /\ ~CanBootDirect(g, h)
                   /\ Result(h, "MACOS_NOT_BOOTABLE")
    /\ Goto(h, "boot", "end")
    /\ UNCHANGED <<power, blessed, script, launchd, from>>

\* i_boot_from_bless: disk, mount and bless run on the volume found alive, if
\* it still is.
Bless(h) ==
    /\ Goto(h, "bless", "reboot")
    /\ On(from[h])
    /\ blessed' = [blessed EXCEPT ![Physical[h]] = h]
    /\ UNCHANGED <<power, script, launchd, from, state>>

BlessFails(h) ==
    /\ Goto(h, "bless", "end")
    /\ Result(h, "MACOS_CANT_BOOT_FROM_VOLUME")
    /\ UNCHANGED <<power, blessed, script, launchd, from>>

\* ssh_reboot, whose result nobody looks at.  The Mac goes down with all the
\* virtual machines on it and what launchd has loaded, and comes back with the
\* blessed volume.
Reboot(h) ==
    /\ Goto(h, "reboot", "wait")
    /\ LET m == Physical[h]
           g == from[h]
           up == IF blessed[m] = NoHost THEN g ELSE blessed[m]
       IN  IF On(g)
           THEN /\ power' = [k \in Host |->
                        IF k = up THEN "starting"
                        ELSE IF k = g \/ (IsVm(k) /\ Physical[k] = g) THEN "off"
                        ELSE power[k]]
                /\ blessed' = [blessed EXCEPT ![m] = NoHost]
                /\ loaded' = [loaded EXCEPT ![g] = NoHost]
           ELSE UNCHANGED <<power, blessed, loaded>>
    /\ UNCHANGED <<script, from, state, failures, stuck>>

\* i_ping_with_timeout, in its two outcomes.
WokeUp(h) ==
    /\ On(h)
    /\ Goto(h, "wait", "run")
    /\ Result(h, "WAKE_UP")
    /\ UNCHANGED <<power, blessed, script, launchd, from>>

TimedOut(h) ==
    /\ ~On(h)
    /\ Goto(h, "wait", "end")
    /\ Result(h, "TIMEOUT")
    /\ UNCHANGED <<power, blessed, script, launchd, from>>

\* The jobs of the runner are done.
JobsDone(h) ==
    /\ Goto(h, "run", "shutdown")
    /\ UNCHANGED <<power, blessed, script, launchd, from, state>>

\* ssh_shutdown, on the vm itself.  When it fails the thread ends all the same.
TurnOff(h) ==
    \/ /\ On(h)
       /\ power' = [power EXCEPT ![h] = "off"]
       /\ UNCHANGED <<failures, stuck>>
    \/ /\ IF On(h) THEN Fail ELSE UNCHANGED failures
       /\ stuck' = IF power[h] = "off" THEN stuck ELSE stuck \cup {h}
       /\ UNCHANGED power

\* Mutant of Shutdown: only a machine that has not answered is turned off.
ShutdownTimedOut(h) ==
    /\ Goto(h, "shutdown", "end")
    /\ IF IsVm(h) /\ state[h] = "TIMEOUT" THEN TurnOff(h) ELSE UNCHANGED <<power, failures, stuck>>
    /\ UNCHANGED <<blessed, script, loaded, from, state>>

\* nboot_shutdown, reached only by a thread whose host has booted.
Shutdown(h) ==
    /\ Goto(h, "shutdown", "end")
    /\ IF IsVm(h) /\ state[h] \in {"WAKE_UP", "TIMEOUT"}
       THEN TurnOff(h)
       ELSE UNCHANGED <<power, failures, stuck>>
    /\ UNCHANGED <<blessed, script, loaded, from, state>>

\* A machine that was started answers at last.
PowerUp(h) ==
    /\ power[h] = "starting"
    /\ power' = [power EXCEPT ![h] = "on"]
    /\ UNCHANGED <<blessed, script, launchd, pc, from, state>>

-----------------------------------------------------------------------------
Thread(h) ==
    \/ AlreadyRunning(h) \/ BootMetal(h) \/ StartVm(h) \/ CopyScript(h) \/ LoadScript(h)
    \/ UnloadScript(h) \/ VmNotStarted(h)
    \/ FindAlive(h) \/ NotBootable(h) \/ Bless(h) \/ BlessFails(h) \/ Reboot(h)
    \/ WokeUp(h) \/ TimedOut(h) \/ JobsDone(h) \/ Shutdown(h)

AllEnded ==
    /\ \A h \in Host : pc[h] = "end" /\ power[h] # "starting"
    /\ UNCHANGED vars

Next == (\E h \in Host : Thread(h) \/ PowerUp(h) \/ Launch(h)) \/ AllEnded

Spec == Init /\ [][Next]_vars

-----------------------------------------------------------------------------
RunState == {"NOT_INIT", "ALREADY_RUNNING", "UNREACHABLE", "HOST_SSH", "HOST_DOWN",
             "MACOS_UNKNOWN_VERSION", "MACOS_NOT_BOOTABLE",
             "MACOS_CANT_BOOT_FROM_VOLUME", "WAKE_UP", "TIMEOUT"}

\* The type invariant of the network.
TypeOK ==
    /\ power \in [Host -> {"off", "starting", "on"}]
    /\ blessed \in [Mac -> Host \cup {NoHost}]
    /\ pc \in [Host -> {"boot", "load", "unload", "bless", "reboot", "wait", "run", "shutdown", "end"}]
    /\ script \in [Host -> Host \cup {NoHost}]
    /\ loaded \in [Host -> Host \cup {NoHost}]
    /\ failures \in 0..MaxFailures
    /\ stuck \subseteq Host
    /\ from \in [Host -> Host \cup {NoHost}]
    /\ state \in [Host -> RunState]

\* nboot.c:601 "If host was running before 'nboot' we don't shutdown the host":
\* a host found running stays up for as long as its thread lives and after.
FoundRunningStaysUp ==
    \A h \in Host : state[h] = "ALREADY_RUNNING" => On(h)

\* The machine a host runs on, and whether it is a Mac that other threads boot.
Machine(h) == IF IsVm(h) THEN Physical[h] ELSE h
Shared(h) ==
    /\ Type[Machine(h)] = "macos"
    /\ \E g \in Runner \ {Machine(h)} : g \in Volumes(Physical[Machine(h)])

\* The host of a runner is up while its jobs are executed, and one found running
\* stays up after that too, whatever the threads of the other hosts boot, reboot
\* or shut down; unless it is, or stands on, a volume of a Mac of which another
\* volume has a runner (nboot.c:476 reboots the Mac below it).
HostStaysUp ==
    \A h \in Host : (pc[h] = "run" \/ state[h] = "ALREADY_RUNNING") => Shared(h) \/ On(h)

\* Two threads that boot UTM machines of one host overwrite each other's script.
SharesScript(h) ==
    /\ Type[h] = "utm"
    /\ \E g \in Runner \ {h} : Type[g] = "utm" /\ Physical[g] = Physical[h]

\* nboot.c:611 "If VBox was booting by nboot, we shutdown it": when its thread has
\* ended, a virtual machine that it has woken up is off, and nobody starts it
\* again: no other thread, and no script left with launchd.  Unless the shutdown or
\* the unload failed, which nobody sees, or the script of another UTM machine could
\* be read in its place.
WokenVmIsOff ==
    \A h \in Host :
        (pc[h] = "end" /\ IsVm(h) /\ state[h] = "WAKE_UP")
            => h \in stuck \/ SharesScript(h) \/ power[h] = "off"

\* nboot.c:188 "instantly unload the script to prevent the same machine from being
\* launched again", of every machine whose commands have worked.
NotLaunchedAgain ==
    \A h \in Host :
        (pc[h] = "end" /\ IsVm(h) /\ state[h] = "WAKE_UP") => h \in stuck \/ power[h] = "off"

\* A thread never boots a volume its macOS version cannot reach: the check of
\* i_macos_can_boot_direct still holds when the Mac reboots, however many
\* threads have been at work on it since.
RebootIsDirect ==
    \A h \in Host :
        (pc[h] = "reboot" /\ On(from[h]) /\ blessed[Physical[h]] # NoHost)
            => CanBootDirect(from[h], blessed[Physical[h]])
==============================================================================
