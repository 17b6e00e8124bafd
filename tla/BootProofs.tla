------------------------------ MODULE BootProofs ------------------------------
(***************************************************************************)
(* Proofs about Boot for any network: any number of hosts of any type, of  *)
(* volumes on a Mac and of runner threads.                                 *)
(***************************************************************************)
EXTENDS Boot, TLAPS

-----------------------------------------------------------------------------
\* launchd is asked for UTM machines only.
LoadIsUtm == \A h \in Host : pc[h] \in {"load", "unload"} => Type[h] = "utm" /\ Physical[h] \in Host

LEMMA TypeAndLoad == Spec => [](TypeOK /\ LoadIsUtm)
  <1>1. Init => TypeOK /\ LoadIsUtm
    BY BootAssumption DEF Init, TypeOK, Mac, RunState, NoHost, LoadIsUtm
  <1>2. TypeOK /\ LoadIsUtm /\ [Next]_vars => LoadIsUtm'
    <2> SUFFICES ASSUME TypeOK, LoadIsUtm, [Next]_vars PROVE LoadIsUtm'
      OBVIOUS
    <2> USE DEF Goto, LoadIsUtm
    <2>0. pc \in [Host -> {"boot", "load", "unload", "bless", "reboot", "wait", "run", "shutdown", "end"}]
      BY DEF TypeOK
    <2>1. ASSUME NEW h \in Host, CopyScript(h) \/ LoadScript(h) PROVE LoadIsUtm'
      <3>1. /\ Type[h] = "utm" /\ Physical[h] \in Host
            /\ \E to \in {"load", "unload"} : pc' = [pc EXCEPT ![h] = to]
        BY <2>0, <2>1, BootAssumption DEF CopyScript, LoadScript, IsVm
      <3> QED
        BY <2>0, <3>1
    <2>2. ASSUME NEW h \in Host, Thread(h) PROVE LoadIsUtm'
      <3>1. CASE CopyScript(h) \/ LoadScript(h)
        BY <2>1, <3>1
      <3>2. CASE ~(CopyScript(h) \/ LoadScript(h))
        <4>1. \E to \in {"wait", "bless", "reboot", "run", "shutdown", "end"} : pc' = [pc EXCEPT ![h] = to]
          BY <2>2, <3>2 DEF Thread, AlreadyRunning, BootMetal, StartVm, UnloadScript, VmNotStarted,
                            FindAlive, NotBootable, Bless, BlessFails, Reboot, WokeUp, TimedOut,
                            JobsDone, Shutdown
        <4> QED
          BY <2>0, <4>1
      <3> QED
        BY <3>1, <3>2
    <2>3. CASE pc' = pc
      BY <2>3
    <2> QED
      BY <2>2, <2>3 DEF Next, PowerUp, Launch, AllEnded, vars
  <1>3. TypeOK /\ LoadIsUtm /\ [Next]_vars => TypeOK'
    <2> SUFFICES ASSUME TypeOK, LoadIsUtm, [Next]_vars PROVE TypeOK'
      OBVIOUS
    <2> USE BootAssumption DEF TypeOK, Goto, Result, RunState, launchd
    <2>1. ASSUME NEW h \in Host, AlreadyRunning(h) \/ BootMetal(h) \/ VmNotStarted(h)
                 \/ NotBootable(h) \/ BlessFails(h) \/ WokeUp(h) \/ TimedOut(h)
          PROVE  TypeOK'
      BY <2>1 DEF AlreadyRunning, BootMetal, VmNotStarted, NotBootable, BlessFails, WokeUp, TimedOut
    <2>2. ASSUME NEW h \in Host, StartVm(h) \/ JobsDone(h) \/ PowerUp(h) \/ Launch(h)
          PROVE  TypeOK'
      BY <2>2 DEF StartVm, JobsDone, PowerUp, Launch
    <2>10. ASSUME NEW h \in Host, Shutdown(h) PROVE TypeOK'
      <3>1. CASE TurnOff(h)
        BY <2>10, <3>1 DEF Shutdown, TurnOff, Fail
      <3>2. CASE UNCHANGED <<power, failures, stuck>>
        BY <2>10, <3>2 DEF Shutdown
      <3> QED
        BY <2>10, <3>1, <3>2 DEF Shutdown
    <2>3. ASSUME NEW h \in Host, CopyScript(h) PROVE TypeOK'
      BY <2>3 DEF CopyScript
    <2>11. ASSUME NEW h \in Host, LoadScript(h) PROVE TypeOK'
      <3>1. failures' \in 0..MaxFailures
        BY <2>11 DEF LoadScript, Fail
      <3>2. /\ power' \in [Host -> {"off", "starting", "on"}]
            /\ loaded' \in [Host -> Host \cup {NoHost}]
        <4>1. /\ power' = power \/ power' = [power EXCEPT ![script[Physical[h]]] = "starting"]
              /\ loaded' = loaded \/ loaded' = [loaded EXCEPT ![Physical[h]] = script[Physical[h]]]
          BY <2>11 DEF LoadScript
        <4>2. script[Physical[h]] \in Host \cup {NoHost}
          BY <2>11 DEF LoadScript, LoadIsUtm
        <4> QED
          BY <4>1, <4>2
      <3> QED
        BY <2>11, <3>1, <3>2 DEF LoadScript
    <2>12. ASSUME NEW h \in Host, UnloadScript(h) PROVE TypeOK'
      <3>1. stuck' \subseteq Host /\ loaded' \in [Host -> Host \cup {NoHost}]
        <4>1. \/ stuck' = stuck
                 /\ loaded' = [loaded EXCEPT ![Physical[h]] = NoHost]
              \/ /\ stuck' = stuck \cup ({loaded[Physical[h]]} \ {NoHost})
                 /\ loaded' = loaded
          BY <2>12 DEF UnloadScript
        <4>2. Physical[h] \in Host
          BY <2>12 DEF UnloadScript, LoadIsUtm
        <4> QED
          BY <4>1, <4>2
      <3>2. failures' \in 0..MaxFailures
        BY <2>12 DEF UnloadScript, Fail
      <3> QED
        BY <2>12, <3>1, <3>2 DEF UnloadScript
    <2>4. ASSUME NEW h \in Host, FindAlive(h) PROVE TypeOK'
      BY <2>4 DEF FindAlive, Alive, Volumes
    <2>5. ASSUME NEW h \in Host, Bless(h) PROVE TypeOK'
      BY <2>5 DEF Bless
    <2>6. ASSUME NEW h \in Host, Reboot(h) PROVE TypeOK'
      <3>1. CASE On(from[h])
        <4>1. power' \in [Host -> {"off", "starting", "on"}]
          BY <2>6, <3>1 DEF Reboot
        <4>2. blessed' \in [Mac -> Host \cup {NoHost}]
          BY <2>6, <3>1 DEF Reboot
        <4> QED
          BY <2>6, <4>1, <4>2 DEF Reboot
      <3>2. CASE ~On(from[h])
        BY <2>6, <3>2 DEF Reboot
      <3> QED
        BY <3>1, <3>2
    <2>7. CASE AllEnded \/ UNCHANGED vars
      BY <2>7 DEF AllEnded, vars
    <2> QED
      BY <2>1, <2>2, <2>3, <2>4, <2>5, <2>6, <2>7, <2>10, <2>11, <2>12 DEF Next, Thread
  <1> QED
    BY <1>1, <1>2, <1>3, PTL DEF Spec

\* Every thread is at a known stage, every machine in a known state, and no more
\* commands fail than the bound says.
THEOREM TypeCorrect == Spec => []TypeOK
  BY TypeAndLoad, PTL

-----------------------------------------------------------------------------
(* Rebooting a Mac.                                                        *)

\* A Mac runs one volume.
OneVolume ==
    \A m \in Mac : \A g, h \in Volumes(m) : power[g] # "off" /\ power[h] # "off" => g = h

\* The volume a Mac boots next is one the running volume may boot.
BlessedIsDirect ==
    \A m \in Mac : blessed[m] # NoHost =>
        /\ blessed[m] \in Volumes(m)
        /\ \E g \in Volumes(m) : On(g) /\ CanBootDirect(g, blessed[m])

\* What a thread remembers between asking the Mac and rebooting it.
FromIsVolume ==
    \A h \in Host : pc[h] \in {"bless", "reboot"} =>
        /\ Type[h] = "macos"
        /\ from[h] \in Volumes(Physical[h])
        /\ CanBootDirect(from[h], h)

\* launchd scripts start UTM machines.
ScriptIsUtm ==
    \A p \in Host :
        /\ script[p] # NoHost => script[p] \in Host /\ Type[script[p]] = "utm"
        /\ loaded[p] # NoHost => loaded[p] \in Host /\ Type[loaded[p]] = "utm"

RebootInv == OneVolume /\ BlessedIsDirect /\ FromIsVolume /\ ScriptIsUtm

\* Threads that leave the Macs alone.
LEMMA MacsUntouched ==
  ASSUME TypeOK, RebootInv, blessed' = blessed,
         \A h \in Host : Type[h] = "macos" => power'[h] = power[h]
  PROVE  OneVolume' /\ BlessedIsDirect'
  BY DEF RebootInv, OneVolume, BlessedIsDirect, Volumes, On

LEMMA RebootInvHolds == Spec => []RebootInv
  <1>1. Init => RebootInv
    <2> SUFFICES ASSUME Init PROVE RebootInv
      OBVIOUS
    <2>1. OneVolume
      BY DEF Init, PowerOK, OneVolume, Volumes
    <2>2. BlessedIsDirect /\ FromIsVolume /\ ScriptIsUtm
      BY DEF Init, BlessedIsDirect, FromIsVolume, ScriptIsUtm
    <2> QED
      BY <2>1, <2>2 DEF RebootInv
  <1>2. TypeOK /\ LoadIsUtm /\ RebootInv /\ [Next]_vars => RebootInv'
    <2> SUFFICES ASSUME TypeOK, LoadIsUtm, RebootInv, [Next]_vars PROVE RebootInv'
      OBVIOUS
    <2> USE DEF Goto, launchd
    <2>0. /\ power \in [Host -> {"off", "starting", "on"}]
          /\ pc \in [Host -> {"boot", "load", "unload", "bless", "reboot", "wait", "run", "shutdown", "end"}]
          /\ from \in [Host -> Host \cup {NoHost}]
          /\ script \in [Host -> Host \cup {NoHost}]
          /\ loaded \in [Host -> Host \cup {NoHost}]
          /\ blessed \in [Mac -> Host \cup {NoHost}]
      BY DEF TypeOK
    \* Steps that change nothing but the thread's stage and result.
    <2>1. ASSUME NEW h \in Host, AlreadyRunning(h) \/ BootMetal(h) \/ VmNotStarted(h)
                 \/ NotBootable(h) \/ BlessFails(h) \/ WokeUp(h) \/ TimedOut(h) \/ JobsDone(h)
          PROVE  RebootInv'
      <3>1. /\ UNCHANGED <<power, blessed, script, loaded, from>>
            /\ \E to \in {"run", "end", "shutdown"} : pc' = [pc EXCEPT ![h] = to]
        BY <2>1 DEF AlreadyRunning, BootMetal, VmNotStarted, NotBootable, BlessFails,
                    WokeUp, TimedOut, JobsDone
      <3>2. FromIsVolume' /\ ScriptIsUtm'
        BY <3>1, <2>0 DEF RebootInv, FromIsVolume, ScriptIsUtm
      <3> QED
        BY <3>1, <3>2, MacsUntouched DEF RebootInv
    <2>2. ASSUME NEW h \in Host, StartVm(h) \/ Shutdown(h) PROVE RebootInv'
      <3>1. /\ UNCHANGED <<blessed, script, loaded, from>>
            /\ \E to \in {"wait", "end"} : pc' = [pc EXCEPT ![h] = to]
            /\ \A g \in Host : Type[g] = "macos" => power'[g] = power[g]
        BY <2>2, <2>0 DEF StartVm, Shutdown, TurnOff, IsVm
      <3>2. FromIsVolume' /\ ScriptIsUtm'
        BY <3>1, <2>0 DEF RebootInv, FromIsVolume, ScriptIsUtm
      <3> QED
        BY <3>1, <3>2, MacsUntouched DEF RebootInv
    <2>3. ASSUME NEW h \in Host, CopyScript(h) PROVE RebootInv'
      <3>1. /\ UNCHANGED <<power, blessed, loaded, from>>
            /\ Type[h] = "utm" /\ pc' = [pc EXCEPT ![h] = "load"]
            /\ script' = [script EXCEPT ![Physical[h]] = h]
        BY <2>3 DEF CopyScript
      <3>2. FromIsVolume'
        BY <3>1, <2>0 DEF RebootInv, FromIsVolume
      <3>3. ScriptIsUtm'
        BY <3>1, <2>0 DEF RebootInv, ScriptIsUtm
      <3> QED
        BY <3>1, <3>2, <3>3, MacsUntouched DEF RebootInv
    <2>4. ASSUME NEW h \in Host, LoadScript(h) PROVE RebootInv'
      <3>1. /\ UNCHANGED <<blessed, script, from>>
            /\ pc[h] = "load" /\ pc' = [pc EXCEPT ![h] = "unload"]
            /\ \/ UNCHANGED <<power, loaded>>
               \/ /\ loaded' = [loaded EXCEPT ![Physical[h]] = script[Physical[h]]]
                  /\ \/ power' = power
                     \/ power' = [power EXCEPT ![script[Physical[h]]] = "starting"]
        BY <2>4 DEF LoadScript
      <3>2. Type[h] = "utm" /\ Physical[h] \in Host
        BY <3>1 DEF LoadIsUtm
      <3>3. \A g \in Host : Type[g] = "macos" => power'[g] = power[g]
        <4>1. \A g \in Host : Type[g] = "macos" => g # script[Physical[h]]
          BY <3>2 DEF RebootInv, ScriptIsUtm, Host, NoHost
        <4> QED
          BY <2>0, <3>1, <4>1
      <3>4. FromIsVolume'
        BY <3>1, <2>0 DEF RebootInv, FromIsVolume
      <3>5. ScriptIsUtm'
        BY <3>1, <3>2, <2>0 DEF RebootInv, ScriptIsUtm
      <3> QED
        BY <3>1, <3>3, <3>4, <3>5, MacsUntouched DEF RebootInv
    <2>10. ASSUME NEW h \in Host, UnloadScript(h) PROVE RebootInv'
      <3>1. /\ UNCHANGED <<power, blessed, script, from>>
            /\ pc' = [pc EXCEPT ![h] = "wait"]
            /\ loaded' = loaded \/ loaded' = [loaded EXCEPT ![Physical[h]] = NoHost]
        BY <2>10 DEF UnloadScript
      <3>2. FromIsVolume' /\ ScriptIsUtm'
        BY <3>1, <2>0 DEF RebootInv, FromIsVolume, ScriptIsUtm
      <3> QED
        BY <3>1, <3>2, MacsUntouched DEF RebootInv
    <2>11. ASSUME NEW p \in Host, Launch(p) PROVE RebootInv'
      <3>1. /\ UNCHANGED <<blessed, script, loaded, pc, from>>
            /\ loaded[p] # NoHost /\ power' = [power EXCEPT ![loaded[p]] = "starting"]
        BY <2>11 DEF Launch
      <3>2. \A g \in Host : Type[g] = "macos" => power'[g] = power[g]
        BY <2>0, <3>1 DEF RebootInv, ScriptIsUtm
      <3>3. FromIsVolume' /\ ScriptIsUtm'
        BY <3>1 DEF RebootInv, FromIsVolume, ScriptIsUtm
      <3> QED
        BY <3>1, <3>2, <3>3, MacsUntouched DEF RebootInv
    <2>5. ASSUME NEW h \in Host, FindAlive(h) PROVE RebootInv'
      <3>1. /\ UNCHANGED <<power, blessed, script, loaded>>
            /\ Type[h] = "macos" /\ pc' = [pc EXCEPT ![h] = "bless"]
        BY <2>5 DEF FindAlive
      <3>2. PICK g \in Volumes(Physical[h]) :
               CanBootDirect(g, h) /\ from' = [from EXCEPT ![h] = g]
        BY <2>5 DEF FindAlive, Alive
      <3>3. FromIsVolume' /\ ScriptIsUtm'
        BY <3>1, <3>2, <2>0 DEF RebootInv, FromIsVolume, ScriptIsUtm
      <3> QED
        BY <3>1, <3>3, MacsUntouched DEF RebootInv
    <2>6. ASSUME NEW h \in Host, Bless(h) PROVE RebootInv'
      <3>1. /\ UNCHANGED <<power, script, loaded, from>>
            /\ pc[h] = "bless" /\ pc' = [pc EXCEPT ![h] = "reboot"]
            /\ On(from[h]) /\ blessed' = [blessed EXCEPT ![Physical[h]] = h]
        BY <2>6 DEF Bless
      <3>2. /\ Type[h] = "macos" /\ h \in Volumes(Physical[h])
            /\ from[h] \in Volumes(Physical[h]) /\ CanBootDirect(from[h], h)
        BY <3>1 DEF RebootInv, FromIsVolume, Volumes
      <3>3. BlessedIsDirect'
        BY <3>1, <3>2, <2>0 DEF RebootInv, BlessedIsDirect, On
      <3>4. FromIsVolume' /\ ScriptIsUtm'
        BY <3>1, <3>2, <2>0 DEF RebootInv, FromIsVolume, ScriptIsUtm
      <3>5. OneVolume'
        BY <3>1 DEF RebootInv, OneVolume
      <3> QED
        BY <3>3, <3>4, <3>5 DEF RebootInv
    <2>7. ASSUME NEW h \in Host, Reboot(h) PROVE RebootInv'
      <3>1. /\ UNCHANGED <<script, from>> /\ pc[h] = "reboot" /\ pc' = [pc EXCEPT ![h] = "wait"]
            /\ loaded' = loaded \/ loaded' = [loaded EXCEPT ![from[h]] = NoHost]
        BY <2>7 DEF Reboot
      <3>2. FromIsVolume' /\ ScriptIsUtm'
        BY <3>1, <2>0 DEF RebootInv, FromIsVolume, ScriptIsUtm
      <3>3. CASE ~On(from[h])
        <4>1. UNCHANGED <<power, blessed>>
          BY <2>7, <3>3 DEF Reboot
        <4> QED
          BY <3>2, <4>1, MacsUntouched DEF RebootInv
      <3>4. CASE On(from[h])
        <4> DEFINE m == Physical[h]
                   g == from[h]
                   up == IF blessed[m] = NoHost THEN g ELSE blessed[m]
        <4>1. /\ power' = [k \in Host |->
                     IF k = up THEN "starting"
                     ELSE IF k = g \/ (IsVm(k) /\ Physical[k] = g) THEN "off"
                     ELSE power[k]]
              /\ blessed' = [blessed EXCEPT ![m] = NoHost]
          BY <2>7, <3>4 DEF Reboot
        <4>2. g \in Volumes(m) /\ m \in Mac
          BY <3>1 DEF RebootInv, FromIsVolume, Mac
        <4>3. up \in Volumes(m)
          BY <4>2 DEF RebootInv, BlessedIsDirect
        <4>4. \A k \in Volumes(m) : k # up => power'[k] = "off"
          <5> SUFFICES ASSUME NEW k \in Volumes(m), k # up PROVE power'[k] = "off"
            OBVIOUS
          <5>1. k = g \/ power[k] = "off"
            BY <2>0, <3>4, <4>2 DEF RebootInv, OneVolume, On
          <5> QED
            BY <4>1, <5>1 DEF Volumes
        <4>5. \A n \in Mac : n # m => \A k \in Volumes(n) : power'[k] = power[k]
          <5> SUFFICES ASSUME NEW n \in Mac, n # m, NEW k \in Volumes(n) PROVE power'[k] = power[k]
            OBVIOUS
          <5>1. k \in Host /\ k # up /\ k # g /\ ~IsVm(k)
            BY <4>2, <4>3 DEF Volumes, IsVm
          <5> QED
            BY <4>1, <5>1
        <4>6. OneVolume'
          <5> SUFFICES ASSUME NEW n \in Mac, NEW j \in Volumes(n), NEW k \in Volumes(n),
                              power'[j] # "off", power'[k] # "off"
                       PROVE  j = k
            BY DEF OneVolume
          <5>1. CASE n = m
            BY <4>4, <5>1
          <5>2. CASE n # m
            BY <4>5, <5>2 DEF RebootInv, OneVolume
          <5> QED
            BY <5>1, <5>2
        <4>7. BlessedIsDirect'
          <5> SUFFICES ASSUME NEW n \in Mac, blessed'[n] # NoHost
                       PROVE  /\ blessed'[n] \in Volumes(n)
                              /\ \E k \in Volumes(n) : power'[k] = "on" /\ CanBootDirect(k, blessed'[n])
            BY DEF BlessedIsDirect, On
          <5>1. n # m /\ blessed'[n] = blessed[n]
            BY <2>0, <4>1
          <5>2. PICK k \in Volumes(n) : On(k) /\ CanBootDirect(k, blessed[n])
            BY <5>1 DEF RebootInv, BlessedIsDirect
          <5>3. power'[k] = "on" /\ blessed[n] \in Volumes(n)
            BY <4>5, <5>1, <5>2 DEF RebootInv, BlessedIsDirect, On
          <5> QED
            BY <5>1, <5>2, <5>3
        <4> QED
          BY <3>2, <4>6, <4>7 DEF RebootInv
      <3> QED
        BY <3>3, <3>4
    <2>8. ASSUME NEW h \in Host, PowerUp(h) PROVE RebootInv'
      <3>1. UNCHANGED <<blessed, script, loaded, pc, from>> /\ power[h] = "starting"
            /\ power' = [power EXCEPT ![h] = "on"]
        BY <2>8 DEF PowerUp
      <3>2. OneVolume' /\ BlessedIsDirect'
        BY <2>0, <3>1 DEF RebootInv, OneVolume, BlessedIsDirect, Volumes, On
      <3>3. FromIsVolume' /\ ScriptIsUtm'
        BY <3>1 DEF RebootInv, FromIsVolume, ScriptIsUtm
      <3> QED
        BY <3>2, <3>3 DEF RebootInv
    <2>9. CASE AllEnded \/ UNCHANGED vars
      BY <2>9 DEF AllEnded, vars, RebootInv, OneVolume, BlessedIsDirect, FromIsVolume, ScriptIsUtm, On
    <2> QED
      BY <2>1, <2>2, <2>3, <2>4, <2>5, <2>6, <2>7, <2>8, <2>9, <2>10, <2>11 DEF Next, Thread
  <1> QED
    BY <1>1, <1>2, TypeAndLoad, PTL DEF Spec

\* The volume found alive is still the one that runs when the Mac reboots, or
\* the Mac has rebooted since and its blessing is gone: the check made before
\* the bless holds at the reboot, whatever other threads did in between.
THEOREM RebootIsDirectHolds == Spec => []RebootIsDirect
  <1>1. TypeOK /\ RebootInv => RebootIsDirect
    <2> SUFFICES ASSUME TypeOK, RebootInv, NEW h \in Host, pc[h] = "reboot", On(from[h]),
                        blessed[Physical[h]] # NoHost
                 PROVE  CanBootDirect(from[h], blessed[Physical[h]])
      BY DEF RebootIsDirect
    <2>1. from[h] \in Volumes(Physical[h]) /\ Physical[h] \in Mac
      BY DEF RebootInv, FromIsVolume, Mac
    <2>2. PICK g \in Volumes(Physical[h]) : On(g) /\ CanBootDirect(g, blessed[Physical[h]])
      BY <2>1 DEF RebootInv, BlessedIsDirect
    <2>3. g = from[h]
      BY <2>1, <2>2 DEF RebootInv, OneVolume, On
    <2> QED
      BY <2>2, <2>3
  <1> QED
    BY <1>1, RebootInvHolds, TypeCorrect, PTL

-----------------------------------------------------------------------------
(* What the threads of other hosts may turn off and on.                    *)

\* The stages of a thread: only a runner has one, it has a result when it is done
\* with booting, and the volume it has found alive is not its own.
ThreadInv ==
    \A h \in Host :
        /\ pc[h] # "end" => h \in Runner
        /\ pc[h] \in {"boot", "load", "unload", "bless", "reboot", "wait"} => state[h] = "NOT_INIT"
        /\ pc[h] \in {"bless", "reboot"} => from[h] # h

\* A launch script starts a machine with a runner, on the host it was copied to.  A
\* script that is loaded is still to be unloaded by the thread of its machine, or
\* that has failed, or another thread may have loaded it.
ScriptInv ==
    \A p \in Host :
        /\ script[p] # NoHost => script[p] \in Runner /\ Physical[script[p]] = p
        /\ loaded[p] # NoHost =>
              /\ Physical[loaded[p]] = p
              /\ \/ pc[loaded[p]] = "unload"
                 \/ loaded[p] \in stuck
                 \/ SharesScript(loaded[p])

LEMMA ThreadInvHolds == Spec => []ThreadInv
  <1>1. Init => ThreadInv
    BY DEF Init, ThreadInv
  <1>2. TypeOK /\ ThreadInv /\ [Next]_vars => ThreadInv'
    <2> SUFFICES ASSUME TypeOK, ThreadInv, [Next]_vars PROVE ThreadInv'
      OBVIOUS
    <2>0. /\ pc \in [Host -> {"boot", "load", "unload", "bless", "reboot", "wait", "run", "shutdown", "end"}]
          /\ from \in [Host -> Host \cup {NoHost}]
          /\ state \in [Host -> RunState]
      BY DEF TypeOK
    <2> USE <2>0 DEF ThreadInv, Goto, Result, On
    \* The thread is done with booting.
    <2>1. ASSUME NEW h \in Host, AlreadyRunning(h) \/ BootMetal(h) \/ VmNotStarted(h)
                 \/ NotBootable(h) \/ BlessFails(h) \/ WokeUp(h) \/ TimedOut(h)
                 \/ JobsDone(h) \/ Shutdown(h)
          PROVE  ThreadInv'
      <3>1. /\ pc[h] # "end" /\ \E to \in {"run", "end", "shutdown"} : pc' = [pc EXCEPT ![h] = to]
            /\ from' = from
            /\ \A k \in Host : k # h => state'[k] = state[k]
        BY <2>1 DEF AlreadyRunning, BootMetal, VmNotStarted, NotBootable, BlessFails,
                    WokeUp, TimedOut, JobsDone, Shutdown
      <3> QED
        BY <3>1
    \* The thread goes on.
    <2>2. ASSUME NEW h \in Host, StartVm(h) \/ CopyScript(h) \/ LoadScript(h) \/ UnloadScript(h)
                 \/ Bless(h) \/ Reboot(h)
          PROVE  ThreadInv'
      <3>1. /\ \/ pc[h] \in {"boot", "load", "unload", "reboot"}
                  /\ \E to \in {"load", "unload", "wait"} : pc' = [pc EXCEPT ![h] = to]
               \/ pc[h] = "bless" /\ pc' = [pc EXCEPT ![h] = "reboot"]
            /\ UNCHANGED <<from, state>>
        BY <2>2 DEF StartVm, CopyScript, LoadScript, UnloadScript, Bless, Reboot
      <3> QED
        BY <3>1
    <2>3. ASSUME NEW h \in Host, FindAlive(h) PROVE ThreadInv'
      <3>1. /\ pc[h] = "boot" /\ pc' = [pc EXCEPT ![h] = "bless"] /\ state' = state
            /\ \E g \in Host : g # h /\ from' = [from EXCEPT ![h] = g]
        BY <2>3 DEF FindAlive, Alive, Volumes
      <3> QED
        BY <3>1
    <2>4. CASE AllEnded \/ UNCHANGED vars
      BY <2>4 DEF AllEnded, vars
    <2>5. ASSUME NEW h \in Host, PowerUp(h) \/ Launch(h) PROVE ThreadInv'
      BY <2>5 DEF PowerUp, Launch
    <2> QED
      BY <2>1, <2>2, <2>3, <2>4, <2>5 DEF Next, Thread
  <1> QED
    BY <1>1, <1>2, TypeCorrect, PTL DEF Spec

LEMMA ScriptInvHolds == Spec => []ScriptInv
  <1>1. Init => ScriptInv
    BY DEF Init, ScriptInv
  <1>2. TypeOK /\ LoadIsUtm /\ RebootInv /\ ThreadInv /\ ScriptInv /\ [Next]_vars => ScriptInv'
    <2> SUFFICES ASSUME TypeOK, LoadIsUtm, RebootInv, ThreadInv, ScriptInv, [Next]_vars
                 PROVE  ScriptInv'
      OBVIOUS
    <2>0. /\ pc \in [Host -> {"boot", "load", "unload", "bless", "reboot", "wait", "run", "shutdown", "end"}]
          /\ script \in [Host -> Host \cup {NoHost}]
          /\ loaded \in [Host -> Host \cup {NoHost}]
          /\ NoHost \notin Host
      BY DEF TypeOK, Host, NoHost
    <2> USE DEF Goto, launchd
    <2>1. ASSUME NEW h \in Host, CopyScript(h) PROVE ScriptInv'
      <3>1. /\ h \in Runner /\ pc[h] = "boot" /\ pc' = [pc EXCEPT ![h] = "load"]
            /\ script' = [script EXCEPT ![Physical[h]] = h]
            /\ UNCHANGED launchd
        BY <2>1 DEF CopyScript, ThreadInv
      <3> QED
        BY <2>0, <3>1 DEF ScriptInv, SharesScript
    <2>2. ASSUME NEW h \in Host, LoadScript(h) PROVE ScriptInv'
      <3> DEFINE p == Physical[h]
      <3>1. /\ h \in Runner /\ pc[h] = "load" /\ pc' = [pc EXCEPT ![h] = "unload"]
            /\ script' = script /\ stuck' = stuck
            /\ \/ loaded' = loaded
               \/ loaded' = [loaded EXCEPT ![p] = script[p]]
        BY <2>2 DEF LoadScript, ThreadInv
      <3>2. p \in Host /\ Type[h] = "utm"
        BY <3>1 DEF LoadIsUtm
      \* A thread that loads the script of another machine shares it.
      <3>3. script[p] = NoHost \/ script[p] = h \/ SharesScript(script[p])
        BY <3>1, <3>2 DEF SharesScript, ScriptInv, RebootInv, ScriptIsUtm
      <3> QED
        BY <2>0, <3>1, <3>2, <3>3 DEF ScriptInv, SharesScript
    <2>3. ASSUME NEW h \in Host, UnloadScript(h) PROVE ScriptInv'
      <3> DEFINE p == Physical[h]
      <3>1. /\ pc[h] = "unload" /\ pc' = [pc EXCEPT ![h] = "wait"]
            /\ script' = script
            /\ \/ loaded' = [loaded EXCEPT ![p] = NoHost] /\ stuck' = stuck
               \/ loaded' = loaded /\ stuck' = stuck \cup ({loaded[p]} \ {NoHost})
        BY <2>3 DEF UnloadScript
      <3>2. p \in Host
        BY <3>1 DEF LoadIsUtm
      <3> SUFFICES ASSUME NEW q \in Host, loaded'[q] # NoHost
                   PROVE  /\ Physical[loaded'[q]] = q
                          /\ \/ pc'[loaded'[q]] = "unload"
                             \/ loaded'[q] \in stuck'
                             \/ SharesScript(loaded'[q])
        BY <3>1 DEF ScriptInv, SharesScript
      <3>3. loaded'[q] = loaded[q] /\ loaded[q] \in Host
        BY <2>0, <3>1, <3>2
      <3>4. /\ Physical[loaded[q]] = q
            /\ pc[loaded[q]] = "unload" \/ loaded[q] \in stuck \/ SharesScript(loaded[q])
        BY <3>3 DEF ScriptInv
      <3>5. CASE loaded[q] = h
        <4>1. q = p
          BY <3>4, <3>5
        <4>2. loaded' = loaded /\ stuck' = stuck \cup ({loaded[p]} \ {NoHost})
          BY <2>0, <3>1, <3>2, <3>3, <4>1
        <4> QED
          BY <3>3, <3>4, <4>1, <4>2, <2>0
      <3>6. CASE loaded[q] # h
        <4>1. pc'[loaded[q]] = pc[loaded[q]] /\ stuck \subseteq stuck'
          BY <2>0, <3>1, <3>3, <3>6
        <4> QED
          BY <3>3, <3>4, <4>1
      <3> QED
        BY <3>5, <3>6
    <2>4. ASSUME NEW h \in Host, Reboot(h) PROVE ScriptInv'
      <3>1. /\ pc[h] = "reboot" /\ pc' = [pc EXCEPT ![h] = "wait"]
            /\ UNCHANGED <<script, stuck>>
            /\ loaded' = loaded \/ loaded' = [loaded EXCEPT ![from[h]] = NoHost]
        BY <2>4 DEF Reboot
      <3> QED
        BY <2>0, <3>1 DEF ScriptInv, SharesScript
    \* The other steps leave the scripts and the threads that unload alone.
    <2>5. ASSUME NEW h \in Host, Thread(h),
                 ~(CopyScript(h) \/ LoadScript(h) \/ UnloadScript(h) \/ Reboot(h))
          PROVE  ScriptInv'
      <3>1. /\ script' = script /\ loaded' = loaded /\ stuck \subseteq stuck'
            /\ pc[h] # "unload"
            /\ \E to \in {"wait", "bless", "reboot", "run", "shutdown", "end"} :
                  pc' = [pc EXCEPT ![h] = to]
        BY <2>5 DEF Thread, AlreadyRunning, BootMetal, StartVm, VmNotStarted, FindAlive,
             NotBootable, Bless, BlessFails, WokeUp, TimedOut, JobsDone, Shutdown, TurnOff
      <3> QED
        BY <2>0, <3>1 DEF ScriptInv, SharesScript
    <2>6. CASE UNCHANGED <<script, loaded, stuck, pc>>
      BY <2>6 DEF ScriptInv, SharesScript
    <2> QED
      BY <2>1, <2>2, <2>3, <2>4, <2>5, <2>6 DEF Next, PowerUp, Launch, AllEnded, vars
  <1> QED
    BY <1>1, <1>2, TypeAndLoad, RebootInvHolds, ThreadInvHolds, PTL DEF Spec

\* A reboot touches the volumes of its Mac and the virtual machines of the volume
\* that was running there.
LEMMA RebootTouches ==
  ASSUME TypeOK, RebootInv, ThreadInv, NEW h \in Host, Reboot(h), NEW k \in Host
  PROVE  /\ IsVm(k) => power'[k] \in {power[k], "off"}
         /\ On(k) /\ power'[k] # "on" => Shared(k)
  <1>1. /\ pc[h] = "reboot" /\ h \in Runner /\ from[h] # h
        /\ Type[h] = "macos" /\ from[h] \in Volumes(Physical[h])
    BY DEF Reboot, Goto, ThreadInv, RebootInv, FromIsVolume
  <1>2. CASE ~On(from[h])
    <2>1. power' = power
      BY <1>2 DEF Reboot
    <2> QED
      BY <2>1 DEF On
  <1>3. CASE On(from[h])
    <2> DEFINE m == Physical[h]
               g == from[h]
               up == IF blessed[m] = NoHost THEN g ELSE blessed[m]
    <2>1. power' = [j \in Host |->
                 IF j = up THEN "starting"
                 ELSE IF j = g \/ (IsVm(j) /\ Physical[j] = g) THEN "off"
                 ELSE power[j]]
      BY <1>3 DEF Reboot
    <2>2. m \in Mac /\ g \in Host /\ Type[g] = "macos" /\ Physical[g] = m
      BY <1>1 DEF Volumes, Mac
    <2>3. up \in Volumes(m)
      BY <1>1, <2>2 DEF RebootInv, BlessedIsDirect
    <2>4. ~IsVm(up)
      BY <2>3 DEF Volumes, IsVm
    <2>5. IsVm(k) => power'[k] \in {power[k], "off"}
      BY <2>1, <2>4
    <2>6. h \in Runner \ {g} /\ h \in Volumes(Physical[g])
      BY <1>1, <2>2 DEF Volumes
    <2>7. On(k) /\ k = up => k = g
      BY <1>1, <1>3, <2>2, <2>3 DEF RebootInv, OneVolume, On
    <2>8. On(k) /\ power'[k] # "on" => k = g \/ (IsVm(k) /\ Physical[k] = g)
      BY <2>1, <2>7 DEF On
    <2>9. k = g => Machine(k) = g
      BY <2>2 DEF Machine, IsVm
    <2>10. IsVm(k) /\ Physical[k] = g => Machine(k) = g
      BY DEF Machine
    <2>11. Machine(k) = g => Shared(k)
      BY <2>2, <2>6 DEF Shared
    <2> QED
      BY <2>5, <2>8, <2>9, <2>10, <2>11
  <1> QED
    BY <1>2, <1>3

\* A host keeps up unless its own thread turns it off: other threads start what is
\* off, turn off their own machine, and reboot a Mac that is shared.
THEOREM HostStaysUpHolds == Spec => []HostStaysUp
  <1>1. Init => HostStaysUp
    BY DEF Init, HostStaysUp
  <1>2. TypeOK /\ RebootInv /\ ThreadInv /\ HostStaysUp /\ [Next]_vars => HostStaysUp'
    <2> SUFFICES ASSUME TypeOK, RebootInv, ThreadInv, HostStaysUp, [Next]_vars,
                        NEW k \in Host, pc'[k] = "run" \/ state'[k] = "ALREADY_RUNNING"
                 PROVE  Shared(k) \/ power'[k] = "on"
      BY DEF HostStaysUp, On, Shared, Machine
    <2>0. /\ power \in [Host -> {"off", "starting", "on"}]
          /\ pc \in [Host -> {"boot", "load", "unload", "bless", "reboot", "wait", "run", "shutdown", "end"}]
          /\ state \in [Host -> RunState]
      BY DEF TypeOK
    <2>1. pc[k] = "run" \/ state[k] = "ALREADY_RUNNING" => Shared(k) \/ power[k] = "on"
      BY DEF HostStaysUp, On
    <2> USE <2>0, <2>1 DEF Goto, Result
    <2>2. ASSUME NEW h \in Host, AlreadyRunning(h) \/ WokeUp(h) PROVE power'[k] = "on" \/ Shared(k)
      BY <2>2 DEF AlreadyRunning, WokeUp, On
    <2>3. ASSUME NEW h \in Host, BootMetal(h) \/ VmNotStarted(h) \/ BlessFails(h) \/ TimedOut(h)
          PROVE  power'[k] = "on" \/ Shared(k)
      BY <2>3 DEF BootMetal, VmNotStarted, BlessFails, TimedOut
    <2>4. ASSUME NEW h \in Host, NotBootable(h) PROVE power'[k] = "on" \/ Shared(k)
      <3>1. /\ power' = power /\ pc' = [pc EXCEPT ![h] = "end"]
            /\ \E s \in {"UNREACHABLE", "MACOS_UNKNOWN_VERSION", "MACOS_NOT_BOOTABLE"} :
                  state' = [state EXCEPT ![h] = s]
        BY <2>4 DEF NotBootable
      <3> QED
        BY <3>1
    <2>5. ASSUME NEW h \in Host, CopyScript(h) \/ FindAlive(h) \/ Bless(h) \/ JobsDone(h)
          PROVE  power'[k] = "on" \/ Shared(k)
      <3>1. /\ power' = power /\ state' = state
            /\ \E to \in {"load", "bless", "reboot", "shutdown"} : pc' = [pc EXCEPT ![h] = to]
        BY <2>5 DEF CopyScript, FindAlive, Bless, JobsDone
      <3> QED
        BY <3>1
    \* Starting a machine needs that it is off; one that is on stays on.
    <2>6. ASSUME NEW h \in Host, StartVm(h) \/ LoadScript(h) \/ UnloadScript(h) \/ PowerUp(h) \/ Launch(h)
          PROVE  power'[k] = "on" \/ Shared(k)
      <3>1. /\ state' = state
            /\ \/ pc' = pc
               \/ \E to \in {"wait", "unload"} : pc' = [pc EXCEPT ![h] = to]
        BY <2>6 DEF StartVm, LoadScript, UnloadScript, PowerUp, Launch
      <3>2. power[k] = "on" => power'[k] = "on"
        BY <2>6 DEF StartVm, LoadScript, UnloadScript, PowerUp, Launch, On
      <3> QED
        BY <3>1, <3>2
    <2>7. ASSUME NEW h \in Host, Reboot(h) PROVE power'[k] = "on" \/ Shared(k)
      <3>1. state' = state /\ pc' = [pc EXCEPT ![h] = "wait"]
        BY <2>7 DEF Reboot
      <3>2. On(k) /\ power'[k] # "on" => Shared(k)
        BY <2>7, RebootTouches
      <3> QED
        BY <3>1, <3>2 DEF On
    <2>8. ASSUME NEW h \in Host, Shutdown(h) PROVE power'[k] = "on" \/ Shared(k)
      <3>1. /\ state' = state /\ pc[h] = "shutdown" /\ pc' = [pc EXCEPT ![h] = "end"]
            /\ \/ power' = power
               \/ state[h] \in {"WAKE_UP", "TIMEOUT"} /\ power' = [power EXCEPT ![h] = "off"]
        BY <2>8 DEF Shutdown, TurnOff
      <3> QED
        BY <3>1
    <2>9. CASE AllEnded \/ UNCHANGED vars
      BY <2>9 DEF AllEnded, vars
    <2> QED
      BY <2>2, <2>3, <2>4, <2>5, <2>6, <2>7, <2>8, <2>9 DEF Next, Thread
  <1> QED
    BY <1>1, <1>2, TypeCorrect, RebootInvHolds, ThreadInvHolds, PTL DEF Spec

\* The thread that has woken a machine turns it off before it ends, or fails to.  To
\* start it again takes a script that names it: one that another thread loads, which
\* shares it, or one that launchd has kept, which its own thread failed to unload.
THEOREM WokenVmIsOffHolds == Spec => []WokenVmIsOff
  <1>1. Init => WokenVmIsOff
    BY DEF Init, WokenVmIsOff
  <1>2. /\ TypeOK /\ LoadIsUtm /\ RebootInv /\ ThreadInv /\ ScriptInv /\ WokenVmIsOff
        /\ [Next]_vars
        => WokenVmIsOff'
    <2> SUFFICES ASSUME TypeOK, LoadIsUtm, RebootInv, ThreadInv, ScriptInv, WokenVmIsOff, [Next]_vars,
                        NEW k \in Host, pc'[k] = "end", IsVm(k), state'[k] = "WAKE_UP",
                        k \notin stuck', ~SharesScript(k)
                 PROVE  power'[k] = "off"
      BY DEF WokenVmIsOff, IsVm, SharesScript
    <2>0. /\ power \in [Host -> {"off", "starting", "on"}]
          /\ pc \in [Host -> {"boot", "load", "unload", "bless", "reboot", "wait", "run", "shutdown", "end"}]
          /\ state \in [Host -> RunState]
      BY DEF TypeOK
    <2>1. pc[k] = "end" /\ state[k] = "WAKE_UP" /\ k \notin stuck => power[k] = "off"
      BY DEF WokenVmIsOff
    <2> USE <2>0, <2>1 DEF Goto, Result, launchd
    <2>2. ASSUME NEW h \in Host, AlreadyRunning(h) \/ BootMetal(h) \/ VmNotStarted(h)
                 \/ BlessFails(h) \/ TimedOut(h) \/ WokeUp(h)
          PROVE  power'[k] = "off"
      BY <2>2 DEF AlreadyRunning, BootMetal, VmNotStarted, BlessFails, TimedOut, WokeUp
    <2>3. ASSUME NEW h \in Host, NotBootable(h) PROVE power'[k] = "off"
      <3>1. /\ power' = power /\ pc' = [pc EXCEPT ![h] = "end"] /\ stuck' = stuck
            /\ \E s \in {"UNREACHABLE", "MACOS_UNKNOWN_VERSION", "MACOS_NOT_BOOTABLE"} :
                  state' = [state EXCEPT ![h] = s]
        BY <2>3 DEF NotBootable
      <3> QED
        BY <3>1
    <2>4. ASSUME NEW h \in Host,
                 CopyScript(h) \/ UnloadScript(h) \/ FindAlive(h) \/ Bless(h) \/ JobsDone(h)
          PROVE  power'[k] = "off"
      <3>1. /\ power' = power /\ state' = state /\ stuck \subseteq stuck'
            /\ \E to \in {"load", "wait", "bless", "reboot", "shutdown"} : pc' = [pc EXCEPT ![h] = to]
        BY <2>4 DEF CopyScript, UnloadScript, FindAlive, Bless, JobsDone
      <3> QED
        BY <3>1
    <2>5. ASSUME NEW h \in Host, StartVm(h) \/ PowerUp(h) PROVE power'[k] = "off"
      BY <2>5 DEF StartVm, PowerUp
    <2>6. ASSUME NEW h \in Host, LoadScript(h) PROVE power'[k] = "off"
      <3>1. /\ pc[h] = "load" /\ pc' = [pc EXCEPT ![h] = "unload"] /\ state' = state
            /\ stuck' = stuck
        BY <2>6 DEF LoadScript
      <3>2. h # k /\ h \in Runner /\ Type[h] = "utm" /\ Physical[h] \in Host
        BY <3>1 DEF ThreadInv, LoadIsUtm
      <3>3. \/ power' = power
            \/ power' = [power EXCEPT ![script[Physical[h]]] = "starting"]
        BY <2>6 DEF LoadScript
      <3>4. script[Physical[h]] # k
        <4> SUFFICES ASSUME script[Physical[h]] = k PROVE SharesScript(k)
          OBVIOUS
        <4>1. k # NoHost
          BY DEF Host, NoHost
        <4>2. Type[k] = "utm" /\ Physical[k] = Physical[h]
          BY <3>2, <4>1 DEF ScriptInv, RebootInv, ScriptIsUtm
        <4> QED
          BY <3>2, <4>2 DEF SharesScript
      <3>5. power'[k] = power[k]
        BY <3>3, <3>4
      <3> QED
        BY <3>1, <3>2, <3>5
    \* A script that launchd has kept is of a machine whose unload has failed.
    <2>10. ASSUME NEW p \in Host, Launch(p) PROVE power'[k] = "off"
      <3>1. /\ loaded[p] # NoHost /\ power' = [power EXCEPT ![loaded[p]] = "starting"]
            /\ UNCHANGED <<pc, state, stuck>>
        BY <2>10 DEF Launch
      <3>2. loaded[p] # k
        BY <3>1 DEF ScriptInv
      <3> QED
        BY <3>1, <3>2
    <2>7. ASSUME NEW h \in Host, Reboot(h) PROVE power'[k] = "off"
      <3>1. state' = state /\ stuck' = stuck /\ pc' = [pc EXCEPT ![h] = "wait"]
        BY <2>7 DEF Reboot
      <3>2. power'[k] \in {power[k], "off"}
        BY <2>7, RebootTouches
      <3> QED
        BY <3>1, <3>2
    <2>8. ASSUME NEW h \in Host, Shutdown(h) PROVE power'[k] = "off"
      <3>1. /\ state' = state /\ pc' = [pc EXCEPT ![h] = "end"] /\ stuck \subseteq stuck'
            /\ power' = power \/ power' = [power EXCEPT ![h] = "off"]
        BY <2>8 DEF Shutdown, TurnOff
      <3>2. CASE h = k
        <4>1. TurnOff(k)
          BY <2>8, <3>1, <3>2 DEF Shutdown
        <4> QED
          BY <4>1 DEF TurnOff
      <3>3. CASE h # k
        BY <3>1, <3>3
      <3> QED
        BY <3>2, <3>3
    <2>9. CASE AllEnded \/ UNCHANGED vars
      BY <2>9 DEF AllEnded, vars
    <2> QED
      BY <2>2, <2>3, <2>4, <2>5, <2>6, <2>7, <2>8, <2>9, <2>10 DEF Next, Thread
  <1> QED
    BY <1>1, <1>2, TypeAndLoad, RebootInvHolds, ThreadInvHolds, ScriptInvHolds, PTL DEF Spec
==============================================================================
