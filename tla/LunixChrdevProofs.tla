-------------------------- MODULE LunixChrdevProofs --------------------------
(***************************************************************************)
(* Proofs about LunixChrdev, for any number of threads and open files, any *)
(* sharing of files between threads, and any number of updates.            *)
(***************************************************************************)
EXTENDS LunixChrdev, Integers, TLAPS

\* The number of updates that have been stamped.
Stamped == IF upc = "locked" THEN gen - 1 ELSE gen

\* The spinlock is held exactly while lunix_sensor_update is between its
\* spin_lock and its spin_unlock.
SpinInv ==
  /\ slock <=> upc \in {"locked", "stamped"}
  /\ upc = "locked" => gen > 0

\* The semaphore of a file counts the threads inside.
SemInv ==
  /\ \A r \in Readers : pc[r] \in Holding => sem[FileOf[r]] = 0
  /\ \A r, q \in Readers :
       (pc[r] \in Holding /\ pc[q] \in Holding /\ FileOf[r] = FileOf[q]) => r = q
  /\ \A f \in Files : sem[f] = 0 =>
       \E r \in Readers : FileOf[r] = f /\ pc[r] \in Holding

\* A thread inside a system call keeps its file open.
OpenInv == \A r \in Readers : pc[r] # "idle" => FileOf[r] \in opened

\* Timestamps travel from the clock to the sensor to the cached state, and a
\* thread that has decided to refresh finds the cache older than the sensor
\* until it has done so.
TimeInv ==
  /\ last_update <= clock
  /\ \A f \in Files : buf_timestamp[f] <= last_update
  /\ \A r \in Readers : pc[r] = "format" => raw_time[r] <= last_update
  /\ \A r \in Readers : pc[r] \in {"regrab", "format"} =>
                          buf_timestamp[FileOf[r]] < last_update

\* Every timestamp in the system is that of the measurement beside it.
StampInv ==
  /\ stamp[0] = 0
  /\ last_update = stamp[Stamped]
  /\ \A f \in Files : buf_gen[f] <= Stamped /\ buf_timestamp[f] = stamp[buf_gen[f]]
  /\ \A r \in Readers : pc[r] = "format" =>
                          raw_gen[r] <= Stamped /\ raw_time[r] = stamp[raw_gen[r]]

IInv == TypeOK /\ SpinInv /\ SemInv /\ OpenInv /\ TimeInv /\ StampInv /\ NoLostWakeup

-----------------------------------------------------------------------------
(* A thread moves without entering or leaving the semaphore's section, enters *)
(* it with down, leaves it with up. *)

\* A step that keeps the thread on its side of down_interruptible and up keeps
\* the semaphore's bookkeeping.
LEMMA SemStay ==
  ASSUME TypeOK, SemInv, NEW r \in Readers, NEW l \in PC,
         pc[r] \in Holding <=> l \in Holding,
         pc' = [pc EXCEPT ![r] = l], sem' = sem
  PROVE  SemInv'
<1>1. pc \in [Readers -> PC] /\ FileOf \in [Readers -> Files]
  BY ConstantsAssumption DEF TypeOK
<1>2. \A q \in Readers : pc'[q] \in Holding <=> pc[q] \in Holding
  BY <1>1
<1> QED BY <1>2 DEF SemInv

\* down_interruptible on a free semaphore lets in one thread and no other.
LEMMA SemEnter ==
  ASSUME TypeOK, SemInv, NEW r \in Readers, NEW l \in PC \cap Holding,
         pc[r] \notin Holding, pc' = [pc EXCEPT ![r] = l],
         sem[FileOf[r]] = 1, sem' = [sem EXCEPT ![FileOf[r]] = 0]
  PROVE  SemInv'
<1>1. /\ pc \in [Readers -> PC] /\ FileOf \in [Readers -> Files]
      /\ sem \in [Files -> {0, 1}]
  BY ConstantsAssumption DEF TypeOK
<1>2. \A q \in Readers : pc'[q] \in Holding <=> (q = r \/ pc[q] \in Holding)
  BY <1>1
<1>3. \A q \in Readers : pc[q] \in Holding => FileOf[q] # FileOf[r]
  BY <1>1 DEF SemInv
<1>4. \A q \in Readers : pc'[q] \in Holding => sem'[FileOf[q]] = 0
  BY <1>1, <1>2 DEF SemInv
<1>5. \A q, s \in Readers :
        (pc'[q] \in Holding /\ pc'[s] \in Holding /\ FileOf[q] = FileOf[s]) => q = s
  BY <1>2, <1>3 DEF SemInv
<1>6. \A f \in Files : sem'[f] = 0 =>
        \E q \in Readers : FileOf[q] = f /\ pc'[q] \in Holding
  BY <1>1, <1>2 DEF SemInv
<1> QED BY <1>4, <1>5, <1>6 DEF SemInv

\* up by the thread inside brings the count back to one, never above it.
LEMMA SemLeave ==
  ASSUME TypeOK, SemInv, NEW r \in Readers, NEW l \in PC \ Holding,
         pc[r] \in Holding, pc' = [pc EXCEPT ![r] = l],
         sem' = [sem EXCEPT ![FileOf[r]] = @ + 1]
  PROVE  sem' \in [Files -> {0, 1}] /\ SemInv'
<1>1. /\ pc \in [Readers -> PC] /\ FileOf \in [Readers -> Files]
      /\ sem \in [Files -> {0, 1}]
  BY ConstantsAssumption DEF TypeOK
<1>2. sem[FileOf[r]] = 0
  BY DEF SemInv
<1>3. sem' = [sem EXCEPT ![FileOf[r]] = 1]
  BY <1>1, <1>2
<1>4. \A q \in Readers : pc'[q] \in Holding <=> (q # r /\ pc[q] \in Holding)
  BY <1>1
<1>5. \A q \in Readers : pc'[q] \in Holding => FileOf[q] # FileOf[r]
  BY <1>4 DEF SemInv
<1>6. \A q \in Readers : pc'[q] \in Holding => sem'[FileOf[q]] = 0
  BY <1>1, <1>3, <1>4, <1>5 DEF SemInv
<1>7. \A q, s \in Readers :
        (pc'[q] \in Holding /\ pc'[s] \in Holding /\ FileOf[q] = FileOf[s]) => q = s
  BY <1>4 DEF SemInv
<1>8. \A f \in Files : sem'[f] = 0 =>
        \E q \in Readers : FileOf[q] = f /\ pc'[q] \in Holding
  BY <1>1, <1>3, <1>4 DEF SemInv
<1> QED BY <1>1, <1>3, <1>6, <1>7, <1>8 DEF SemInv

\* A step of lunix_chrdev_read or lunix_chrdev_ioctl that touches neither the
\* sensor nor the cached text, and neither decides to refresh nor falls asleep.
LEMMA Frame ==
  ASSUME IInv, NEW r \in Readers, NEW l \in PC \ {"regrab", "format", "asleep"},
         pc[r] # "idle" \/ FileOf[r] \in opened,
         pc' = [pc EXCEPT ![r] = l], wq' \subseteq wq \cup {r},
         UNCHANGED <<sensorVars, opened, bufVars, rawVars>>
  PROVE  SpinInv' /\ OpenInv' /\ TimeInv' /\ StampInv' /\ NoLostWakeup'
<1>1. pc \in [Readers -> PC]
  BY DEF IInv, TypeOK
<1>2. SpinInv' /\ OpenInv'
  BY <1>1 DEF IInv, SpinInv, OpenInv, sensorVars
<1>3. TimeInv'
  BY <1>1 DEF IInv, TimeInv, sensorVars, bufVars, rawVars
<1>4. StampInv'
  BY <1>1 DEF IInv, StampInv, Stamped, sensorVars, bufVars, rawVars
<1>5. NoLostWakeup'
  BY <1>1 DEF IInv, NoLostWakeup, NeedsRefresh, sensorVars, bufVars
<1> QED BY <1>2, <1>3, <1>4, <1>5

\* Every step of the driver keeps the inductive invariant.
LEMMA Inductive == IInv /\ [Next]_vars => IInv'
<1> SUFFICES ASSUME IInv, [Next]_vars PROVE IInv'
  OBVIOUS
<1> USE ConstantsAssumption DEF IInv
<1>1. CASE Tick
  <2>1. TypeOK'
    BY <1>1 DEF Tick, TypeOK, fileVars, callVars, rawVars
  <2>2. SpinInv' /\ SemInv' /\ OpenInv' /\ NoLostWakeup'
    BY <1>1 DEF Tick, SpinInv, SemInv, OpenInv, NoLostWakeup, NeedsRefresh, fileVars
  <2>3. TimeInv' /\ StampInv'
    BY <1>1 DEF Tick, TimeInv, StampInv, Stamped, TypeOK, fileVars, rawVars
  <2> QED BY <2>1, <2>2, <2>3
<1>2. ASSUME NEW v \in Raw, UpdateLock(v) PROVE IInv'
  <2>1. gen \in Nat /\ gen + 1 \in 0..MaxUpdates /\ gen + 1 > 0 /\ (gen + 1) - 1 = gen
    BY <1>2 DEF UpdateLock, TypeOK
  <2>2. TypeOK'
    BY <1>2, <2>1 DEF UpdateLock, TypeOK, fileVars, callVars, rawVars
  <2>3. SpinInv' /\ SemInv' /\ OpenInv'
    BY <1>2, <2>1 DEF UpdateLock, SpinInv, SemInv, OpenInv, fileVars
  <2>4. Stamped' = Stamped
    BY <1>2, <2>1 DEF UpdateLock, Stamped
  <2>5. TimeInv' /\ StampInv'
    BY <1>2, <2>4 DEF UpdateLock, TimeInv, StampInv, fileVars, rawVars
  <2>6. NoLostWakeup'
    BY <1>2 DEF UpdateLock, NoLostWakeup, NeedsRefresh, fileVars
  <2> QED BY <2>2, <2>3, <2>5, <2>6
<1>3. CASE UpdateStamp
  <2>1. /\ gen \in Nat /\ gen > 0 /\ Stamped = gen - 1 /\ Stamped' = gen
        /\ last_update' = clock /\ last_update <= clock
        /\ UNCHANGED <<buf_gen, buf_timestamp, raw_gen, raw_time, pc>>
    BY <1>3 DEF UpdateStamp, TypeOK, SpinInv, Stamped, TimeInv, fileVars, rawVars
  <2>2. TypeOK'
    BY <1>3 DEF UpdateStamp, TypeOK, fileVars, callVars, rawVars
  <2>3. SpinInv' /\ SemInv' /\ OpenInv' /\ NoLostWakeup'
    BY <1>3 DEF UpdateStamp, SpinInv, SemInv, OpenInv, NoLostWakeup, fileVars
  <2>4. TimeInv'
    <3>1. /\ clock \in Nat /\ last_update \in Nat /\ clock' = clock
          /\ buf_timestamp \in [Files -> Nat] /\ raw_time \in [Readers -> Nat]
      BY <1>3 DEF UpdateStamp, TypeOK
    <3>2. \A a \in Nat : (a <= last_update => a <= clock) /\ (a < last_update => a < clock)
      BY <2>1, <3>1
    <3> QED BY <2>1, <3>1, <3>2 DEF TimeInv
  <2>5. StampInv'
    <3>1. \A g \in 0..MaxUpdates : g <= Stamped => stamp'[g] = stamp[g] /\ g <= Stamped'
      BY <1>3, <2>1 DEF UpdateStamp, TypeOK
    <3>2. stamp'[gen] = clock /\ stamp'[0] = stamp[0]
      BY <1>3, <2>1 DEF UpdateStamp, TypeOK
    <3>3. buf_gen \in [Files -> 0..MaxUpdates] /\ raw_gen \in [Readers -> 0..MaxUpdates]
      BY DEF TypeOK
    <3> QED BY <2>1, <3>1, <3>2, <3>3 DEF StampInv
  <2> QED BY <2>2, <2>3, <2>4, <2>5
<1>4. CASE UpdateUnlock
  <2>1. TypeOK'
    BY <1>4 DEF UpdateUnlock, TypeOK, fileVars, callVars, rawVars
  <2>2. SpinInv' /\ SemInv' /\ OpenInv'
    BY <1>4 DEF UpdateUnlock, SpinInv, SemInv, OpenInv, fileVars
  <2>3. TimeInv' /\ StampInv'
    BY <1>4 DEF UpdateUnlock, TimeInv, StampInv, Stamped, fileVars, rawVars
  <2>4. NoLostWakeup'
    BY <1>4 DEF UpdateUnlock, NoLostWakeup, fileVars
  <2> QED BY <2>1, <2>2, <2>3, <2>4
<1>5. CASE WakeUp
  <2>1. TypeOK'
    BY <1>5 DEF WakeUp, TypeOK, fileVars, callVars, rawVars
  <2>2. SpinInv' /\ SemInv' /\ OpenInv'
    BY <1>5 DEF WakeUp, SpinInv, SemInv, OpenInv, fileVars
  <2>3. TimeInv' /\ StampInv'
    BY <1>5 DEF WakeUp, TimeInv, StampInv, Stamped, fileVars, rawVars
  <2>4. NoLostWakeup'
    BY <1>5 DEF WakeUp, NoLostWakeup
  <2> QED BY <2>1, <2>2, <2>3, <2>4
<1>6. ASSUME NEW f \in Files, lunix_chrdev_open(f) PROVE IInv'
  <2>1. \A r \in Readers : FileOf[r] = f => pc[r] = "idle"
    BY <1>6 DEF lunix_chrdev_open, OpenInv
  <2>2. TypeOK'
    <3>1. 0 \in Nat /\ 0 \in 0..MaxUpdates
      OBVIOUS
    <3> QED BY <1>6, <3>1 DEF lunix_chrdev_open, TypeOK, sensorVars, callVars, rawVars
  <2>3. SpinInv' /\ OpenInv'
    BY <1>6 DEF lunix_chrdev_open, SpinInv, OpenInv, sensorVars
  <2>4. SemInv'
    <3>1. \A r \in Readers : pc[r] \in Holding => FileOf[r] # f
      BY <2>1 DEF Holding
    <3>2. pc' = pc /\ \A g \in Files : sem'[g] = IF g = f THEN 1 ELSE sem[g]
      BY <1>6 DEF lunix_chrdev_open, TypeOK
    <3> QED BY <3>1, <3>2 DEF SemInv
  <2>5. /\ UNCHANGED <<sensorVars, wq, pc, rawVars>>
        /\ \A g \in Files : /\ buf_timestamp'[g] = IF g = f THEN 0 ELSE buf_timestamp[g]
                            /\ buf_gen'[g] = IF g = f THEN 0 ELSE buf_gen[g]
    BY <1>6 DEF lunix_chrdev_open, TypeOK
  <2>6. TimeInv'
    <3>1. 0 <= last_update
      BY DEF TypeOK
    <3> QED BY <2>1, <2>5, <3>1 DEF TimeInv, sensorVars, rawVars
  <2>7. StampInv'
    <3>1. 0 <= Stamped /\ Stamped' = Stamped
      BY <2>5 DEF Stamped, TypeOK, SpinInv, sensorVars
    <3> QED BY <2>5, <3>1 DEF StampInv, sensorVars, rawVars
  <2>8. NoLostWakeup'
    BY <2>1, <2>5 DEF NoLostWakeup, NeedsRefresh, sensorVars
  <2> QED BY <2>2, <2>3, <2>4, <2>6, <2>7, <2>8
<1>7. ASSUME NEW f \in Files, lunix_chrdev_release(f) PROVE IInv'
  <2>1. TypeOK' /\ OpenInv'
    BY <1>7 DEF lunix_chrdev_release, TypeOK, OpenInv, sensorVars, bufVars, callVars, rawVars
  <2>2. SpinInv' /\ SemInv' /\ NoLostWakeup'
    BY <1>7 DEF lunix_chrdev_release, SpinInv, SemInv, NoLostWakeup, NeedsRefresh,
                sensorVars, bufVars
  <2>3. TimeInv' /\ StampInv'
    BY <1>7 DEF lunix_chrdev_release, TimeInv, StampInv, Stamped, sensorVars, bufVars, rawVars
  <2> QED BY <2>1, <2>2, <2>3
<1>8. ASSUME NEW r \in Readers, SysReadExit(r) PROVE IInv'
  <2>1. SemInv'
    BY <1>8, SemStay DEF SysReadExit, Goto, Holding, PC, fileVars
  <2>2. TypeOK'
    BY <1>8, <2>1 DEF SysReadExit, Goto, TypeOK, PC, sensorVars, fileVars, bufVars, callVars, rawVars
  <2>3. SpinInv' /\ OpenInv' /\ TimeInv' /\ StampInv' /\ NoLostWakeup'
    BY <1>8, Frame DEF SysReadExit, Goto, PC, fileVars, bufVars, rawVars
  <2> QED BY <2>1, <2>2, <2>3
<1>9. ASSUME NEW r \in Readers, Down(r) PROVE IInv'
  <2>1. SemInv'
    BY <1>9, SemEnter DEF Down, Goto, TakeSem, Holding, PC, fileVars
  <2>2. TypeOK'
    BY <1>9, <2>1 DEF Down, Goto, TakeSem, TypeOK, PC, sensorVars, fileVars, bufVars, callVars, rawVars
  <2>3. SpinInv' /\ OpenInv' /\ TimeInv' /\ StampInv' /\ NoLostWakeup'
    BY <1>9, Frame DEF Down, Goto, PC, fileVars, bufVars, rawVars
  <2> QED BY <2>1, <2>2, <2>3
<1>10. ASSUME NEW r \in Readers, DownInterrupted(r) PROVE IInv'
  <2>1. SemInv'
    BY <1>10, SemStay DEF DownInterrupted, Goto, Holding, PC, fileVars
  <2>2. TypeOK'
    BY <1>10, <2>1 DEF DownInterrupted, Goto, TypeOK, PC, sensorVars, fileVars, bufVars, callVars, rawVars
  <2>3. SpinInv' /\ OpenInv' /\ TimeInv' /\ StampInv' /\ NoLostWakeup'
    BY <1>10, Frame DEF DownInterrupted, Goto, PC, fileVars, bufVars, rawVars
  <2> QED BY <2>1, <2>2, <2>3
<1>11. ASSUME NEW r \in Readers, Grab(r) PROVE IInv'
  <2>1. SemInv'
    BY <1>11, SemStay DEF Grab, Goto, Holding, PC, fileVars
  <2>2. TypeOK'
    BY <1>11, <2>1 DEF Grab, Goto, TypeOK, PC, sensorVars, fileVars, bufVars, callVars, rawVars
  <2>3. SpinInv' /\ OpenInv' /\ TimeInv' /\ StampInv' /\ NoLostWakeup'
    BY <1>11, Frame DEF Grab, Goto, PC, fileVars, bufVars, rawVars
  <2> QED BY <2>1, <2>2, <2>3
<1>12. ASSUME NEW r \in Readers, Enqueue(r) PROVE IInv'
  <2>1. SemInv'
    BY <1>12, SemStay DEF Enqueue, Goto, Holding, PC, fileVars
  <2>2. TypeOK'
    BY <1>12, <2>1 DEF Enqueue, Goto, TypeOK, PC, sensorVars, fileVars, bufVars, callVars, rawVars
  <2>3. SpinInv' /\ OpenInv' /\ TimeInv' /\ StampInv' /\ NoLostWakeup'
    BY <1>12, Frame DEF Enqueue, Goto, PC, fileVars, bufVars, rawVars
  <2> QED BY <2>1, <2>2, <2>3
<1>13. ASSUME NEW r \in Readers, Resume(r) PROVE IInv'
  <2>1. SemInv'
    BY <1>13, SemStay DEF Resume, Goto, Holding, PC, fileVars
  <2>2. TypeOK'
    BY <1>13, <2>1 DEF Resume, Goto, TypeOK, PC, sensorVars, fileVars, bufVars, callVars, rawVars
  <2>3. SpinInv' /\ OpenInv' /\ TimeInv' /\ StampInv' /\ NoLostWakeup'
    BY <1>13, Frame DEF Resume, Goto, PC, fileVars, bufVars, rawVars
  <2> QED BY <2>1, <2>2, <2>3
<1>14. ASSUME NEW r \in Readers, SleepInterrupted(r) PROVE IInv'
  <2>1. SemInv'
    BY <1>14, SemStay DEF SleepInterrupted, Goto, Holding, PC, fileVars
  <2>2. TypeOK'
    BY <1>14, <2>1 DEF SleepInterrupted, Goto, TypeOK, PC, sensorVars, fileVars, bufVars, callVars, rawVars
  <2>3. SpinInv' /\ OpenInv' /\ TimeInv' /\ StampInv' /\ NoLostWakeup'
    BY <1>14, Frame DEF SleepInterrupted, Goto, PC, fileVars, bufVars, rawVars
  <2> QED BY <2>1, <2>2, <2>3
<1>15. ASSUME NEW r \in Readers, DownAgain(r) PROVE IInv'
  <2>1. SemInv'
    BY <1>15, SemEnter DEF DownAgain, Goto, TakeSem, Holding, PC, fileVars
  <2>2. TypeOK'
    BY <1>15, <2>1 DEF DownAgain, Goto, TakeSem, TypeOK, PC, sensorVars, fileVars, bufVars, callVars, rawVars
  <2>3. SpinInv' /\ OpenInv' /\ TimeInv' /\ StampInv' /\ NoLostWakeup'
    BY <1>15, Frame DEF DownAgain, Goto, PC, fileVars, bufVars, rawVars
  <2> QED BY <2>1, <2>2, <2>3
<1>16. ASSUME NEW r \in Readers, Copy(r) PROVE IInv'
  <2>1. sem' \in [Files -> {0, 1}] /\ SemInv'
    BY <1>16, SemLeave DEF Copy, Goto, ReleaseSem, Holding, PC, fileVars
  <2>2. CopyCount(r) \in Nat /\ pos[r] + CopyCount(r) \in Nat
    <3>1. pos[r] \in Nat /\ cnt[r] \in Nat /\ buf_lim[FileOf[r]] \in Nat
      BY DEF TypeOK
    <3>2. pos[r] <= buf_lim[FileOf[r]]
      BY <1>16, <3>1 DEF Copy, PastEnd
    <3> QED BY <3>1, <3>2 DEF CopyCount
  <2>3. TypeOK'
    <3>1. pos' \in [Readers -> Nat]
      BY <1>16, <2>2 DEF Copy, TypeOK
    <3> QED BY <1>16, <2>1, <3>1 DEF Copy, Goto, TypeOK, PC, sensorVars, bufVars, rawVars
  <2>4. SpinInv' /\ OpenInv' /\ TimeInv' /\ StampInv' /\ NoLostWakeup'
    BY <1>16, Frame DEF Copy, Goto, PC, fileVars, bufVars, rawVars
  <2> QED BY <2>1, <2>2, <2>3, <2>4
<1>17. ASSUME NEW r \in Readers, CopyFault(r) PROVE IInv'
  <2>1. sem' \in [Files -> {0, 1}] /\ SemInv'
    BY <1>17, SemLeave DEF CopyFault, Goto, ReleaseSem, Holding, PC, fileVars
  <2>2. TypeOK'
    BY <1>17, <2>1 DEF CopyFault, Goto, TypeOK, PC, sensorVars, fileVars, bufVars, callVars, rawVars
  <2>3. SpinInv' /\ OpenInv' /\ TimeInv' /\ StampInv' /\ NoLostWakeup'
    BY <1>17, Frame DEF CopyFault, Goto, PC, fileVars, bufVars, rawVars
  <2> QED BY <2>1, <2>2, <2>3
<1>18. ASSUME NEW r \in Readers, SysIoctl(r) PROVE IInv'
  <2>1. SemInv'
    BY <1>18, SemStay DEF SysIoctl, Goto, Holding, PC, fileVars
  <2>2. TypeOK'
    BY <1>18, <2>1 DEF SysIoctl, Goto, TypeOK, PC, sensorVars, fileVars, bufVars, callVars, rawVars
  <2>3. SpinInv' /\ OpenInv' /\ TimeInv' /\ StampInv' /\ NoLostWakeup'
    BY <1>18, Frame DEF SysIoctl, Goto, PC, fileVars, bufVars, rawVars
  <2> QED BY <2>1, <2>2, <2>3
<1>19. ASSUME NEW r \in Readers, IoctlDown(r) PROVE IInv'
  <2>1. SemInv'
    BY <1>19, SemEnter DEF IoctlDown, Goto, TakeSem, Holding, PC, fileVars
  <2>2. TypeOK'
    BY <1>19, <2>1 DEF IoctlDown, Goto, TakeSem, TypeOK, PC, sensorVars, fileVars, bufVars, callVars, rawVars
  <2>3. SpinInv' /\ OpenInv' /\ TimeInv' /\ StampInv' /\ NoLostWakeup'
    BY <1>19, Frame DEF IoctlDown, Goto, PC, fileVars, bufVars, rawVars
  <2> QED BY <2>1, <2>2, <2>3
<1>20. ASSUME NEW r \in Readers, IoctlUp(r) PROVE IInv'
  <2>1. sem' \in [Files -> {0, 1}] /\ SemInv'
    BY <1>20, SemLeave DEF IoctlUp, Goto, ReleaseSem, Holding, PC, fileVars
  <2>2. TypeOK'
    BY <1>20, <2>1 DEF IoctlUp, Goto, TypeOK, PC, sensorVars, fileVars, bufVars, callVars, rawVars
  <2>3. SpinInv' /\ OpenInv' /\ TimeInv' /\ StampInv' /\ NoLostWakeup'
    BY <1>20, Frame DEF IoctlUp, Goto, PC, fileVars, bufVars, rawVars
  <2> QED BY <2>1, <2>2, <2>3
<1>21. ASSUME NEW r \in Readers, NEW c \in Counts, SysRead(r, c) PROVE IInv'
  <2>1. SemInv'
    BY <1>21, SemStay DEF SysRead, Goto, Holding, PC, fileVars
  <2>2. TypeOK'
    BY <1>21, <2>1 DEF SysRead, Goto, TypeOK, PC, sensorVars, fileVars, bufVars, callVars, rawVars
  <2>3. SpinInv' /\ OpenInv' /\ TimeInv' /\ StampInv' /\ NoLostWakeup'
    BY <1>21, Frame DEF SysRead, Goto, PC, fileVars, bufVars, rawVars
  <2> QED BY <2>1, <2>2, <2>3
<1>22. ASSUME NEW r \in Readers, Check(r) PROVE IInv'
  <2>1. CASE ~NeedsRefresh(FileOf[r])
    <3>1. sem' \in [Files -> {0, 1}] /\ SemInv'
      BY <1>22, <2>1, SemLeave DEF Check, Goto, ReleaseSem, Holding, PC
    <3>2. TypeOK'
      BY <1>22, <2>1, <3>1 DEF Check, Goto, TypeOK, PC, sensorVars, bufVars, callVars, rawVars
    <3>3. SpinInv' /\ OpenInv' /\ TimeInv' /\ StampInv' /\ NoLostWakeup'
      BY <1>22, <2>1, Frame DEF Check, Goto, PC
    <3> QED BY <3>1, <3>2, <3>3
  <2>2. CASE NeedsRefresh(FileOf[r])
    <3>1. SemInv'
      BY <1>22, <2>2, SemStay DEF Check, Goto, Holding, PC
    <3>2. TypeOK'
      BY <1>22, <2>2 DEF Check, Goto, TypeOK, PC, sensorVars, bufVars, callVars, rawVars
    <3>3. /\ UNCHANGED <<sensorVars, opened, wq, bufVars, rawVars>>
          /\ \A q \in Readers : pc'[q] = IF q = r THEN "regrab" ELSE pc[q]
          /\ pc[r] = "check"
      BY <1>22, <2>2 DEF Check, Goto, TypeOK
    <3>4. SpinInv' /\ OpenInv' /\ StampInv' /\ NoLostWakeup'
      BY <3>3 DEF SpinInv, OpenInv, StampInv, Stamped, NoLostWakeup, NeedsRefresh,
                  sensorVars, bufVars, rawVars
    <3>5. buf_timestamp[FileOf[r]] < last_update
      BY <2>2 DEF NeedsRefresh, TimeInv, TypeOK
    <3>6. TimeInv'
      BY <3>3, <3>5 DEF TimeInv, sensorVars, bufVars, rawVars
    <3> QED BY <3>1, <3>2, <3>4, <3>6
  <2> QED BY <2>1, <2>2
<1>23. ASSUME NEW r \in Readers, TestCondition(r) PROVE IInv'
  <2>1. SemInv'
    BY <1>23, SemStay DEF TestCondition, Goto, Holding, PC, fileVars
  <2>2. TypeOK'
    BY <1>23 DEF TestCondition, Goto, TypeOK, PC, sensorVars, fileVars, callVars, rawVars
  <2>3. CASE NeedsRefresh(FileOf[r])
    BY <1>23, <2>1, <2>2, <2>3, Frame DEF TestCondition, Goto, PC, fileVars, bufVars
  <2>4. CASE ~NeedsRefresh(FileOf[r])
    <3>1. /\ UNCHANGED <<sensorVars, fileVars, wq, rawVars>>
          /\ \A q \in Readers : pc'[q] = IF q = r THEN "asleep" ELSE pc[q]
          /\ pc[r] = "cond"
      BY <1>23, <2>4 DEF TestCondition, Goto, TypeOK
    <3>2. SpinInv' /\ OpenInv' /\ TimeInv' /\ StampInv'
      BY <3>1 DEF SpinInv, OpenInv, TimeInv, StampInv, Stamped, sensorVars, fileVars, rawVars
    <3>3. NoLostWakeup'
      BY <2>4, <3>1 DEF NoLostWakeup, NeedsRefresh, sensorVars, fileVars
    <3> QED BY <2>1, <2>2, <3>2, <3>3
  <2> QED BY <2>3, <2>4
<1>24. ASSUME NEW r \in Readers, Regrab(r) PROVE IInv'
  <2>1. SemInv'
    BY <1>24, SemStay DEF Regrab, Goto, Holding, PC, fileVars
  <2>2. TypeOK'
    BY <1>24 DEF Regrab, Goto, TypeOK, PC, sensorVars, fileVars, callVars
  <2>3. /\ UNCHANGED <<sensorVars, fileVars, wq>>
        /\ pc[r] = "regrab" /\ upc \notin {"locked", "stamped"}
        /\ \A q \in Readers : /\ pc'[q] = IF q = r THEN "format" ELSE pc[q]
                              /\ raw_gen'[q] = IF q = r THEN gen ELSE raw_gen[q]
                              /\ raw_time'[q] = IF q = r THEN last_update ELSE raw_time[q]
    BY <1>24 DEF Regrab, Goto, TypeOK, SpinInv
  <2>4. SpinInv' /\ OpenInv' /\ NoLostWakeup'
    BY <2>3 DEF SpinInv, OpenInv, NoLostWakeup, NeedsRefresh, sensorVars, fileVars
  <2>5. TimeInv'
    <3>1. last_update <= last_update
      BY DEF TypeOK
    <3> QED BY <2>3, <3>1 DEF TimeInv, sensorVars, fileVars
  <2>6. StampInv'
    <3>1. Stamped = gen /\ Stamped' = gen /\ gen \in Nat
      BY <2>3 DEF Stamped, TypeOK, sensorVars
    <3> QED BY <2>3, <3>1 DEF StampInv, sensorVars, fileVars
  <2> QED BY <2>1, <2>2, <2>4, <2>5, <2>6
<1>25. ASSUME NEW r \in Readers, Format(r) PROVE IInv'
  <2>1. SemInv'
    BY <1>25, SemStay DEF Format, Goto, Holding, PC
  <2>2. TypeOK'
    BY <1>25 DEF Format, Goto, TypeOK, PC, sensorVars, callVars, rawVars
  <2> DEFINE f == FileOf[r]
  <2>3. /\ UNCHANGED <<sensorVars, opened, wq, rawVars>>
        /\ pc[r] = "format"
        /\ \A q \in Readers : pc'[q] = IF q = r THEN "copy" ELSE pc[q]
        /\ \A g \in Files :
             /\ buf_gen'[g] = IF g = f THEN raw_gen[r] ELSE buf_gen[g]
             /\ buf_timestamp'[g] = IF g = f THEN raw_time[r] ELSE buf_timestamp[g]
    BY <1>25 DEF Format, Goto, TypeOK
  <2>4. \A q \in Readers : (q # r /\ pc[q] \in {"regrab", "format"}) => FileOf[q] # f
    BY <2>3 DEF SemInv, Holding
  <2>5. SpinInv' /\ OpenInv'
    BY <2>3 DEF SpinInv, OpenInv, sensorVars
  <2>6. StampInv'
    BY <2>3 DEF StampInv, Stamped, sensorVars, rawVars
  <2>7. TimeInv'
    BY <2>3, <2>4 DEF TimeInv, sensorVars, rawVars
  <2>8. NoLostWakeup'
    <3>1. NeedsRefresh(f)
      BY <2>3 DEF TimeInv, NeedsRefresh, TypeOK
    <3> QED BY <2>3, <3>1 DEF NoLostWakeup, NeedsRefresh, sensorVars
  <2> QED BY <2>1, <2>2, <2>5, <2>6, <2>7, <2>8
<1>26. CASE UNCHANGED vars
  BY <1>26 DEF vars, sensorVars, fileVars, callVars, rawVars, TypeOK, SpinInv, SemInv,
             OpenInv, TimeInv, StampInv, Stamped, NoLostWakeup, NeedsRefresh
<1> QED
  BY <1>1, <1>2, <1>3, <1>4, <1>5, <1>6, <1>7, <1>8, <1>9, <1>10, <1>11, <1>12, <1>13, <1>14,
     <1>15, <1>16, <1>17, <1>18, <1>19, <1>20, <1>21, <1>22, <1>23, <1>24, <1>25, <1>26 DEF Next, Update, Reader, ThreadStep

\* The initial state - zeroed pages, nothing open - satisfies it.
LEMMA Initial == Init => IInv
<1> SUFFICES ASSUME Init PROVE IInv
  OBVIOUS
<1> USE ConstantsAssumption DEF Init
<1>1. TypeOK
  <2>1. values \in Raw
    BY ConstantsAssumption DEF Init
  <2>2. 0 \in 0..MaxUpdates
    BY ConstantsAssumption
  <2> QED BY <2>1, <2>2 DEF TypeOK, PC
<1>2. SpinInv /\ SemInv /\ OpenInv /\ NoLostWakeup
  BY DEF SpinInv, SemInv, OpenInv, NoLostWakeup, Holding
<1>3. TimeInv /\ StampInv
  BY DEF TimeInv, StampInv, Stamped
<1> QED BY <1>1, <1>2, <1>3 DEF IInv

\* The inductive invariant holds in every reachable state.
LEMMA Always == Spec => []IInv
BY Initial, Inductive, PTL DEF Spec

-----------------------------------------------------------------------------
\* Type correctness of lunix_sensor_update, lunix_chrdev_read and
\* lunix_chrdev_ioctl: among others, a semaphore never counts above one.
THEOREM TypeCorrect == Spec => []TypeOK
BY Always, PTL DEF IInv

\* At any time at most one thread is between down_interruptible and up of an
\* open file, and the semaphore is free when none is.
THEOREM SemaphoreCorrect == Spec => []SemaphoreInv
<1>1. IInv => SemaphoreInv
  <2> SUFFICES ASSUME IInv, NEW f \in Files
               PROVE  /\ sem[f] = 1 => Users(f) = {}
                      /\ sem[f] = 0 => \E r \in Readers : Users(f) = {r}
    BY DEF SemaphoreInv
  <2>1. sem[f] = 1 => Users(f) = {}
    BY DEF IInv, SemInv, Users
  <2>2. ASSUME sem[f] = 0 PROVE \E r \in Readers : Users(f) = {r}
    <3>1. PICK r \in Readers : FileOf[r] = f /\ pc[r] \in Holding
      BY <2>2 DEF IInv, SemInv
    <3>2. Users(f) = {r}
      BY <3>1 DEF IInv, SemInv, Users
    <3> QED BY <3>2
  <2> QED BY <2>1, <2>2
<1> QED BY <1>1, Always, PTL

\* The cached text and its timestamp always come from one and the same update.
THEOREM SnapshotCorrect == Spec => []SnapshotInv
<1>1. IInv => SnapshotInv
  BY DEF IInv, StampInv, SnapshotInv
<1> QED BY <1>1, Always, PTL

\* No thread sleeps through the update it is waiting for.
THEOREM WakeupCorrect == Spec => []NoLostWakeup
BY Always, PTL DEF IInv

\* A thread that lunix_sensor_update has left asleep has missed at most
\* measurements of the very second its file has one of.
THEOREM FreshnessCorrect == Spec => []MissesOnlySameSecond
<1>1. IInv => MissesOnlySameSecond
  <2> SUFFICES ASSUME IInv, NEW r \in Readers,
                      pc[r] = "asleep", r \in wq, upc = "idle"
               PROVE  stamp[buf_gen[FileOf[r]]] = stamp[gen]
    BY DEF MissesOnlySameSecond
  <2>1. FileOf[r] \in Files
    BY ConstantsAssumption
  <2>2. buf_timestamp[FileOf[r]] = last_update
    BY DEF IInv, NoLostWakeup, NeedsRefresh
  <2>3. last_update = stamp[gen]
    BY DEF IInv, StampInv, Stamped
  <2> QED BY <2>1, <2>2, <2>3 DEF IInv, StampInv
<1> QED BY <1>1, Always, PTL
-----------------------------------------------------------------------------
(* The driver implements SensorFeed *)

\* A thread that is about to write a text into the cache has a newer measurement
\* than the cache.
NewerInv ==
  \A r \in Readers : pc[r] = "format" => buf_gen[FileOf[r]] < raw_gen[r]

\* A step neither of the four kinds that follow changes what the sensor has
\* published, what a file has taken up or what a thread has read to be taken up.
Quiet ==
  /\ Stamped' = Stamped /\ buf_gen' = buf_gen /\ raw_gen' = raw_gen
  /\ \A r \in Readers : pc'[r] = "format" => pc[r] = "format"

\* Only the stamping of an update, the opening of a file, the second grab and the
\* formatting are seen from outside.
LEMMA StepKinds ==
  ASSUME IInv, [Next]_vars
  PROVE  \/ UpdateStamp \/ \E f \in Files : lunix_chrdev_open(f)
         \/ \E r \in Readers : Regrab(r) \/ Format(r)
         \/ Quiet
<1> USE DEF Quiet
<1>1. pc \in [Readers -> PC] /\ gen \in Nat
  BY ConstantsAssumption DEF IInv, TypeOK
<1>2. ASSUME UNCHANGED <<sensorVars, buf_gen, raw_gen>>,
             pc' = pc \/ \E r \in Readers, l \in PC \ {"format"} : pc' = [pc EXCEPT ![r] = l]
      PROVE  Quiet
  BY <1>1, <1>2 DEF Stamped, sensorVars
<1>3. CASE Tick
  BY <1>3 DEF Tick, Stamped, fileVars, rawVars
<1>4. CASE Update
  <2>1. ASSUME NEW v \in Raw, UpdateLock(v) PROVE Quiet
    <3>1. upc = "idle" /\ upc' = "locked" /\ gen' = gen + 1 /\ gen' - 1 = gen
      BY <1>1, <2>1 DEF UpdateLock
    <3> QED BY <2>1, <3>1 DEF UpdateLock, Stamped, fileVars, rawVars
  <2>2. CASE UpdateUnlock
    BY <2>2 DEF UpdateUnlock, Stamped, fileVars, rawVars
  <2>3. CASE WakeUp
    BY <2>3 DEF WakeUp, Stamped, fileVars, rawVars
  <2> QED BY <1>4, <2>1, <2>2, <2>3 DEF Update
<1>5. ASSUME NEW f \in Files, lunix_chrdev_release(f) PROVE Quiet
  BY <1>2, <1>5 DEF lunix_chrdev_release, bufVars, rawVars
<1>6. ASSUME NEW r \in Readers, Reader(r), ~Regrab(r), ~Format(r) PROVE Quiet
  <2>1. /\ UNCHANGED <<sensorVars, buf_gen, raw_gen>>
        /\ \E l \in PC \ {"format"} : pc' = [pc EXCEPT ![r] = l]
    <3>1. CASE SysReadExit(r) \/ Down(r) \/ Grab(r) \/ Check(r)
      BY <3>1 DEF SysReadExit, Down, Grab, Check, Goto, PC, fileVars, bufVars, rawVars
    <3>2. CASE Enqueue(r) \/ TestCondition(r) \/ Resume(r) \/ DownAgain(r)
      BY <3>2 DEF Enqueue, TestCondition, Resume, DownAgain, Goto, PC, fileVars, bufVars, rawVars
    <3>3. CASE Copy(r) \/ IoctlDown(r) \/ IoctlUp(r) \/ CopyFault(r)
      BY <3>3 DEF Copy, IoctlDown, IoctlUp, CopyFault, Goto, PC, fileVars, bufVars, rawVars
    <3>4. CASE DownInterrupted(r) \/ SleepInterrupted(r) \/ SysIoctl(r)
      BY <3>4 DEF DownInterrupted, SleepInterrupted, SysIoctl, Goto, PC, fileVars, bufVars, rawVars
    <3>5. ASSUME NEW c \in Counts, SysRead(r, c)
          PROVE  /\ UNCHANGED <<sensorVars, buf_gen, raw_gen>>
                 /\ \E l \in PC \ {"format"} : pc' = [pc EXCEPT ![r] = l]
      BY <3>5 DEF SysRead, Goto, PC, fileVars, bufVars, rawVars
    <3> QED BY <1>6, <3>1, <3>2, <3>3, <3>4, <3>5 DEF Reader, ThreadStep
  <2> QED BY <1>2, <2>1
<1>7. CASE UNCHANGED vars
  BY <1>2, <1>7 DEF vars, fileVars, rawVars
<1> QED BY <1>3, <1>4, <1>5, <1>6, <1>7 DEF Next, Update

\* The two locked accesses of lunix_chrdev_state_update and the test between them:
\* whoever has passed the test reads a measurement the file has not.
LEMMA NewerNext == IInv /\ NewerInv /\ [Next]_vars => NewerInv'
<1> SUFFICES ASSUME IInv, NewerInv, [Next]_vars PROVE NewerInv'
  OBVIOUS
<1>t. /\ pc \in [Readers -> PC] /\ FileOf \in [Readers -> Files] /\ gen \in 0..MaxUpdates
      /\ buf_gen \in [Files -> 0..MaxUpdates] /\ raw_gen \in [Readers -> 0..MaxUpdates]
  BY ConstantsAssumption DEF IInv, TypeOK
<1>1. CASE UpdateStamp
  BY <1>1 DEF UpdateStamp, NewerInv, fileVars, rawVars
<1>2. ASSUME NEW f \in Files, lunix_chrdev_open(f) PROVE NewerInv'
  <2>1. \A r \in Readers : FileOf[r] = f => pc[r] # "format"
    BY <1>2 DEF lunix_chrdev_open, IInv, OpenInv
  <2> QED BY <1>2, <1>t, <2>1 DEF lunix_chrdev_open, NewerInv, rawVars
<1>3. ASSUME NEW r \in Readers, Regrab(r) PROVE NewerInv'
  <2>1. upc # "locked" /\ buf_gen[FileOf[r]] <= gen
    BY <1>3, <1>t DEF Regrab, IInv, SpinInv, StampInv, Stamped
  <2>2. buf_gen[FileOf[r]] # gen
    <3>1. FileOf[r] \in Files /\ buf_timestamp[FileOf[r]] < last_update
      BY <1>3, <1>t DEF Regrab, IInv, TimeInv
    <3>2. last_update = stamp[gen] /\ buf_timestamp[FileOf[r]] = stamp[buf_gen[FileOf[r]]]
      BY <2>1, <3>1 DEF IInv, StampInv, Stamped
    <3>3. last_update \in Nat /\ buf_timestamp[FileOf[r]] \in Nat
      BY <3>1 DEF IInv, TypeOK
    <3> QED BY <3>1, <3>2, <3>3
  <2>3. buf_gen[FileOf[r]] < gen
    BY <1>t, <2>1, <2>2
  <2> QED BY <1>3, <1>t, <2>3 DEF Regrab, Goto, NewerInv, fileVars
<1>4. ASSUME NEW r \in Readers, Format(r) PROVE NewerInv'
  <2>1. \A q \in Readers : q # r /\ pc[q] = "format" => FileOf[q] # FileOf[r]
    BY <1>4 DEF Format, IInv, SemInv, Holding
  <2> QED BY <1>4, <1>t, <2>1 DEF Format, Goto, NewerInv, rawVars
<1>5. CASE Quiet
  BY <1>5 DEF Quiet, NewerInv
<1> QED BY <1>1, <1>2, <1>3, <1>4, <1>5, StepKinds

\* Seen from outside, the driver is the feed of SensorFeed: no half-written
\* measurement is taken up and none that is older than the one before.
THEOREM FeedCorrect == Spec => ImplementsFeed
<1>1. Init => Feed!FeedInit
  BY DEF Init, Feed!FeedInit
<1>2. Init => NewerInv
  BY DEF Init, NewerInv
<1>3. IInv /\ NewerInv /\ [Next]_vars => [Feed!FeedNext]_(Feed!feedVars)
  <2> SUFFICES ASSUME IInv, NewerInv, [Next]_vars
               PROVE  Feed!FeedNext \/ UNCHANGED Feed!feedVars
    OBVIOUS
  <2>t. /\ FileOf \in [Readers -> Files] /\ gen \in Nat
        /\ buf_gen \in [Files -> Nat] /\ raw_gen \in [Readers -> Nat]
    BY ConstantsAssumption DEF IInv, TypeOK
  <2>1. CASE UpdateStamp
    <3>1. upc = "locked" /\ upc' = "stamped" /\ gen' = gen /\ buf_gen' = buf_gen
      BY <2>1 DEF UpdateStamp, fileVars
    <3>2. Feed!Publish
      BY <2>t, <3>1 DEF Feed!Publish
    <3> QED BY <3>2 DEF Feed!FeedNext
  <2>2. ASSUME NEW f \in Files, lunix_chrdev_open(f) PROVE Feed!FeedNext
    <3>1. upc' = upc /\ gen' = gen /\ buf_gen' = [buf_gen EXCEPT ![f] = 0]
      BY <2>2 DEF lunix_chrdev_open, sensorVars
    <3>2. Feed!Open(f)
      BY <3>1 DEF Feed!Open
    <3> QED BY <3>2 DEF Feed!FeedNext
  <2>3. ASSUME NEW r \in Readers, Regrab(r) PROVE UNCHANGED Feed!feedVars
    BY <2>3 DEF Regrab, Feed!feedVars, sensorVars, fileVars
  <2>4. ASSUME NEW r \in Readers, Format(r) PROVE Feed!FeedNext
    <3> DEFINE f == FileOf[r]
    <3>1. /\ pc[r] = "format" /\ upc' = upc /\ gen' = gen
          /\ buf_gen' = [buf_gen EXCEPT ![f] = raw_gen[r]]
      BY <2>4 DEF Format, sensorVars
    <3>2. f \in Files /\ buf_gen[f] < raw_gen[r] /\ raw_gen[r] <= Stamped
      BY <2>t, <3>1 DEF NewerInv, IInv, StampInv
    <3>3. Stamped \in Int
      BY <2>t DEF Stamped
    <3>4. raw_gen[r] \in (buf_gen[f] + 1)..Stamped
      BY <2>t, <3>2, <3>3
    <3>5. Feed!TakeUp(f)
      BY <3>1, <3>4 DEF Feed!TakeUp, Stamped
    <3> QED BY <3>2, <3>5 DEF Feed!FeedNext
  <2>5. CASE Quiet
    BY <2>5 DEF Quiet, Stamped, Feed!feedVars
  <2> QED BY <2>1, <2>2, <2>3, <2>4, <2>5, StepKinds
<1> QED BY <1>1, <1>2, <1>3, Always, NewerNext, PTL DEF Spec, ImplementsFeed, Feed!FeedSpec
=============================================================================
