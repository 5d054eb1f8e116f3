----------------------------- MODULE LunixChrdev -----------------------------
(***************************************************************************)
(* One Lunix:TNG sensor and the open files of its character device:        *)
(* lunix-sensors.c and lunix-chrdev.c of OSLab/lunix/lunix.                *)
(*                                                                         *)
(* The sensor is written by lunix_sensor_update, which runs in the TTY     *)
(* receive path; reader threads run lunix_chrdev_read and                  *)
(* lunix_chrdev_ioctl.  Several threads may use one open file.  A step of  *)
(* the model is what a thread does between two points at which another     *)
(* thread can observe or disturb it: taking a lock, an unlocked access to  *)
(* shared data, going to sleep.                                            *)
(*                                                                         *)
(* The three measurements of a sensor share its lock, its wait queue and   *)
(* the time of update, so one of them stands for all.  A raw value is told *)
(* apart by the length of the text it is formatted to; the bytes of a text *)
(* are told apart by the update that produced them (a ghost number, gen).  *)
(***************************************************************************)
EXTENDS Naturals, FiniteSets

CONSTANTS
  Readers,       \* threads that issue read() and ioctl()
  Files,         \* open files of the device node
  FileOf,        \* the file each thread uses
  Raw,           \* raw 16-bit values the sensor reports
  TextLen,       \* length of the text lookup_*[] and snprintf make of each
  Counts,        \* byte counts passed to read()
  MaxUpdates,    \* bound on the number of sensor updates
  MaxSeconds     \* bound on the wall clock

ASSUME ConstantsAssumption ==
  /\ FileOf \in [Readers -> Files]
  /\ Raw # {}
  /\ TextLen \in [Raw -> Nat \ {0}]
  /\ Counts \subseteq Nat
  /\ MaxUpdates \in Nat
  /\ MaxSeconds \in Nat

VARIABLES
  clock,          \* get_seconds()
  values,         \* msr_data[]->values[0]
  gen,            \* ghost: number of the update that wrote values
  last_update,    \* msr_data[]->last_update
  stamp,          \* ghost: the second in which each update was stamped
  slock,          \* sensor->lock held by the updater?
  upc,            \* where lunix_sensor_update stands
  wq,             \* sensor->wq: the threads enqueued on it
  opened,         \* files that are open
  sem,            \* state->lock of each file
  f_pos,          \* filp->f_pos
  buf_lim,        \* state->buf_lim
  buf_gen,        \* ghost: the update whose text is in buf_data
  buf_timestamp,  \* state->buf_timestamp
  pc,             \* where each thread stands
  pos,            \* the system call's copy of f_pos
  cnt,            \* the byte count of the call
  raw_val, raw_gen, raw_time   \* locals of lunix_chrdev_state_update

sensorVars == <<clock, values, gen, last_update, stamp, slock, upc>>
fileVars   == <<opened, sem, f_pos, buf_lim, buf_gen, buf_timestamp>>
bufVars    == <<buf_lim, buf_gen, buf_timestamp>>
rawVars    == <<raw_val, raw_gen, raw_time>>
callVars   == <<pos, cnt>>
vars == <<sensorVars, wq, fileVars, pc, callVars, rawVars>>

PC == {"idle", "down", "grab", "check", "regrab", "format", "copy", "exit",
       "wait", "cond", "asleep", "redown", "io_down", "io_up"}

\* The points of lunix_chrdev_read and lunix_chrdev_ioctl at which the thread
\* has gone through down_interruptible and not yet through up.
Holding == {"grab", "check", "regrab", "format", "copy", "io_up"}

\* Type invariant; in particular up() never makes a file's semaphore count two.
TypeOK ==
  /\ clock \in Nat /\ last_update \in Nat
  /\ values \in Raw
  /\ gen \in 0..MaxUpdates
  /\ stamp \in [0..MaxUpdates -> Nat]
  /\ slock \in BOOLEAN
  /\ upc \in {"idle", "locked", "stamped", "wake"}
  /\ wq \subseteq Readers
  /\ opened \subseteq Files
  /\ sem \in [Files -> {0, 1}]
  /\ f_pos \in [Files -> Nat]
  /\ buf_lim \in [Files -> Nat]
  /\ buf_gen \in [Files -> 0..MaxUpdates]
  /\ buf_timestamp \in [Files -> Nat]
  /\ pc \in [Readers -> PC]
  /\ pos \in [Readers -> Nat]
  /\ cnt \in [Readers -> Nat]
  /\ raw_val \in [Readers -> Raw]
  /\ raw_gen \in [Readers -> 0..MaxUpdates]
  /\ raw_time \in [Readers -> Nat]

\* get_zeroed_page and kzalloc: everything starts at zero; the clock does not.
Init ==
  /\ clock = 1 /\ last_update = 0 /\ gen = 0
  /\ stamp = [g \in 0..MaxUpdates |-> 0]
  /\ values = CHOOSE v \in Raw : TRUE
  /\ slock = FALSE /\ upc = "idle" /\ wq = {}
  /\ opened = {}
  /\ sem = [f \in Files |-> 1]
  /\ f_pos = [f \in Files |-> 0]
  /\ buf_lim = [f \in Files |-> 0]
  /\ buf_gen = [f \in Files |-> 0]
  /\ buf_timestamp = [f \in Files |-> 0]
  /\ pc = [r \in Readers |-> "idle"]
  /\ pos = [r \in Readers |-> 0]
  /\ cnt = [r \in Readers |-> 0]
  /\ raw_val = [r \in Readers |-> values]
  /\ raw_gen = [r \in Readers |-> 0]
  /\ raw_time = [r \in Readers |-> 0]

-----------------------------------------------------------------------------
(* The clock and lunix_sensor_update *)

Tick ==
  /\ clock < MaxSeconds
  /\ clock' = clock + 1
  /\ UNCHANGED <<values, gen, last_update, stamp, slock, upc>>
  /\ UNCHANGED <<wq, fileVars, pc, callVars, rawVars>>

\* spin_lock and the stores of the three values.
UpdateLock(v) ==
  /\ upc = "idle" /\ gen < MaxUpdates
  /\ slock' = TRUE
  /\ values' = v
  /\ gen' = gen + 1
  /\ upc' = "locked"
  /\ UNCHANGED <<clock, last_update, stamp>>
  /\ UNCHANGED <<wq, fileVars, pc, callVars, rawVars>>

\* last_update = get_seconds(), still under the lock.
UpdateStamp ==
  /\ upc = "locked"
  /\ last_update' = clock
  /\ stamp' = [stamp EXCEPT ![gen] = clock]
  /\ upc' = "stamped"
  /\ UNCHANGED <<clock, values, gen, slock>>
  /\ UNCHANGED <<wq, fileVars, pc, callVars, rawVars>>

UpdateUnlock ==
  /\ upc = "stamped"
  /\ slock' = FALSE
  /\ upc' = "wake"
  /\ UNCHANGED <<clock, values, gen, last_update, stamp>>
  /\ UNCHANGED <<wq, fileVars, pc, callVars, rawVars>>

\* wake_up_interruptible: every sleeper is made runnable and taken off the queue.
WakeUp ==
  /\ upc = "wake"
  /\ wq' = {}
  /\ upc' = "idle"
  /\ UNCHANGED <<clock, values, gen, last_update, stamp, slock>>
  /\ UNCHANGED <<fileVars, pc, callVars, rawVars>>

Update == (\E v \in Raw : UpdateLock(v)) \/ UpdateStamp \/ UpdateUnlock \/ WakeUp

-----------------------------------------------------------------------------
(* open and release *)

lunix_chrdev_open(f) ==
  /\ f \notin opened
  /\ opened' = opened \cup {f}
  /\ sem' = [sem EXCEPT ![f] = 1]
  /\ f_pos' = [f_pos EXCEPT ![f] = 0]
  /\ buf_lim' = [buf_lim EXCEPT ![f] = 0]
  /\ buf_gen' = [buf_gen EXCEPT ![f] = 0]
  /\ buf_timestamp' = [buf_timestamp EXCEPT ![f] = 0]
  /\ UNCHANGED <<sensorVars, wq, pc, callVars, rawVars>>

\* The kernel calls release when no system call uses the file any more.
lunix_chrdev_release(f) ==
  /\ f \in opened
  /\ \A r \in Readers : FileOf[r] = f => pc[r] = "idle"
  /\ opened' = opened \ {f}
  /\ UNCHANGED <<sem, f_pos, bufVars>>
  /\ UNCHANGED <<sensorVars, wq, pc, callVars, rawVars>>

-----------------------------------------------------------------------------
(* lunix_chrdev_read *)

Goto(r, l) == pc' = [pc EXCEPT ![r] = l]

\* lunix_chrdev_state_needs_refresh
NeedsRefresh(f) == buf_timestamp[f] # last_update

\* The read system call copies filp->f_pos, calls the driver with the address
\* of the copy, and stores the copy back when the driver returns no error.
\* A device file has no lock around this.
SysRead(r, c) ==
  /\ pc[r] = "idle" /\ FileOf[r] \in opened
  /\ pos' = [pos EXCEPT ![r] = f_pos[FileOf[r]]]
  /\ cnt' = [cnt EXCEPT ![r] = c]
  /\ Goto(r, "down")
  /\ UNCHANGED <<sensorVars, wq, fileVars, rawVars>>

SysReadExit(r) ==
  /\ pc[r] = "exit"
  /\ f_pos' = [f_pos EXCEPT ![FileOf[r]] = pos[r]]
  /\ Goto(r, "idle")
  /\ UNCHANGED <<opened, sem, bufVars, sensorVars, wq, pos, cnt, rawVars>>

TakeSem(r) ==
  /\ sem[FileOf[r]] = 1
  /\ sem' = [sem EXCEPT ![FileOf[r]] = 0]

ReleaseSem(r) == sem' = [sem EXCEPT ![FileOf[r]] = @ + 1]

\* Mutant of Down: the semaphore is decremented without waiting for it.
Down_NoWait(r) ==
  /\ pc[r] = "down"
  /\ sem' = [sem EXCEPT ![FileOf[r]] = 0]
  /\ Goto(r, IF pos[r] = 0 THEN "grab" ELSE "copy")
  /\ UNCHANGED <<opened, f_pos, bufVars, sensorVars, wq, callVars, rawVars>>

Down(r) ==
  /\ pc[r] = "down"
  /\ TakeSem(r)
  /\ Goto(r, IF pos[r] = 0 THEN "grab" ELSE "copy")
  /\ UNCHANGED <<opened, f_pos, bufVars, sensorVars, wq, callVars, rawVars>>

\* A signal arrives while the thread waits in one of the down_interruptible
\* calls: the call returns -ERESTARTSYS and the semaphore is not touched.
DownInterrupted(r) ==
  /\ pc[r] \in {"down", "redown", "io_down"}
  /\ sem[FileOf[r]] = 0
  /\ Goto(r, "idle")
  /\ UNCHANGED <<sensorVars, wq, fileVars, callVars, rawVars>>

\* lunix_chrdev_state_update: the first locked access.  What it reads is
\* overwritten or dropped, but it waits for the spinlock.
Grab(r) ==
  /\ pc[r] = "grab" /\ ~slock
  /\ Goto(r, "check")
  /\ UNCHANGED <<sensorVars, wq, fileVars, callVars, rawVars>>

\* Mutant of Check: the thread goes to sleep with the semaphore held.
Check_NoUp(r) ==
  /\ pc[r] = "check"
  /\ Goto(r, IF NeedsRefresh(FileOf[r]) THEN "regrab" ELSE "wait")
  /\ UNCHANGED <<sensorVars, wq, fileVars, callVars, rawVars>>

\* The unlocked needs_refresh; -EAGAIN makes lunix_chrdev_read release the
\* semaphore and go to sleep.
Check(r) ==
  /\ pc[r] = "check"
  /\ \/ /\ NeedsRefresh(FileOf[r])
        /\ Goto(r, "regrab")
        /\ UNCHANGED sem
     \/ /\ ~NeedsRefresh(FileOf[r])
        /\ ReleaseSem(r)
        /\ Goto(r, "wait")
  /\ UNCHANGED <<opened, f_pos, bufVars, sensorVars, wq, callVars, rawVars>>

\* Mutants of Regrab: without the spinlock; with the time of the grab.
Regrab_NoLock(r) ==
  /\ pc[r] = "regrab"
  /\ raw_val' = [raw_val EXCEPT ![r] = values]
  /\ raw_gen' = [raw_gen EXCEPT ![r] = gen]
  /\ raw_time' = [raw_time EXCEPT ![r] = last_update]
  /\ Goto(r, "format")
  /\ UNCHANGED <<sensorVars, wq, fileVars, callVars>>

Regrab_Now(r) ==
  /\ pc[r] = "regrab" /\ ~slock
  /\ raw_val' = [raw_val EXCEPT ![r] = values]
  /\ raw_gen' = [raw_gen EXCEPT ![r] = gen]
  /\ raw_time' = [raw_time EXCEPT ![r] = clock]
  /\ Goto(r, "format")
  /\ UNCHANGED <<sensorVars, wq, fileVars, callVars>>

\* The second locked access reads value and time of one update.
Regrab(r) ==
  /\ pc[r] = "regrab" /\ ~slock
  /\ raw_val' = [raw_val EXCEPT ![r] = values]
  /\ raw_gen' = [raw_gen EXCEPT ![r] = gen]
  /\ raw_time' = [raw_time EXCEPT ![r] = last_update]
  /\ Goto(r, "format")
  /\ UNCHANGED <<sensorVars, wq, fileVars, callVars>>

\* Table lookup and snprintf into buf_data, under the semaphore only.
Format(r) ==
  LET f == FileOf[r] IN
  /\ pc[r] = "format"
  /\ buf_lim' = [buf_lim EXCEPT ![f] = TextLen[raw_val[r]]]
  /\ buf_gen' = [buf_gen EXCEPT ![f] = raw_gen[r]]
  /\ buf_timestamp' = [buf_timestamp EXCEPT ![f] = raw_time[r]]
  /\ Goto(r, "copy")
  /\ UNCHANGED <<opened, sem, f_pos, sensorVars, wq, callVars, rawVars>>

\* wait_event_interruptible(wq, needs_refresh): enqueue, then test, then sleep.
Enqueue(r) ==
  /\ pc[r] = "wait"
  /\ wq' = wq \cup {r}
  /\ Goto(r, "cond")
  /\ UNCHANGED <<sensorVars, fileVars, callVars, rawVars>>

\* Mutant of TestCondition: sleep without testing again after the enqueue.
TestCondition_Blind(r) ==
  /\ pc[r] = "cond"
  /\ Goto(r, "asleep")
  /\ UNCHANGED <<sensorVars, wq, fileVars, callVars, rawVars>>

TestCondition(r) ==
  /\ pc[r] = "cond"
  /\ \/ /\ NeedsRefresh(FileOf[r])
        /\ wq' = wq \ {r}
        /\ Goto(r, "redown")
     \/ /\ ~NeedsRefresh(FileOf[r])
        /\ Goto(r, "asleep")
        /\ UNCHANGED wq
  /\ UNCHANGED <<sensorVars, fileVars, callVars, rawVars>>

Resume(r) ==
  /\ pc[r] = "asleep" /\ r \notin wq
  /\ Goto(r, "wait")
  /\ UNCHANGED <<sensorVars, wq, fileVars, callVars, rawVars>>

SleepInterrupted(r) ==
  /\ pc[r] = "asleep"
  /\ wq' = wq \ {r}
  /\ Goto(r, "idle")
  /\ UNCHANGED <<sensorVars, fileVars, callVars, rawVars>>

\* After the sleep the loop takes the semaphore and tries the update again.
DownAgain(r) ==
  /\ pc[r] = "redown"
  /\ TakeSem(r)
  /\ Goto(r, "grab")
  /\ UNCHANGED <<opened, f_pos, bufVars, sensorVars, wq, callVars, rawVars>>

\* The number of bytes to copy.  The subtraction is done in size_t: past the
\* end of the text the count is a huge number and copy_to_user refuses it.
PastEnd(r) == pos[r] > buf_lim[FileOf[r]]

CopyCount(r) ==
  LET lim == buf_lim[FileOf[r]]
  IN  IF pos[r] + cnt[r] >= lim THEN lim - pos[r] ELSE cnt[r]

\* copy_to_user(usrbuf, state->buf_data, cnt), the new offset and the rewind.
Copy(r) ==
  LET end == pos[r] + CopyCount(r)
  IN
  /\ pc[r] = "copy" /\ ~PastEnd(r)
  /\ pos' = [pos EXCEPT ![r] = IF end = buf_lim[FileOf[r]] THEN 0 ELSE end]
  /\ ReleaseSem(r)
  /\ Goto(r, "exit")
  /\ UNCHANGED <<opened, f_pos, bufVars, sensorVars, wq, cnt, rawVars>>

\* Mutant of CopyFault: return without going through out:.
CopyFault_NoUp(r) ==
  /\ pc[r] = "copy"
  /\ Goto(r, "idle")
  /\ UNCHANGED <<sensorVars, wq, fileVars, callVars, rawVars>>

\* -EFAULT: the user's buffer is not writable, or the count is out of range.
CopyFault(r) ==
  /\ pc[r] = "copy"
  /\ ReleaseSem(r)
  /\ Goto(r, "idle")
  /\ UNCHANGED <<opened, f_pos, bufVars, sensorVars, wq, callVars, rawVars>>

-----------------------------------------------------------------------------
(* lunix_chrdev_ioctl with LUNIX_IOC_EXAMPLE; other commands change nothing *)

SysIoctl(r) ==
  /\ pc[r] = "idle" /\ FileOf[r] \in opened
  /\ Goto(r, "io_down")
  /\ UNCHANGED <<sensorVars, wq, fileVars, callVars, rawVars>>

IoctlDown(r) ==
  /\ pc[r] = "io_down"
  /\ TakeSem(r)
  /\ Goto(r, "io_up")
  /\ UNCHANGED <<opened, f_pos, bufVars, sensorVars, wq, callVars, rawVars>>

IoctlUp(r) ==
  /\ pc[r] = "io_up"
  /\ ReleaseSem(r)
  /\ Goto(r, "idle")
  /\ UNCHANGED <<opened, f_pos, bufVars, sensorVars, wq, callVars, rawVars>>

-----------------------------------------------------------------------------
\* What a thread does by itself once it is inside a system call.
ThreadStep(r) ==
  \/ SysReadExit(r) \/ Down(r) \/ Grab(r) \/ Check(r) \/ Regrab(r)
  \/ Format(r) \/ Enqueue(r) \/ TestCondition(r) \/ Resume(r) \/ DownAgain(r)
  \/ Copy(r) \/ IoctlDown(r) \/ IoctlUp(r)

Reader(r) ==
  \/ ThreadStep(r) \/ DownInterrupted(r) \/ SleepInterrupted(r)
  \/ CopyFault(r) \/ SysIoctl(r) \/ \E c \in Counts : SysRead(r, c)

Next ==
  \/ Tick \/ Update
  \/ \E f \in Files : lunix_chrdev_open(f) \/ lunix_chrdev_release(f)
  \/ \E r \in Readers : Reader(r)

Spec == Init /\ [][Next]_vars

\* A runnable thread is eventually scheduled, and semaphore and spinlock are
\* handed over in arrival order, so that a thread that can go on again and again
\* does; an update that has begun runs to its end.  Nothing is assumed
\* of the arrival of updates, of the clock, of signals or of user calls.
Fairness ==
  /\ \A r \in Readers : SF_vars(ThreadStep(r) \/ CopyFault(r))
  /\ WF_vars(UpdateStamp \/ UpdateUnlock \/ WakeUp)

FairSpec == Spec /\ Fairness
-----------------------------------------------------------------------------
(* Properties *)

Users(f) == {r \in Readers : FileOf[r] = f /\ pc[r] \in Holding}

\* The state semaphore (lunix_chrdev_read, lunix_chrdev_ioctl) admits one
\* thread at a time to the state of an open file, and every way out of the
\* two functions - success, -EFAULT, a signal, the sleep inside the loop -
\* gives it back exactly once.
SemaphoreInv ==
  \A f \in Files : /\ sem[f] = 1 => Users(f) = {}
                   /\ sem[f] = 0 => \E r \in Readers : Users(f) = {r}

\* lunix_chrdev_state_update takes value and time of ONE update, whatever
\* lunix_sensor_update does meanwhile: the text in buf_data belongs to the
\* update that was stamped buf_timestamp.
SnapshotInv ==
  /\ \A f \in Files : buf_timestamp[f] = stamp[buf_gen[f]]
  /\ \A r \in Readers : pc[r] = "format" => raw_time[r] = stamp[raw_gen[r]]

\* wait_event_interruptible in lunix_chrdev_read against the stores and the
\* wake_up_interruptible of lunix_sensor_update: a thread asleep on the queue
\* while its condition is true still has that wake-up to come.
NoLostWakeup ==
  \A r \in Readers :
    (pc[r] = "asleep" /\ r \in wq /\ NeedsRefresh(FileOf[r]))
       => upc \in {"stamped", "wake"}

\* "wake up any sleepers who may be waiting on fresh data from this sensor"
\* (lunix-sensors.c:91), as far as it goes: freshness is told by the second of
\* the update, so when no update is in progress a thread left asleep misses a
\* measurement only if it came in the very second of the one its file has.
MissesOnlySameSecond ==
  \A r \in Readers :
    (pc[r] = "asleep" /\ r \in wq /\ upc = "idle")
       => stamp[buf_gen[FileOf[r]]] = stamp[gen]

\* A thread asleep in lunix_chrdev_read while a measurement with a new
\* timestamp is there gets through its read() call (data, or an error), or
\* another thread of the same file has taken the measurement up.
SleeperServed ==
  \A r \in Readers :
    (pc[r] = "asleep" /\ NeedsRefresh(FileOf[r]))
      ~> (pc[r] \in {"exit", "idle"} \/ ~NeedsRefresh(FileOf[r]))

\* No thread keeps the semaphore of an open file for good: not asleep, not
\* waiting for the spinlock, not on an error path.
SemaphoreFreed == \A f \in Files : sem[f] = 0 ~> sem[f] = 1

\* Seen from outside, the driver is a feed of measurements (module SensorFeed):
\* the refresh in lunix_chrdev_state_update never takes up a measurement that
\* is only half written, and never an older one than the file already had, even
\* with several threads refreshing one open file.
Feed == INSTANCE SensorFeed WITH
          published <- IF upc = "locked" THEN gen - 1 ELSE gen,
          seen <- buf_gen

ImplementsFeed == Feed!FeedSpec
=============================================================================
