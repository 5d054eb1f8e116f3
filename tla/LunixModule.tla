----------------------------- MODULE LunixModule -----------------------------
(***************************************************************************)
(* Loading and unloading of the Lunix:TNG kernel module: lunix-module.c    *)
(* with lunix_sensor_init and lunix_sensor_destroy (lunix-sensors.c),      *)
(* lunix_ldisc_init/_destroy (lunix-ldisc.c) and lunix_chrdev_init/_destroy *)
(* (lunix-chrdev.c).  Every allocation and every registration may fail.    *)
(* A TTY may set the discipline as soon as it is registered, the module    *)
(* still loading or not; as long as a TTY has it, tty_unregister_ldisc     *)
(* returns -EBUSY, and lunix_ldisc_destroy does not look at that.          *)
(***************************************************************************)
EXTENDS Integers

CONSTANTS
  SensorCnt,    \* lunix_sensor_cnt
  N_LUNIX_MSR,  \* measurements, and pages, per sensor
  MaxLoads      \* bound on the number of insmod attempts

ASSUME ModuleAssumption ==
  /\ SensorCnt \in Nat
  /\ N_LUNIX_MSR \in Nat \ {0}
  /\ MaxLoads \in Nat

VARIABLES
  pc,        \* where module init or cleanup stands
  loads,     \* number of insmod attempts
  sensors,   \* is the lunix_sensors array allocated?
  si_done,   \* index of the last initialised sensor
  pages,     \* pages held by each sensor of the array
  lost,      \* the pages no pointer leads to any more
  parser,    \* has lunix_protocol_init run in this load?
  ldisc,     \* is the line discipline registered?
  tty,       \* has a TTY set the discipline?
  busy,      \* has tty_unregister_ldisc returned -EBUSY?
  region,    \* is the range of device numbers registered?
  cdev       \* is the character device added?

vars == <<pc, loads, sensors, si_done, pages, lost, parser, ldisc, tty, busy, region, cdev>>

Sensor == 0..(SensorCnt - 1)
NoPages == [s \in Sensor |-> 0]

\* A page, by the load it was allocated in, its sensor and its place there.
Page == [load : 1..MaxLoads, sensor : Sensor, msr : 1..N_LUNIX_MSR]

\* The pages of the sensors of the array.
Held == {p \in Page : p.load = loads /\ p.msr <= pages[p.sensor]}

\* Type invariant: lunix_sensor_init gives no sensor more pages than measurements.
TypeOK ==
  /\ pc \in {"unloaded", "alloc", "sensors", "ldisc", "region", "cdev", "loaded",
             "out_with_chrdev_region", "out_with_ldisc", "out_with_sensors",
             "exit_chrdev", "exit_ldisc", "exit_sensors"}
  /\ loads \in 0..MaxLoads
  /\ sensors \in BOOLEAN /\ parser \in BOOLEAN
  /\ ldisc \in BOOLEAN /\ tty \in BOOLEAN /\ busy \in BOOLEAN
  /\ region \in BOOLEAN /\ cdev \in BOOLEAN
  /\ si_done \in -1..(SensorCnt - 1)
  /\ pages \in [Sensor -> 0..N_LUNIX_MSR]
  /\ lost \subseteq Page

Init ==
  /\ pc = "unloaded" /\ loads = 0
  /\ sensors = FALSE /\ si_done = -1 /\ pages = NoPages /\ lost = {}
  /\ parser = FALSE /\ ldisc = FALSE /\ tty = FALSE /\ busy = FALSE
  /\ region = FALSE /\ cdev = FALSE

-----------------------------------------------------------------------------
(* lunix_module_init *)

\* A load that failed under a TTY leaves the kernel with a discipline in memory it
\* has freed: whatever is done then is undefined, and not modelled.
Insmod ==
  /\ pc = "unloaded" /\ loads < MaxLoads /\ ~busy
  /\ loads' = loads + 1
  /\ pc' = "alloc"
  /\ parser' = FALSE
  /\ UNCHANGED <<sensors, si_done, pages, lost, ldisc, region, cdev, tty, busy>>

\* kzalloc of the array, then lunix_protocol_init.
AllocSensors ==
  /\ pc = "alloc"
  /\ \/ /\ sensors' = TRUE /\ pages' = NoPages /\ si_done' = -1
        /\ parser' = TRUE
        /\ pc' = "sensors"
     \/ /\ pc' = "unloaded"
        /\ UNCHANGED <<sensors, si_done, pages, parser>>
  /\ UNCHANGED <<loads, lost, ldisc, region, cdev, tty, busy>>

\* One get_zeroed_page of lunix_sensor_init for sensor si_done + 1; the last one
\* ends the call.  A failure leaves the pages of this sensor where they are.
AllocPage ==
  LET s == si_done + 1 IN
  /\ pc = "sensors" /\ s < SensorCnt
  /\ \/ /\ pages' = [pages EXCEPT ![s] = @ + 1]
        /\ si_done' = IF pages[s] + 1 = N_LUNIX_MSR THEN s ELSE si_done
        /\ UNCHANGED pc
     \/ /\ pc' = "out_with_sensors"
        /\ UNCHANGED <<pages, si_done>>
  /\ UNCHANGED <<loads, sensors, lost, parser, ldisc, region, cdev, tty, busy>>

SensorsDone ==
  /\ pc = "sensors" /\ si_done = SensorCnt - 1
  /\ pc' = "ldisc"
  /\ UNCHANGED <<loads, sensors, si_done, pages, lost, parser, ldisc, region, cdev, tty, busy>>

\* lunix_ldisc_init: tty_register_ldisc.
lunix_ldisc_init ==
  /\ pc = "ldisc"
  /\ \/ ldisc' = TRUE /\ pc' = "region"
     \/ pc' = "out_with_sensors" /\ UNCHANGED ldisc
  /\ UNCHANGED <<loads, sensors, si_done, pages, lost, parser, region, cdev, tty, busy>>

\* lunix_chrdev_init: register_chrdev_region, then cdev_add.
RegisterRegion ==
  /\ pc = "region"
  /\ \/ region' = TRUE /\ pc' = "cdev"
     \/ pc' = "out_with_ldisc" /\ UNCHANGED region
  /\ UNCHANGED <<loads, sensors, si_done, pages, lost, parser, ldisc, cdev, tty, busy>>

CdevAdd ==
  /\ pc = "cdev"
  /\ \/ cdev' = TRUE /\ pc' = "loaded"
     \/ pc' = "out_with_chrdev_region" /\ UNCHANGED cdev
  /\ UNCHANGED <<loads, sensors, si_done, pages, lost, parser, ldisc, region, tty, busy>>

-----------------------------------------------------------------------------
(* The error paths, from the last thing done to the first *)

OutWithChrdevRegion ==
  /\ pc = "out_with_chrdev_region"
  /\ region' = FALSE
  /\ pc' = "out_with_ldisc"
  /\ UNCHANGED <<loads, sensors, si_done, pages, lost, parser, ldisc, cdev, tty, busy>>

\* tty_unregister_ldisc: refused while a TTY has the discipline.
UnregisterLdisc ==
  \/ tty /\ busy' = TRUE /\ UNCHANGED ldisc
  \/ ~tty /\ ldisc' = FALSE /\ UNCHANGED busy

\* Mutant of OutWithLdisc: the label only falls through.
OutWithLdisc_Skip ==
  /\ pc = "out_with_ldisc"
  /\ pc' = "out_with_sensors"
  /\ UNCHANGED <<loads, sensors, si_done, pages, lost, parser, ldisc, region, cdev, tty, busy>>

\* Mutant of OutWithLdisc: the sensors are destroyed first.
OutWithLdisc_Late ==
  /\ pc = "out_with_ldisc"
  /\ \/ UnregisterLdisc /\ pc' = "out_with_sensors" /\ UNCHANGED <<si_done, pages>>
     \/ /\ si_done >= 0 /\ si_done' = si_done - 1 /\ pages' = [pages EXCEPT ![si_done] = 0]
        /\ UNCHANGED <<pc, ldisc, busy>>
  /\ UNCHANGED <<loads, sensors, lost, parser, tty, region, cdev>>

\* The sensors go next, whatever lunix_ldisc_destroy has done.
OutWithLdisc ==
  /\ pc = "out_with_ldisc"
  /\ UnregisterLdisc
  /\ pc' = "out_with_sensors"
  /\ UNCHANGED <<loads, sensors, si_done, pages, lost, parser, tty, region, cdev>>

\* lunix_sensor_destroy from si_done down, then kfree: the pages of a sensor
\* above si_done are lost with the array.
Destroying == pc \in {"out_with_sensors", "exit_sensors"}

lunix_sensor_destroy ==
  /\ Destroying /\ si_done >= 0
  /\ pages' = [pages EXCEPT ![si_done] = 0]
  /\ si_done' = si_done - 1
  /\ UNCHANGED <<pc, loads, sensors, lost, parser, ldisc, region, cdev, tty, busy>>

FreeSensors ==
  /\ Destroying /\ si_done < 0
  /\ sensors' = FALSE
  /\ lost' = lost \cup Held
  /\ pages' = NoPages
  /\ pc' = "unloaded"
  /\ UNCHANGED <<loads, si_done, parser, ldisc, region, cdev, tty, busy>>

-----------------------------------------------------------------------------
(* lunix_module_cleanup *)

\* The kernel refuses while a TTY, or an open file, holds the module: an attempt
\* then changes nothing.
Rmmod ==
  /\ pc = "loaded" /\ ~tty
  /\ pc' = "exit_chrdev"
  /\ UNCHANGED <<loads, sensors, si_done, pages, lost, parser, ldisc, region, cdev, tty, busy>>

\* cdev_del, unregister_chrdev_region
lunix_chrdev_destroy ==
  /\ pc = "exit_chrdev"
  /\ cdev' = FALSE /\ region' = FALSE
  /\ pc' = "exit_ldisc"
  /\ UNCHANGED <<loads, sensors, si_done, pages, lost, parser, ldisc, tty, busy>>

\* lunix_ldisc_destroy; the sensor loop then starts from the last sensor.
lunix_ldisc_destroy ==
  /\ pc = "exit_ldisc"
  /\ UnregisterLdisc
  /\ si_done' = SensorCnt - 1
  /\ pc' = "exit_sensors"
  /\ UNCHANGED <<loads, sensors, pages, lost, parser, tty, region, cdev>>

-----------------------------------------------------------------------------
(* The TTY layer (external): it takes a reference on the module, which the *)
(* kernel gives while the module loads or is loaded, not while it unloads; *)
(* one TTY at a time (lunix_ldisc_open).                                   *)

SetLdisc ==
  /\ ldisc /\ ~tty
  /\ pc \in {"region", "cdev", "loaded", "out_with_chrdev_region", "out_with_ldisc",
             "out_with_sensors"}
  /\ tty' = TRUE
  /\ UNCHANGED <<pc, loads, sensors, si_done, pages, lost, parser, ldisc, busy, region, cdev>>

\* The TTY closes, or sets another discipline.
LeaveLdisc ==
  /\ tty /\ pc # "unloaded"
  /\ tty' = FALSE
  /\ UNCHANGED <<pc, loads, sensors, si_done, pages, lost, parser, ldisc, busy, region, cdev>>

-----------------------------------------------------------------------------
Next ==
  \/ Insmod \/ AllocSensors \/ AllocPage \/ SensorsDone
  \/ lunix_ldisc_init \/ RegisterRegion \/ CdevAdd
  \/ OutWithChrdevRegion \/ OutWithLdisc \/ lunix_sensor_destroy \/ FreeSensors
  \/ Rmmod \/ lunix_chrdev_destroy \/ lunix_ldisc_destroy
  \/ SetLdisc \/ LeaveLdisc

Spec == Init /\ [][Next]_vars

-----------------------------------------------------------------------------
(* Properties *)

\* From tty_register_ldisc on a TTY may bring packets, and from cdev_add on files
\* may be opened: as long as either is possible all sensors have their pages and
\* the protocol state machine has been initialised - while the module loads, while
\* a load is undone, and while the module unloads.  The one exception is the
\* undoing of a load while a TTY has the discipline: never an unload.
LiveOnlyWhenReady ==
  ldisc \/ cdev =>
    \/ sensors /\ parser /\ \A s \in Sensor : pages[s] = N_LUNIX_MSR
    \/ busy /\ ~cdev /\ pc \in {"out_with_sensors", "unloaded"}

\* lunix_module_init and lunix_module_cleanup, wherever they end, leave no
\* registration and no array behind, but the discipline a TTY kept busy; and every
\* page is given back, except some, never all, of one sensor in a load in which
\* get_zeroed_page failed.
UndoneButPages ==
  /\ TypeOK
  /\ pc = "unloaded" => ~sensors /\ ~region /\ ~cdev /\ (ldisc <=> busy)
  /\ \A p \in lost : p.msr < N_LUNIX_MSR
  /\ \A p, q \in lost : p.load = q.load => p.sensor = q.sensor
=============================================================================
