-------------------------- MODULE LunixModuleProofs --------------------------
(***************************************************************************)
(* Proofs about LunixModule: what may be called is ready, and a load that  *)
(* fails or a module that goes leaves nothing behind but a few pages and a *)
(* discipline a TTY keeps, for any number of sensors and measurements and   *)
(* any sequence of loads.                                                  *)
(***************************************************************************)
EXTENDS LunixModule, TLAPS

\* What is registered, and whether the array is there, at each point of
\* lunix_module_init and lunix_module_cleanup.
WithArray == pc \notin {"unloaded", "alloc"}
WithLdisc == pc \in {"region", "cdev", "loaded", "out_with_chrdev_region", "out_with_ldisc",
                     "exit_chrdev", "exit_ldisc"}
WithRegion == pc \in {"cdev", "loaded", "out_with_chrdev_region", "exit_chrdev"}
WithCdev == pc \in {"loaded", "exit_chrdev"}

Registered ==
  /\ sensors <=> WithArray
  /\ WithArray => parser
  /\ ldisc <=> WithLdisc \/ busy
  /\ busy => pc \in {"out_with_sensors", "unloaded"}
  /\ pc \in {"exit_chrdev", "exit_ldisc", "exit_sensors"} => ~tty
  /\ region <=> WithRegion
  /\ cdev <=> WithCdev

\* The sensors up to si_done are complete while they are made; from the line
\* discipline to its end all are.
Filled ==
  /\ pc = "sensors" =>
       /\ \A s \in Sensor : s <= si_done => pages[s] = N_LUNIX_MSR
       /\ \A s \in Sensor : s = si_done + 1 => pages[s] < N_LUNIX_MSR
       /\ \A s \in Sensor : s > si_done + 1 => pages[s] = 0
  /\ WithLdisc \/ pc = "ldisc" => \A s \in Sensor : pages[s] = N_LUNIX_MSR
  /\ pc \in {"ldisc", "region", "cdev", "out_with_chrdev_region", "out_with_ldisc"} =>
       si_done = SensorCnt - 1

\* While sensors are destroyed one at most is left above si_done, and not whole.
Leftover ==
  Destroying =>
    /\ \A s \in Sensor : s > si_done => pages[s] < N_LUNIX_MSR
    /\ \A s, t \in Sensor : s > si_done /\ t > si_done /\ pages[s] # 0 /\ pages[t] # 0 => s = t

\* What is lost was lost in an earlier load, if one is going on.
LostBefore ==
  /\ \A p \in lost : p.load <= loads
  /\ pc # "unloaded" => \A p \in lost : p.load < loads

LostFew ==
  /\ \A p \in lost : p.msr < N_LUNIX_MSR
  /\ \A p, q \in lost : p.load = q.load => p.sensor = q.sensor

\* The inductive invariant.
IInv ==
  /\ TypeOK
  /\ Registered
  /\ Filled
  /\ Leftover
  /\ LostBefore
  /\ LostFew

-----------------------------------------------------------------------------
LEMMA NoPagesType == NoPages \in [Sensor -> 0..N_LUNIX_MSR] /\ -1 \in -1..(SensorCnt - 1)
                     /\ SensorCnt - 1 \in -1..(SensorCnt - 1) /\ 0 \in 0..MaxLoads
  BY ModuleAssumption DEF NoPages

LEMMA InvInit == Init => IInv
<1> SUFFICES ASSUME Init PROVE IInv
  OBVIOUS
<1>1. TypeOK
  BY NoPagesType DEF Init, TypeOK
<1> QED BY <1>1 DEF Init, IInv, Registered, WithArray, WithLdisc, WithRegion, WithCdev, Filled,
                  Leftover, Destroying, LostBefore, LostFew

\* Every step of loading and unloading keeps the types.
LEMMA TypeNext == IInv /\ [Next]_vars => TypeOK'
<1> SUFFICES ASSUME IInv, [Next]_vars PROVE TypeOK'
  OBVIOUS
<1>a. TypeOK /\ Filled
  BY DEF IInv
<1> USE ModuleAssumption
<1>1. CASE Insmod
  <2>1. loads + 1 \in 0..MaxLoads
    BY <1>a, <1>1 DEF Insmod, TypeOK
  <2> QED BY <1>a, <1>1, <2>1 DEF Insmod, TypeOK
<1>2. CASE AllocSensors
  BY <1>a, <1>2, NoPagesType DEF AllocSensors, TypeOK
<1>3. CASE AllocPage
  <2>1. si_done + 1 \in Sensor /\ pages[si_done + 1] < N_LUNIX_MSR
    BY <1>a, <1>3 DEF AllocPage, TypeOK, Filled, Sensor
  <2>2. pages[si_done + 1] + 1 \in 0..N_LUNIX_MSR
    BY <1>a, <2>1 DEF TypeOK
  <2>3. pages' \in [Sensor -> 0..N_LUNIX_MSR]
    BY <1>a, <1>3, <2>1, <2>2 DEF AllocPage, TypeOK
  <2>4. si_done' \in -1..(SensorCnt - 1)
    BY <1>a, <1>3, <2>1 DEF AllocPage, TypeOK, Sensor
  <2> QED BY <1>a, <1>3, <2>3, <2>4 DEF AllocPage, TypeOK
<1>4. CASE SensorsDone
  BY <1>a, <1>4 DEF SensorsDone, TypeOK
<1>5. CASE lunix_ldisc_init
  BY <1>a, <1>5 DEF lunix_ldisc_init, TypeOK
<1>6. CASE RegisterRegion
  BY <1>a, <1>6 DEF RegisterRegion, TypeOK
<1>7. CASE CdevAdd
  BY <1>a, <1>7 DEF CdevAdd, TypeOK
<1>8. CASE OutWithChrdevRegion
  BY <1>a, <1>8 DEF OutWithChrdevRegion, TypeOK
<1>9. CASE OutWithLdisc
  BY <1>a, <1>9 DEF OutWithLdisc, UnregisterLdisc, TypeOK
<1>10. CASE lunix_sensor_destroy
  <2>1. pages' \in [Sensor -> 0..N_LUNIX_MSR]
    <3>1. 0 \in 0..N_LUNIX_MSR
      OBVIOUS
    <3> QED BY <1>a, <1>10, <3>1 DEF lunix_sensor_destroy, TypeOK
  <2>2. si_done' \in -1..(SensorCnt - 1)
    BY <1>a, <1>10 DEF lunix_sensor_destroy, TypeOK
  <2> QED BY <1>a, <1>10, <2>1, <2>2 DEF lunix_sensor_destroy, TypeOK
<1>11. CASE FreeSensors
  <2>1. Held \subseteq Page
    BY DEF Held
  <2> QED BY <1>a, <1>11, <2>1, NoPagesType DEF FreeSensors, TypeOK
<1>12. CASE Rmmod
  BY <1>a, <1>12 DEF Rmmod, TypeOK
<1>13. CASE lunix_chrdev_destroy
  BY <1>a, <1>13 DEF lunix_chrdev_destroy, TypeOK
<1>14. CASE lunix_ldisc_destroy
  BY <1>a, <1>14, NoPagesType DEF lunix_ldisc_destroy, UnregisterLdisc, TypeOK
<1>15. CASE SetLdisc \/ LeaveLdisc
  <2>1. tty' \in BOOLEAN /\ UNCHANGED <<pc, loads, sensors, si_done, pages, lost, parser, ldisc, busy,
                                      region, cdev>>
    BY <1>15 DEF SetLdisc, LeaveLdisc
  <2> QED BY <1>a, <2>1 DEF TypeOK
<1>16. CASE UNCHANGED vars
  BY <1>a, <1>16 DEF vars, TypeOK
<1> QED BY <1>1, <1>2, <1>3, <1>4, <1>5, <1>6, <1>7, <1>8, <1>9, <1>10, <1>11, <1>12, <1>13, <1>14, <1>15, <1>16 DEF Next

\* Every step registers, or takes back, what its place stands for.
LEMMA RegisteredNext == IInv /\ [Next]_vars => Registered'
<1> SUFFICES ASSUME IInv, [Next]_vars PROVE Registered'
  OBVIOUS
<1>a. TypeOK /\ Registered
  BY DEF IInv
<1> USE DEF Registered, WithArray, WithLdisc, WithRegion, WithCdev, TypeOK
<1>1. CASE Insmod
  BY <1>a, <1>1 DEF Insmod
<1>2. CASE AllocSensors
  BY <1>a, <1>2 DEF AllocSensors
<1>3. CASE AllocPage
  BY <1>a, <1>3 DEF AllocPage
<1>4. CASE SensorsDone
  BY <1>a, <1>4 DEF SensorsDone
<1>5. CASE lunix_ldisc_init
  BY <1>a, <1>5 DEF lunix_ldisc_init
<1>6. CASE RegisterRegion
  BY <1>a, <1>6 DEF RegisterRegion
<1>7. CASE CdevAdd
  BY <1>a, <1>7 DEF CdevAdd
<1>8. CASE OutWithChrdevRegion
  BY <1>a, <1>8 DEF OutWithChrdevRegion
<1>9. CASE OutWithLdisc
  <2>1. CASE tty
    BY <1>a, <1>9, <2>1 DEF OutWithLdisc, UnregisterLdisc
  <2>2. CASE ~tty
    <3>1. busy = FALSE
      BY <1>a, <1>9 DEF OutWithLdisc
    <3>2. ldisc' = FALSE /\ busy' = FALSE
      BY <1>9, <2>2, <3>1 DEF OutWithLdisc, UnregisterLdisc
    <3> QED BY <1>a, <1>9, <2>2, <3>1, <3>2 DEF OutWithLdisc
  <2> QED BY <2>1, <2>2
<1>10. CASE lunix_sensor_destroy
  BY <1>a, <1>10 DEF lunix_sensor_destroy, Destroying
<1>11. CASE FreeSensors
  BY <1>a, <1>11 DEF FreeSensors, Destroying
<1>12. CASE Rmmod
  BY <1>a, <1>12 DEF Rmmod
<1>13. CASE lunix_chrdev_destroy
  BY <1>a, <1>13 DEF lunix_chrdev_destroy
<1>14. CASE lunix_ldisc_destroy
  <2>1. CASE tty
    BY <1>a, <1>14, <2>1 DEF lunix_ldisc_destroy, UnregisterLdisc
  <2>2. CASE ~tty
    <3>1. busy = FALSE
      BY <1>a, <1>14 DEF lunix_ldisc_destroy
    <3>2. ldisc' = FALSE /\ busy' = FALSE
      BY <1>14, <2>2, <3>1 DEF lunix_ldisc_destroy, UnregisterLdisc
    <3> QED BY <1>a, <1>14, <2>2, <3>1, <3>2 DEF lunix_ldisc_destroy
  <2> QED BY <2>1, <2>2
<1>15. CASE SetLdisc \/ LeaveLdisc
  BY <1>a, <1>15 DEF SetLdisc, LeaveLdisc
<1>16. CASE UNCHANGED vars
  BY <1>a, <1>16 DEF vars
<1> QED BY <1>1, <1>2, <1>3, <1>4, <1>5, <1>6, <1>7, <1>8, <1>9, <1>10, <1>11, <1>12, <1>13, <1>14, <1>15, <1>16 DEF Next

\* Every step keeps the pages as its place says.
LEMMA FilledNext == IInv /\ [Next]_vars => Filled' /\ Leftover'
<1> SUFFICES ASSUME IInv, [Next]_vars PROVE Filled' /\ Leftover'
  OBVIOUS
<1>a. TypeOK /\ Filled /\ Leftover
  BY DEF IInv
<1> USE ModuleAssumption DEF Filled, Leftover, Destroying, WithLdisc, TypeOK, Sensor
<1>1. CASE Insmod
  BY <1>a, <1>1 DEF Insmod
<1>2. CASE AllocSensors
  BY <1>a, <1>2 DEF AllocSensors, NoPages
<1>3. CASE AllocPage
  <2>1. CASE pc' = pc
    <3>1. /\ pc = "sensors" /\ si_done + 1 \in Sensor
          /\ pages' = [pages EXCEPT ![si_done + 1] = @ + 1]
          /\ si_done' = IF pages[si_done + 1] + 1 = N_LUNIX_MSR THEN si_done + 1 ELSE si_done
      BY <1>a, <1>3, <2>1 DEF AllocPage
    <3>2. pages[si_done + 1] < N_LUNIX_MSR /\ pages[si_done + 1] \in Nat
      BY <1>a, <3>1
    <3>3. pages'[si_done + 1] = pages[si_done + 1] + 1
      BY <1>a, <3>1
    <3>4. \A s \in Sensor : s # si_done + 1 => pages'[s] = pages[s]
      BY <1>a, <3>1
    <3>5. CASE pages[si_done + 1] + 1 = N_LUNIX_MSR
      BY <1>a, <2>1, <3>1, <3>3, <3>4, <3>5
    <3>6. CASE pages[si_done + 1] + 1 # N_LUNIX_MSR
      BY <1>a, <2>1, <3>1, <3>2, <3>3, <3>4, <3>6
    <3> QED BY <3>5, <3>6
  <2>2. CASE pc' = "out_with_sensors" /\ UNCHANGED <<pages, si_done>>
    BY <1>a, <1>3, <2>2 DEF AllocPage
  <2> QED BY <1>3, <2>1, <2>2 DEF AllocPage
<1>4. CASE SensorsDone
  BY <1>a, <1>4 DEF SensorsDone
<1>5. CASE lunix_ldisc_init
  BY <1>a, <1>5 DEF lunix_ldisc_init
<1>6. CASE RegisterRegion
  BY <1>a, <1>6 DEF RegisterRegion
<1>7. CASE CdevAdd
  BY <1>a, <1>7 DEF CdevAdd
<1>8. CASE OutWithChrdevRegion
  BY <1>a, <1>8 DEF OutWithChrdevRegion
<1>9. CASE OutWithLdisc
  BY <1>a, <1>9 DEF OutWithLdisc, UnregisterLdisc
<1>10. CASE lunix_sensor_destroy
  BY <1>a, <1>10 DEF lunix_sensor_destroy
<1>11. CASE FreeSensors
  BY <1>a, <1>11 DEF FreeSensors, NoPages
<1>12. CASE Rmmod
  BY <1>a, <1>12 DEF Rmmod
<1>13. CASE lunix_chrdev_destroy
  BY <1>a, <1>13 DEF lunix_chrdev_destroy
<1>14. CASE lunix_ldisc_destroy
  BY <1>a, <1>14 DEF lunix_ldisc_destroy, UnregisterLdisc
<1>15. CASE SetLdisc \/ LeaveLdisc
  BY SMTT(30), <1>a, <1>15 DEF SetLdisc, LeaveLdisc
<1>16. CASE UNCHANGED vars
  BY <1>a, <1>16 DEF vars
<1> QED BY <1>1, <1>2, <1>3, <1>4, <1>5, <1>6, <1>7, <1>8, <1>9, <1>10, <1>11, <1>12, <1>13, <1>14, <1>15, <1>16 DEF Next

\* Pages are lost in FreeSensors alone: those of the one sensor left over.
LEMMA LostNext == IInv /\ [Next]_vars => LostBefore' /\ LostFew'
<1> SUFFICES ASSUME IInv, [Next]_vars PROVE LostBefore' /\ LostFew'
  OBVIOUS
<1>a. TypeOK /\ Leftover /\ LostBefore /\ LostFew
  BY DEF IInv
<1>1. CASE Insmod
  BY <1>a, <1>1 DEF Insmod, LostBefore, LostFew, TypeOK, Page
<1>2. CASE FreeSensors
  <2>1. /\ lost' = lost \cup Held /\ loads' = loads /\ pc' = "unloaded" /\ pc # "unloaded"
        /\ Destroying /\ si_done < 0
    BY <1>2 DEF FreeSensors, Destroying
  <2>2. \A p \in Held : p.load = loads /\ p.sensor \in Sensor /\ p.msr \in 1..N_LUNIX_MSR
                        /\ p.msr <= pages[p.sensor]
    BY DEF Held, Page
  <2>3. \A s \in Sensor : s > si_done /\ pages[s] < N_LUNIX_MSR /\ pages[s] \in Nat
    BY <1>a, <2>1, ModuleAssumption DEF Leftover, TypeOK, Sensor
  <2>4. \A p \in Held : p.msr < N_LUNIX_MSR /\ pages[p.sensor] # 0
    BY <2>2, <2>3, ModuleAssumption
  <2>5. \A p, q \in Held : p.sensor = q.sensor
    BY <1>a, <2>1, <2>2, <2>3, <2>4 DEF Leftover
  <2>6. \A p \in lost : p.load < loads /\ p.load \in Nat /\ loads \in Nat
    BY <1>a, <2>1 DEF LostBefore, TypeOK, Page
  <2>7. LostBefore'
    BY <1>a, <2>1, <2>2, <2>6 DEF LostBefore, TypeOK
  <2>8. LostFew'
    BY <1>a, <2>1, <2>2, <2>4, <2>5, <2>6 DEF LostFew
  <2> QED BY <2>7, <2>8
<1>3. CASE ~Insmod /\ ~FreeSensors
  <2>1. lost' = lost /\ loads' = loads /\ (pc = "unloaded" => pc' = "unloaded")
    BY <1>3 DEF Next, vars, AllocSensors, AllocPage, SensorsDone, lunix_ldisc_init, RegisterRegion,
                CdevAdd, OutWithChrdevRegion, OutWithLdisc, lunix_sensor_destroy, Destroying, Rmmod,
                lunix_chrdev_destroy, lunix_ldisc_destroy, SetLdisc, LeaveLdisc
  <2> QED BY <1>a, <2>1 DEF LostBefore, LostFew
<1> QED BY <1>1, <1>2, <1>3

LEMMA InvCorrect == Spec => []IInv
<1>1. IInv /\ [Next]_vars => IInv'
  BY TypeNext, RegisteredNext, FilledNext, LostNext DEF IInv
<1> QED BY <1>1, InvInit, PTL DEF Spec

-----------------------------------------------------------------------------
\* While a packet may come in or a file be opened, all sensors have their pages
\* and the protocol is set up, for any number of sensors and whatever failed; but
\* for a load that is undone while a TTY has the discipline.
THEOREM ReadyCorrect == Spec => []LiveOnlyWhenReady
<1>1. IInv => LiveOnlyWhenReady
  <2> SUFFICES ASSUME IInv, ldisc \/ cdev
               PROVE  \/ sensors /\ parser /\ \A s \in Sensor : pages[s] = N_LUNIX_MSR
                      \/ busy /\ ~cdev /\ pc \in {"out_with_sensors", "unloaded"}
    BY DEF LiveOnlyWhenReady
  <2>1. CASE WithLdisc
    BY <2>1 DEF IInv, Registered, Filled, WithLdisc, WithArray
  <2>2. CASE ~WithLdisc
    BY <2>2 DEF IInv, Registered, WithLdisc, WithCdev
  <2> QED BY <2>1, <2>2
<1> QED BY <1>1, InvCorrect, PTL

\* Wherever loading or unloading ends, nothing stays registered or allocated but
\* the discipline a TTY kept busy in a failed load and, for each load that ran out
\* of memory, some pages of one sensor.
THEOREM UndoneCorrect == Spec => []UndoneButPages
<1>1. IInv => UndoneButPages
  BY DEF IInv, Registered, WithArray, WithLdisc, WithRegion, WithCdev, LostFew, UndoneButPages
<1> QED BY <1>1, InvCorrect, PTL
=============================================================================
