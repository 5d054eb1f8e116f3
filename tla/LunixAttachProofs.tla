-------------------------- MODULE LunixAttachProofs --------------------------
(***************************************************************************)
(* For any number of helpers, lines and signals: the line discipline is on *)
(* one TTY at most; two helpers work on one line only after one of two     *)
(* races; what a helper has is not taken from it, and a line is given back *)
(* as it was found, unless one of those races or a failed or killed helper *)
(* has come between.                                                       *)
(***************************************************************************)
EXTENDS LunixAttach, TLAPS

IInv == TypeOK /\ OneTTY

\* lunix_ldisc_close keeps the count of lunix_disc_available exact.
LEMMA CloseKeeps ==
  ASSUME TypeOK, OneTTY, NEW t \in TTYs, lunix_ldisc_close(t)
  PROVE  /\ ldisc' \in [TTYs -> {"N_TTY", "LUNIX"}]
         /\ available' \in 0..1
         /\ OneTTY'
  BY DEF TypeOK, OneTTY, lunix_ldisc_close

\* lunix_ldisc_open takes the association only when no TTY has it.
LEMMA OpenKeeps ==
  ASSUME TypeOK, OneTTY, NEW t \in TTYs, lunix_ldisc_open(t)
  PROVE  /\ ldisc' \in [TTYs -> {"N_TTY", "LUNIX"}]
         /\ available' \in 0..1
         /\ OneTTY'
  BY DEF TypeOK, OneTTY, lunix_ldisc_open

\* A step that leaves the lines alone leaves OneTTY alone.
LEMMA LineKeeps ==
  ASSUME TypeOK, OneTTY, UNCHANGED line
  PROVE  /\ ldisc' \in [TTYs -> {"N_TTY", "LUNIX"}]
         /\ available' \in 0..1
         /\ OneTTY'
  BY DEF TypeOK, OneTTY, line

\* TIOCSETD keeps the count.
LEMMA SetKeeps ==
  ASSUME TypeOK, OneTTY, NEW t \in TTYs, NEW d, TtySetLdisc(t, d)
  PROVE  /\ ldisc' \in [TTYs -> {"N_TTY", "LUNIX"}]
         /\ available' \in 0..1
         /\ OneTTY'
  BY CloseKeeps, OpenKeeps, LineKeeps DEF TtySetLdisc

\* The end of a process keeps the count.
LEMMA LastCloseKeeps ==
  ASSUME TypeOK, OneTTY, NEW p \in Procs, LastClose(p)
  PROVE  /\ ldisc' \in [TTYs -> {"N_TTY", "LUNIX"}]
         /\ available' \in 0..1
         /\ OneTTY'
  <1>1. TTYOf[p] \in TTYs
    BY AttachAssumption
  <1> QED
    BY <1>1, CloseKeeps, LineKeeps DEF LastClose

\* The initial state satisfies the invariant.
LEMMA Initial == Init => IInv
  BY AttachAssumption DEF Init, IInv, TypeOK, OneTTY, Mode, Normal

\* Every step of a helper keeps the invariant.
LEMMA Inductive == IInv /\ [Next]_vars => IInv'
<1> SUFFICES ASSUME TypeOK, OneTTY, [Next]_vars PROVE TypeOK' /\ OneTTY'
  BY DEF IInv
<1> USE AttachAssumption
<1>1. CASE UNCHANGED vars
  BY <1>1 DEF vars, TypeOK, OneTTY
<1>2. ASSUME NEW p \in Procs, Step(p) PROVE TypeOK' /\ OneTTY'
  <2> USE DEF Goto, Setup, Closing, Ended, Mode, files, saved
  <2>1. /\ ldisc' \in [TTYs -> {"N_TTY", "LUNIX"}]
        /\ available' \in 0..1
        /\ OneTTY'
    <3>1. CASE Fail(p) \/ Kill(p) \/ Exit(p)
      BY <3>1, LastCloseKeeps DEF Fail, Kill, Exit
    <3>2. CASE SetLdisc(p) \/ CloseLdisc(p)
      BY <3>2, SetKeeps, LineKeeps DEF SetLdisc, CloseLdisc
    <3>3. CASE UNCHANGED line
      BY <3>3, LineKeeps
    <3> QED
      BY <1>2, <3>1, <3>2, <3>3 DEF Step, ReadLock, CheckLock, Creat, WritePid, Uucp, OpenTty,
         Fetch, SetRaw, Install, Signal, CloseMode, CloseLock, Clear
  <2>2. pc' \in [Procs -> {"idle", "paused"} \cup Setup \cup Closing \cup Ended]
    <3>1. PICK l \in {"idle", "paused"} \cup Setup \cup Closing \cup Ended :
            pc' = [pc EXCEPT ![p] = l]
      BY <1>2 DEF Step, ReadLock, CheckLock, Creat, WritePid, Uucp, OpenTty, Fetch, SetRaw,
       Install, Signal, CloseMode, CloseLock, Clear, Fail, Kill, Exit, SetLdisc, CloseLdisc
    <3> QED
      BY <3>1 DEF TypeOK
  <2>3. lock' \in [TTYs -> Procs \cup {NoFile, Garbage}]
    BY ZenonT(60), <1>2 DEF TypeOK, Step, ReadLock, CheckLock, Creat, WritePid, Uucp, OpenTty, Fetch, SetRaw,
       Install, Signal, CloseMode, CloseLock, Clear, Fail, Kill, Exit, SetLdisc, CloseLdisc, Unlink
  <2>4. linked' \in [Procs -> BOOLEAN]
    <3>1. \/ linked' = linked
          \/ linked' = [linked EXCEPT ![p] = TRUE]
          \/ linked' = [q \in Procs |-> linked[q] /\ TTYOf[q] # TTYOf[p]]
      BY <1>2 DEF Step, ReadLock, CheckLock, Creat, WritePid, Uucp, OpenTty, Fetch, SetRaw,
       Install, Signal, CloseMode, CloseLock, Clear, Fail, Kill, Exit, SetLdisc, CloseLdisc, Unlink
    <3>2. CASE linked' = [q \in Procs |-> linked[q] /\ TTYOf[q] # TTYOf[p]]
      BY <3>2, Zenon DEF TypeOK
    <3> QED
      BY <3>1, <3>2 DEF TypeOK
  <2>5. saved_lock' \in [Procs -> BOOLEAN]
    <3>1. CASE Uucp(p)
      BY <3>1 DEF Uucp, TypeOK
    <3>2. CASE Clear(p)
      BY <3>2 DEF Clear, TypeOK
    <3>3. CASE ~Uucp(p) /\ ~Clear(p)
      BY <1>2, <3>3 DEF TypeOK, Step, ReadLock, CheckLock, Creat, WritePid, OpenTty, Fetch, SetRaw,
       Install, Signal, CloseMode, CloseLock, Fail, Kill, Exit, SetLdisc, CloseLdisc
    <3> QED
      BY <3>1, <3>2, <3>3
  <2>6. mode' \in [TTYs -> Mode] /\ tty_before' \in [Procs -> Mode]
        /\ ldisc_before' \in [Procs -> {"N_TTY", "LUNIX"}]
    <3>1. CASE SetRaw(p)
      BY <3>1 DEF TypeOK, SetRaw
    <3>2. CASE CloseMode(p)
      <4>1. [raw |-> tty_before[p].raw, hup |-> TRUE] \in Mode
        BY DEF TypeOK
      <4> QED
        BY <3>2, <4>1 DEF TypeOK, CloseMode
    <3>3. CASE Fetch(p)
      BY <3>3 DEF TypeOK, Fetch
    <3>4. CASE UNCHANGED <<mode, saved>>
      BY <3>4 DEF TypeOK
    <3> QED
      BY <1>2, <3>1, <3>2, <3>3, <3>4 DEF Step, ReadLock, CheckLock, Creat, WritePid, Uucp, OpenTty,
         Install, Signal, CloseLock, Clear, Fail, Kill, Exit, SetLdisc, CloseLdisc
  <2>8. loose' \in [TTYs -> BOOLEAN] /\ harmed' \in [TTYs -> BOOLEAN]
    <3>1. \E b \in BOOLEAN : loose' = loose \/ loose' = [loose EXCEPT ![TTYOf[p]] = b]
      <4>1. CASE ReadLock(p) \/ CheckLock(p)
        BY <4>1 DEF ReadLock, CheckLock, Passes, past
      <4>2. CASE Signal(p)
        BY <4>2 DEF Signal
      <4>3. CASE ~ReadLock(p) /\ ~CheckLock(p) /\ ~Signal(p)
        BY <1>2, <4>3 DEF Step, Creat, WritePid, Uucp, OpenTty, Fetch, SetRaw,
         Install, CloseMode, CloseLock, Clear, Fail, Kill, Exit, SetLdisc, CloseLdisc, past
      <4> QED
        BY <4>1, <4>2, <4>3
    <3>2. \E b \in BOOLEAN : harmed' = harmed \/ harmed' = [harmed EXCEPT ![TTYOf[p]] = b]
      <4>1. CASE ReadLock(p) \/ CheckLock(p)
        BY <4>1 DEF ReadLock, CheckLock, Passes, past
      <4>2. CASE ~ReadLock(p) /\ ~CheckLock(p)
        BY <1>2, <4>2 DEF Step, Creat, WritePid, Uucp, OpenTty, Fetch, SetRaw, Signal,
         Install, CloseMode, CloseLock, Clear, Fail, Kill, Exit, SetLdisc, CloseLdisc, past
      <4> QED
        BY <4>1, <4>2
    <3>4. ASSUME NEW h \in [TTYs -> BOOLEAN], NEW b \in BOOLEAN
          PROVE  [h EXCEPT ![TTYOf[p]] = b] \in [TTYs -> BOOLEAN]
      OBVIOUS
    <3>5. loose \in [TTYs -> BOOLEAN] /\ harmed \in [TTYs -> BOOLEAN]
      BY DEF TypeOK
    <3> QED
      BY <3>1, <3>2, <3>4, <3>5, Zenon
  <2>9. found' \in [TTYs -> [raw : BOOLEAN, lock : Procs \cup {NoFile, Garbage}]]
    <3>1. CASE ReadLock(p) \/ CheckLock(p)
      <4>1. [raw |-> mode[TTYOf[p]].raw, lock |-> lock[TTYOf[p]]]
              \in [raw : BOOLEAN, lock : Procs \cup {NoFile, Garbage}]
        BY DEF TypeOK
      <4>2. \/ found' = found
            \/ found' = [found EXCEPT ![TTYOf[p]] = IF Busy(TTYOf[p]) THEN found[TTYOf[p]]
                           ELSE [raw |-> mode[TTYOf[p]].raw, lock |-> lock[TTYOf[p]]]]
        BY <3>1 DEF ReadLock, CheckLock, Passes, past
      <4> QED
        BY ZenonT(60), <4>1, <4>2 DEF TypeOK
    <3>2. CASE ~ReadLock(p) /\ ~CheckLock(p)
      BY <1>2, <3>2 DEF Step, Creat, WritePid, Uucp, OpenTty, Fetch, SetRaw,
       Install, Signal, CloseMode, CloseLock, Clear, Fail, Kill, Exit, SetLdisc, CloseLdisc, past, TypeOK
    <3> QED
      BY <3>1, <3>2
  <2>7. signals' \in [Procs -> 0..MaxSignals]
    <3>1. CASE Signal(p)
      <4>1. signals[p] \in 0..MaxSignals /\ signals[p] < MaxSignals
            /\ signals' = [signals EXCEPT ![p] = signals[p] + 1]
        BY <3>1 DEF Signal, TypeOK
      <4> QED
        BY <4>1 DEF TypeOK
    <3>2. CASE ~Signal(p)
      BY <1>2, <3>2 DEF TypeOK, Step, ReadLock, CheckLock, Creat, WritePid, Uucp, OpenTty, Fetch, SetRaw,
       Install, CloseMode, CloseLock, Clear, Fail, Kill, Exit, SetLdisc, CloseLdisc
    <3> QED
      BY <3>1, <3>2
  <2>10. pid' \in [Procs -> Procs \cup {NoFile}]
    <3>1. CASE ReadLock(p) \/ CheckLock(p)
      BY <3>1 DEF ReadLock, CheckLock, TypeOK
    <3>2. CASE ~ReadLock(p) /\ ~CheckLock(p)
      BY <1>2, <3>2 DEF Step, Creat, WritePid, Uucp, OpenTty, Fetch, SetRaw,
       Install, Signal, CloseMode, CloseLock, Clear, Fail, Kill, Exit, SetLdisc, CloseLdisc, TypeOK
    <3> QED
      BY <3>1, <3>2
  <2> QED
    BY <2>1, <2>2, <2>3, <2>4, <2>5, <2>6, <2>7, <2>8, <2>9, <2>10 DEF TypeOK
<1> QED
  BY <1>1, <1>2 DEF Next

\* In every reachable state of any number of helpers, every variable of
\* lunix-attach.c and lunix-ldisc.c has its type.
THEOREM TypeCorrect == Spec => []TypeOK
  BY Initial, Inductive, PTL DEF Spec, IInv

\* The discipline is associated with at most one TTY and its association is never
\* lost, for any number of helpers, lines and nested signals.
THEOREM OneTTYCorrect == Spec => []OneTTY
  BY Initial, Inductive, PTL DEF Spec, IInv

-----------------------------------------------------------------------------
(* The lock of a line that was not got round *)

\* The helper's pid is in the lock file, or should be.
HasLock == {"uucp", "open", "fetch", "raw", "ldisc", "handlers", "paused",
            "close_ldisc", "close_mode", "close_lock"}
Entry == {"creat", "write"}

\* A helper past its test.
Within(p) == pc[p] \notin {"idle", "test"} \cup Ended

On(t, places) == \E p \in Procs : TTYOf[p] = t /\ pc[p] \in places

\* Who has the lock is in the file; who is about to write its pid has it open and
\* nobody took its name away; who enters is the only one and finds nobody at work;
\* who waits has its discipline.
Locked(t) ==
  \A p \in Procs : TTYOf[p] = t =>
    /\ pc[p] \in HasLock => lock[t] = p
    /\ pc[p] = "write" => lock[t] = Garbage /\ linked[p]
    /\ pc[p] \in Entry => \A q \in Procs : q # p /\ TTYOf[q] = t =>
                            pc[q] \notin Entry /\ ~(lock[t] = q /\ Within(q))
    /\ pc[p] \in {"handlers", "paused"} => ldisc[t] = "LUNIX"

\* Whoever finds the user uucp has noted its lock, until it has given it up.
Noted(t) ==
  \A p \in UucpKnown : TTYOf[p] = t =>
    /\ pc[p] \in HasLock \ {"uucp"} => saved_lock[p]
    /\ pc[p] \in {"clear", "exit"} => lock[t] # p

RawPlaces == {"ldisc", "handlers", "paused", "close_ldisc", "close_mode"}
LdiscPlaces == {"handlers", "paused", "close_ldisc"}

\* Whatever is changed is changed by a helper that is there to change it back, to
\* what it was before the first.
Kept(t) ==
  /\ mode[t].raw # found[t].raw => On(t, RawPlaces)
  /\ ldisc[t] = "LUNIX" => On(t, LdiscPlaces)
  /\ lock[t] \notin {NoFile, found[t].lock} \cup (Procs \ UucpKnown) =>
       On(t, HasLock \cup {"write"})
  /\ \A p \in Procs :
       TTYOf[p] = t /\ pc[p] \in {"raw", "ldisc", "handlers", "paused"} \cup Closing =>
         tty_before[p].raw = found[t].raw /\ ldisc_before[p] = "N_TTY"

Good(t) == ~loose[t] => Locked(t) /\ Noted(t) /\ (~harmed[t] => Kept(t))

\* Nobody leaves the discipline on a line that no helper has open.
Held == \A t \in TTYs : ldisc[t] = "LUNIX" => \E p \in Procs : TTYOf[p] = t /\ Open(p)

LineInv == IInv /\ Held /\ \A t \in TTYs : Good(t)

\* A step of a helper moves that helper alone.
LEMMA Moves ==
  ASSUME TypeOK, NEW p \in Procs, Step(p)
  PROVE  /\ pc' = [pc EXCEPT ![p] = pc'[p]]
         /\ \A q \in Procs : q # p => pc'[q] = pc[q]
<1>1. \E l : pc' = [pc EXCEPT ![p] = l]
  BY DEF Step, ReadLock, CheckLock, Creat, WritePid, Uucp, OpenTty, Fetch, SetRaw, Install, Signal, CloseMode,
         CloseLock, Clear, Fail, Kill, Exit, SetLdisc, CloseLdisc, Goto
<1> QED BY <1>1 DEF TypeOK

\* A step of a helper of another line.
LEMMA OtherLine ==
  ASSUME TypeOK, NEW p \in Procs, Step(p), NEW t \in TTYs, t # TTYOf[p]
  PROVE  /\ mode'[t] = mode[t] /\ ldisc'[t] = ldisc[t] /\ lock'[t] = lock[t]
         /\ loose'[t] = loose[t] /\ harmed'[t] = harmed[t] /\ found'[t] = found[t]
         /\ \A q \in Procs : TTYOf[q] = t =>
              /\ pc'[q] = pc[q] /\ linked'[q] = linked[q] /\ saved_lock'[q] = saved_lock[q]
              /\ tty_before'[q] = tty_before[q] /\ ldisc_before'[q] = ldisc_before[q]
<1>a. TTYOf[p] \in TTYs
  BY AttachAssumption
<1>1. \A q \in Procs : TTYOf[q] = t => pc'[q] = pc[q]
  BY Moves
<1>2. mode'[t] = mode[t]
  BY <1>a DEF Step, ReadLock, CheckLock, Creat, WritePid, Uucp, Fail, OpenTty, Fetch, SetRaw, SetLdisc, Install,
     Kill, Signal, CloseLdisc, CloseMode, CloseLock, Clear, Exit, TypeOK
<1>3. lock'[t] = lock[t]
  BY <1>a DEF Step, ReadLock, CheckLock, Creat, WritePid, Uucp, Fail, OpenTty, Fetch, SetRaw, SetLdisc, Install,
     Kill, Signal, CloseLdisc, CloseMode, CloseLock, Clear, Exit, Unlink, files, TypeOK
<1>4. ldisc'[t] = ldisc[t]
  <2>1. \/ ldisc' = ldisc \/ lunix_ldisc_close(TTYOf[p]) \/ lunix_ldisc_open(TTYOf[p])
    BY DEF Step, ReadLock, CheckLock, Creat, WritePid, Uucp, Fail, OpenTty, Fetch, SetRaw, SetLdisc, Install,
     Kill, Signal, CloseLdisc, CloseMode, CloseLock, Clear, Exit, TtySetLdisc, LastClose, line
  <2> QED BY <1>a, <2>1 DEF lunix_ldisc_close, lunix_ldisc_open, TypeOK
<1>5. \A q \in Procs : TTYOf[q] = t => tty_before'[q] = tty_before[q] /\ ldisc_before'[q] = ldisc_before[q]
  BY <1>a DEF Step, ReadLock, CheckLock, Creat, WritePid, Uucp, Fail, OpenTty, Fetch, SetRaw, SetLdisc, Install,
     Kill, Signal, CloseLdisc, CloseMode, CloseLock, Clear, Exit, saved, TypeOK
<1>6. \A q \in Procs : TTYOf[q] = t => linked'[q] = linked[q]
  <2>1. CASE Unlink(TTYOf[p])
    BY <2>1 DEF Unlink, TypeOK
  <2>2. CASE ~Unlink(TTYOf[p])
    BY <2>2 DEF Step, ReadLock, CheckLock, Creat, WritePid, Uucp, Fail, OpenTty, Fetch, SetRaw, SetLdisc, Install,
       Kill, Signal, CloseLdisc, CloseMode, CloseLock, Clear, Exit, files, TypeOK
  <2> QED BY <2>1, <2>2
<1>7. \A q \in Procs : TTYOf[q] = t => saved_lock'[q] = saved_lock[q]
  BY DEF Step, ReadLock, CheckLock, Creat, WritePid, Uucp, Fail, OpenTty, Fetch, SetRaw, SetLdisc, Install,
     Kill, Signal, CloseLdisc, CloseMode, CloseLock, Clear, Exit, files, TypeOK
<1>8. loose'[t] = loose[t] /\ harmed'[t] = harmed[t] /\ found'[t] = found[t]
  BY <1>a DEF Step, ReadLock, CheckLock, Passes, Creat, WritePid, Uucp, Fail, OpenTty, Fetch, SetRaw, SetLdisc,
     Install, Kill, Signal, CloseLdisc, CloseMode, CloseLock, Clear, Exit, past, TypeOK
<1> QED BY <1>1, <1>2, <1>3, <1>4, <1>5, <1>6, <1>7, <1>8

LEMMA OtherGood ==
  ASSUME LineInv, NEW p \in Procs, Step(p), NEW t \in TTYs, t # TTYOf[p]
  PROVE  Good(t)'
<1>1. /\ mode'[t] = mode[t] /\ ldisc'[t] = ldisc[t] /\ lock'[t] = lock[t]
      /\ loose'[t] = loose[t] /\ harmed'[t] = harmed[t] /\ found'[t] = found[t]
      /\ \A q \in Procs : TTYOf[q] = t =>
           /\ pc'[q] = pc[q] /\ linked'[q] = linked[q] /\ saved_lock'[q] = saved_lock[q]
           /\ tty_before'[q] = tty_before[q] /\ ldisc_before'[q] = ldisc_before[q]
  BY OtherLine DEF LineInv, IInv
<1>2. Good(t)
  BY DEF LineInv
<1>3. Locked(t) => Locked(t)'
  BY <1>1 DEF Locked, Within
<1>4. Noted(t) => Noted(t)'
  BY <1>1, AttachAssumption DEF Noted
<1>5. Kept(t) => Kept(t)'
  <2>1. \A places : On(t, places) => On(t, places)'
    BY <1>1 DEF On
  <2>2. ASSUME Kept(t) PROVE \A q \in Procs :
          TTYOf[q] = t /\ pc'[q] \in {"raw", "ldisc", "handlers", "paused"} \cup Closing =>
            tty_before'[q].raw = found'[t].raw /\ ldisc_before'[q] = "N_TTY"
    BY <1>1, <2>2 DEF Kept
  <2> QED BY <1>1, <2>1, <2>2 DEF Kept
<1> QED BY <1>1, <1>2, <1>3, <1>4, <1>5 DEF Good

\* A helper past the test keeps a line from being got round, or from being harmed,
\* only if it was not before.
LEMMA Tight ==
  ASSUME TypeOK, NEW p \in Procs, Step(p), ~ReadLock(p), ~CheckLock(p), ~loose'[TTYOf[p]]
  PROVE  /\ ~loose[TTYOf[p]]
         /\ found' = found
         /\ ~harmed'[TTYOf[p]] => ~harmed[TTYOf[p]] /\ ~Fail(p) /\ ~Kill(p)
         /\ Signal(p) => pc[p] \notin {"clear", "exit"} \/ lock[TTYOf[p]] = p
<1>a. TTYOf[p] \in TTYs
  BY AttachAssumption
<1>1. CASE Fail(p) \/ Kill(p)
  <2>1. loose' = loose /\ found' = found /\ harmed' = [harmed EXCEPT ![TTYOf[p]] = TRUE]
    BY <1>1 DEF Fail, Kill
  <2>2. ~Signal(p)
    BY <1>1 DEF Fail, Kill, Signal, Closing, Alive, Ended, Goto, TypeOK
  <2> QED BY <1>a, <2>1, <2>2 DEF TypeOK
<1>2. CASE Signal(p)
  <2>1. /\ harmed' = harmed /\ found' = found
        /\ loose' = [loose EXCEPT ![TTYOf[p]] =
                       loose[TTYOf[p]] \/ (pc[p] \in {"clear", "exit"} /\ lock[TTYOf[p]] # p)]
    BY <1>2 DEF Signal
  <2>2. loose'[TTYOf[p]] = (loose[TTYOf[p]] \/ (pc[p] \in {"clear", "exit"} /\ lock[TTYOf[p]] # p))
    BY <1>a, <2>1 DEF TypeOK
  <2>3. ~Fail(p) /\ ~Kill(p)
    BY <1>2 DEF Fail, Kill, Signal, Goto, TypeOK
  <2> QED BY <2>1, <2>2, <2>3
<1>3. CASE ~(Fail(p) \/ Kill(p)) /\ ~Signal(p)
  <2>1. loose' = loose /\ found' = found /\ harmed' = harmed
    BY <1>3 DEF Step, Creat, WritePid, Uucp, OpenTty, Fetch, SetRaw, SetLdisc, Install, CloseLdisc,
       CloseMode, CloseLock, Clear, Exit, past
  <2> QED BY <1>3, <2>1
<1> QED BY <1>1, <1>2, <1>3

\* Steps that touch neither the lock file nor who may.
LEMMA Elsewhere ==
  ASSUME TypeOK, NEW p \in Procs, Step(p),
         ~ReadLock(p), ~CheckLock(p), ~Creat(p), ~WritePid(p), ~CloseLock(p)
  PROVE  /\ lock' = lock /\ linked' = linked
         /\ pc'[p] \in HasLock => pc[p] \in HasLock \/ (Signal(p) /\ pc[p] \in {"clear", "exit"})
         /\ pc'[p] \notin Entry
         /\ pc'[p] \in {"clear", "exit"} => pc[p] = "clear"
<1>1. lock' = lock /\ linked' = linked
  BY DEF Step, Uucp, Fail, OpenTty, Fetch, SetRaw, SetLdisc, Install, Kill, Signal, CloseLdisc,
         CloseMode, Clear, Exit, files
<1>2. CASE Signal(p)
  <2>1. pc[p] \in {"paused"} \cup Closing /\ pc'[p] = "close_ldisc"
    BY <1>2 DEF Signal, Goto, TypeOK
  <2> QED BY <1>1, <1>2, <2>1 DEF HasLock, Closing, Entry
<1>3. CASE ~Signal(p)
  BY <1>1, <1>3 DEF Step, Uucp, Fail, OpenTty, Fetch, SetRaw, SetLdisc, Install, Kill, CloseLdisc,
         CloseMode, Clear, Exit, Goto, HasLock, Entry, Alive, TypeOK
<1> QED BY <1>2, <1>3

\* TIOCSETD sets the discipline of that line alone.
LEMMA SetSets ==
  ASSUME TypeOK, NEW t \in TTYs, NEW d \in {"N_TTY", "LUNIX"}, TtySetLdisc(t, d)
  PROVE  ldisc'[t] = d /\ \A u \in TTYs : u # t => ldisc'[u] = ldisc[u]
  BY DEF TtySetLdisc, lunix_ldisc_close, lunix_ldisc_open, line, TypeOK

\* The last close of a line takes its discipline down; an earlier one does nothing.
LEMMA LastCloses ==
  ASSUME TypeOK, Held, NEW p \in Procs, LastClose(p)
  PROVE  /\ \A u \in TTYs : u # TTYOf[p] => ldisc'[u] = ldisc[u]
         /\ \/ ldisc'[TTYOf[p]] = "N_TTY"
            \/ /\ ldisc'[TTYOf[p]] = ldisc[TTYOf[p]]
               /\ ldisc[TTYOf[p]] = "LUNIX" =>
                    \E q \in Procs : q # p /\ TTYOf[q] = TTYOf[p] /\ Open(q)
         /\ \A q \in Procs : q # p /\ Open(q) => ldisc'[TTYOf[q]] = ldisc[TTYOf[q]]
<1>a. TTYOf \in [Procs -> TTYs]
  BY AttachAssumption
<1>1. CASE Open(p) /\ \A q \in Procs \ {p} : ~(Open(q) /\ TTYOf[q] = TTYOf[p])
  <2>1. ldisc' = [ldisc EXCEPT ![TTYOf[p]] = "N_TTY"]
    BY <1>1 DEF LastClose, lunix_ldisc_close
  <2> QED BY <1>a, <1>1, <2>1 DEF TypeOK
<1>2. CASE ~(Open(p) /\ \A q \in Procs \ {p} : ~(Open(q) /\ TTYOf[q] = TTYOf[p]))
  <2>1. ldisc' = ldisc
    BY <1>2 DEF LastClose, line
  <2>2. ldisc[TTYOf[p]] = "LUNIX" => \E q \in Procs : q # p /\ TTYOf[q] = TTYOf[p] /\ Open(q)
    BY <1>a, <1>2 DEF Held
  <2> QED BY <2>1, <2>2
<1> QED BY <1>1, <1>2

LEMMA HeldNext ==
  ASSUME LineInv, NEW p \in Procs, Step(p) PROVE Held'
<1>a. TypeOK /\ Held /\ TTYOf \in [Procs -> TTYs]
  BY AttachAssumption DEF LineInv, IInv
<1>m. \A q \in Procs : q # p => pc'[q] = pc[q]
  BY <1>a, Moves
<1>o. \A q \in Procs : q # p /\ Open(q) => Open(q)'
  BY <1>m DEF Open
<1>1. CASE Fail(p) \/ Kill(p) \/ Exit(p)
  <2>1. LastClose(p)
    BY <1>1 DEF Fail, Kill, Exit
  <2>2. ASSUME NEW t \in TTYs, ldisc'[t] = "LUNIX"
        PROVE  \E q \in Procs : q # p /\ TTYOf[q] = t /\ Open(q)
    BY <1>a, <2>1, <2>2, LastCloses DEF Held
  <2> QED BY <1>o, <2>2 DEF Held
<1>2. CASE SetLdisc(p) \/ CloseLdisc(p)
  <2>1. Open(p)'
    BY <1>a, <1>2 DEF SetLdisc, CloseLdisc, Goto, Open, Closing, TypeOK
  <2>2. \A t \in TTYs : t # TTYOf[p] => ldisc'[t] = ldisc[t]
    BY <1>a, <1>2, OtherLine DEF Step
  <2> QED BY <1>a, <1>o, <2>1, <2>2 DEF Held
<1>3. CASE ~(Fail(p) \/ Kill(p) \/ Exit(p)) /\ ~(SetLdisc(p) \/ CloseLdisc(p))
  <2>1. ldisc' = ldisc
    BY <1>3 DEF Step, ReadLock, CheckLock, Creat, WritePid, Uucp, OpenTty, Fetch, SetRaw, Install, Signal,
       CloseMode, CloseLock, Clear, line
  <2>2. Open(p) => Open(p)'
    BY <1>a, <1>3 DEF Step, ReadLock, CheckLock, Creat, WritePid, Uucp, OpenTty, Fetch, SetRaw, Install, Signal,
       CloseMode, CloseLock, Clear, Goto, Open, Closing, TypeOK
  <2> QED BY <1>a, <1>o, <2>1, <2>2 DEF Held
<1> QED BY <1>1, <1>2, <1>3

\* The test of the lock file, by the first helper of the line or beside others.
LEMMA CheckGood ==
  ASSUME LineInv, NEW p \in Procs, ReadLock(p) \/ CheckLock(p) PROVE Good(TTYOf[p])'
<1> DEFINE t == TTYOf[p]
<1>a. TypeOK /\ Held /\ Good(t) /\ t \in TTYs /\ TTYOf \in [Procs -> TTYs]
  BY AttachAssumption DEF LineInv, IInv
<1>b. /\ lock' = lock /\ linked' = linked /\ saved_lock' = saved_lock /\ ldisc' = ldisc /\ mode' = mode
      /\ tty_before' = tty_before /\ ldisc_before' = ldisc_before /\ pc[p] \in {"idle", "test"}
  BY DEF ReadLock, CheckLock, files, line, saved
<1>m. \A q \in Procs : q # p => pc'[q] = pc[q]
  BY <1>a, Moves DEF Step
<1>o. \A places : {"idle", "test"} \cap places = {} => (On(t, places) => On(t, places)')
  BY <1>b, <1>m DEF On
<1>v. ASSUME ~Busy(t) PROVE \A q \in Procs : TTYOf[q] = t => pc[q] \in {"idle", "test"} \cup Ended
  BY <1>v DEF Busy
<1>1. CASE UNCHANGED past /\ (Goto(p, "refused") \/ Goto(p, "test"))
  <2>1. /\ loose' = loose /\ harmed' = harmed /\ found' = found
        /\ pc'[p] \in {"refused", "test"}
    BY <1>a, <1>1 DEF past, Goto, TypeOK
  <2>2. Locked(t) => Locked(t)'
    BY <1>b, <1>m, <2>1 DEF Locked, HasLock, Entry, Within, Ended
  <2>3. Noted(t) => Noted(t)'
    BY <1>b, <1>m, <2>1, AttachAssumption DEF Noted, HasLock
  <2>4. ASSUME Kept(t) PROVE Kept(t)'
    <3>1. \A q \in Procs :
            TTYOf[q] = t /\ pc'[q] \in {"raw", "ldisc", "handlers", "paused"} \cup Closing =>
              tty_before'[q].raw = found'[t].raw /\ ldisc_before'[q] = "N_TTY"
      BY <1>b, <1>m, <2>1, <2>4 DEF Kept, Closing
    <3>2. {"idle", "test"} \cap (RawPlaces \cup LdiscPlaces \cup HasLock \cup {"write"}) = {}
      BY DEF RawPlaces, LdiscPlaces, HasLock
    <3> QED BY <1>b, <1>o, <2>1, <2>4, <3>1, <3>2 DEF Kept
  <2> QED BY <1>a, <2>1, <2>2, <2>3, <2>4 DEF Good
<1> DEFINE Stale == \E q \in Procs \ {pid[p]} : lock[t] = q /\ Alive(q)
<1>2. CASE Goto(p, "creat") /\ Passes(p)
  <2>1. pc'[p] = "creat"
    BY <1>a, <1>2 DEF Goto, TypeOK
  <2>2. /\ loose' = [loose EXCEPT ![t] = Entering(t) \/ Stale \/ (Busy(t) /\ loose[t])]
        /\ harmed' = [harmed EXCEPT ![t] = Busy(t) /\ harmed[t]]
        /\ found' = [found EXCEPT ![t] =
                       IF Busy(t) THEN found[t] ELSE [raw |-> mode[t].raw, lock |-> lock[t]]]
    BY <1>2 DEF Passes
  <2>3. /\ loose'[t] = (Entering(t) \/ Stale \/ (Busy(t) /\ loose[t]))
        /\ harmed'[t] = (Busy(t) /\ harmed[t])
        /\ found'[t] = IF Busy(t) THEN found[t] ELSE [raw |-> mode[t].raw, lock |-> lock[t]]
    BY <1>a, <2>2 DEF TypeOK
  <2> SUFFICES ASSUME ~loose'[t] PROVE Locked(t)' /\ Noted(t)' /\ (~harmed'[t] => Kept(t)')
    BY DEF Good
  <2>4. \A q \in Procs : TTYOf[q] = t => pc[q] \notin Entry
    BY <2>3 DEF Entering, Entry
  <2>5. \A q \in Procs : q # p => ~(lock[t] = q /\ Within(q))
    <3>1. ~Stale
      BY <2>3
    <3>2. lock[t] \notin Procs \/ ~Alive(pid[p])
      BY <1>a, <2>1 DEF ReadLock, CheckLock, tty_already_locked, Goto, TypeOK
    <3> QED BY <3>1, <3>2 DEF Within, Alive
  <2>6. \A q \in Procs : q # p => (Within(q))' = Within(q)
    BY <1>m DEF Within
  <2>7. ~Busy(t) \/ (Locked(t) /\ Noted(t))
    BY <1>a, <2>3 DEF Good
  <2>8. Locked(t)'
    <3> SUFFICES ASSUME NEW q \in Procs, TTYOf[q] = t
                 PROVE  /\ pc'[q] \in HasLock => lock'[t] = q
                        /\ pc'[q] = "write" => lock'[t] = Garbage /\ linked'[q]
                        /\ pc'[q] \in Entry => \A r \in Procs : r # q /\ TTYOf[r] = t =>
                                       pc'[r] \notin Entry /\ ~(lock'[t] = r /\ Within(r)')
                        /\ pc'[q] \in {"handlers", "paused"} => ldisc'[t] = "LUNIX"
      BY DEF Locked
    <3>1. CASE q = p
      BY <1>b, <1>m, <2>1, <2>4, <2>5, <2>6, <3>1 DEF HasLock
    <3>2. CASE q # p
      <4>1. pc'[q] = pc[q] /\ pc[q] \notin Entry
        BY <1>m, <2>4, <3>2
      <4>2. CASE ~Busy(t)
        BY <1>v, <4>1, <4>2 DEF HasLock, Ended, Entry
      <4>3. CASE Locked(t)
        BY <1>b, <4>1, <4>3 DEF Locked, Entry
      <4> QED BY <2>7, <4>2, <4>3
    <3> QED BY <3>1, <3>2
  <2>9. Noted(t)'
    <3> SUFFICES ASSUME NEW q \in UucpKnown, TTYOf[q] = t
                 PROVE  /\ pc'[q] \in HasLock \ {"uucp"} => saved_lock'[q]
                        /\ pc'[q] \in {"clear", "exit"} => lock'[t] # q
      BY DEF Noted
    <3>1. CASE q = p
      BY <2>1, <3>1 DEF HasLock
    <3>2. CASE q # p
      <4>1. pc'[q] = pc[q]
        BY <1>m, <3>2, AttachAssumption
      <4> QED BY <1>b, <1>v, <2>7, <4>1, AttachAssumption DEF Noted, HasLock, Ended
    <3> QED BY <3>1, <3>2
  <2>10. ASSUME ~harmed'[t] PROVE Kept(t)'
    <3>1. CASE Busy(t)
      <4>1. Kept(t) /\ found'[t] = found[t]
        BY <1>a, <2>3, <2>10, <3>1 DEF Good
      <4>2. \A q \in Procs :
              TTYOf[q] = t /\ pc'[q] \in {"raw", "ldisc", "handlers", "paused"} \cup Closing =>
                tty_before'[q].raw = found'[t].raw /\ ldisc_before'[q] = "N_TTY"
        BY <1>b, <1>m, <2>1, <4>1 DEF Kept, Closing
      <4>3. {"idle", "test"} \cap (RawPlaces \cup LdiscPlaces \cup HasLock \cup {"write"}) = {}
        BY DEF RawPlaces, LdiscPlaces, HasLock
      <4> QED BY <1>b, <1>o, <4>1, <4>2, <4>3 DEF Kept
    <3>2. CASE ~Busy(t)
      <4>1. found'[t].raw = mode'[t].raw /\ found'[t].lock = lock'[t]
        BY <1>b, <2>3, <3>2
      <4>2. ldisc'[t] # "LUNIX"
        BY <1>a, <1>b, <1>v, <3>2 DEF Held, Open, Closing, Ended
      <4>3. \A q \in Procs : TTYOf[q] = t =>
              pc'[q] \notin {"raw", "ldisc", "handlers", "paused"} \cup Closing
        BY <1>v, <1>m, <2>1, <3>2 DEF Closing, Ended
      <4> QED BY <4>1, <4>2, <4>3 DEF Kept
    <3> QED BY <3>1, <3>2
  <2> QED BY <2>8, <2>9, <2>10
<1> QED BY <1>1, <1>2 DEF ReadLock, CheckLock

\* The lock keeps its line, past the test.
LEMMA LockedNext ==
  ASSUME LineInv, NEW p \in Procs, Step(p), ~ReadLock(p), ~CheckLock(p), ~loose'[TTYOf[p]]
  PROVE  Locked(TTYOf[p])'
<1> DEFINE t == TTYOf[p]
<1>a. /\ TypeOK /\ Held /\ t \in TTYs /\ TTYOf \in [Procs -> TTYs]
      /\ Garbage \notin Procs /\ NoFile \notin Procs
  BY AttachAssumption DEF LineInv, IInv
<1>m. \A q \in Procs : q # p => pc'[q] = pc[q]
  BY <1>a, Moves
<1>l. Locked(t)
  BY <1>a, Tight DEF LineInv, Good
<1>v. \A q \in Procs : Within(q)' => Within(q)
  <2>1. Within(p)' => Within(p)
    BY <1>a DEF Step, Creat, WritePid, Uucp, Fail, OpenTty, Fetch, SetRaw, SetLdisc, Install, Kill,
       Signal, CloseLdisc, CloseMode, CloseLock, Clear, Exit, Within, Closing, Ended, Goto, TypeOK
  <2> QED BY <1>m, <2>1 DEF Within
<1> DEFINE Part1 == \A q \in Procs : TTYOf[q] = t =>
                      /\ pc'[q] \in HasLock => lock'[t] = q
                      /\ pc'[q] = "write" => lock'[t] = Garbage /\ linked'[q]
           Part2 == \A q \in Procs : TTYOf[q] = t /\ pc'[q] \in Entry =>
                      \A r \in Procs : r # q /\ TTYOf[r] = t =>
                        pc'[r] \notin Entry /\ ~(lock'[t] = r /\ Within(r)')
           Part3 == \A q \in Procs : TTYOf[q] = t /\ pc'[q] \in {"handlers", "paused"} =>
                      ldisc'[t] = "LUNIX"
<1>1. Part1 /\ Part2
  <2>1. CASE Creat(p)
    <3>0. pc[p] = "creat" /\ \A q \in Procs : q # p /\ TTYOf[q] = t =>
            pc[q] \notin Entry \cup HasLock
      BY <2>1, <1>l DEF Creat, Locked, Entry, HasLock, Within, Ended
    <3>1. CASE lock' = [lock EXCEPT ![t] = Garbage] /\ linked' = [linked EXCEPT ![p] = TRUE]
               /\ Goto(p, "write")
      <4>1. pc'[p] = "write" /\ lock'[t] = Garbage /\ linked'[p]
        BY <1>a, <3>1 DEF Goto, TypeOK
      <4> QED BY <1>a, <1>m, <3>0, <4>1 DEF HasLock, Entry
    <3>2. CASE Goto(p, "refused") /\ UNCHANGED <<lock, linked>>
      <4>1. pc'[p] = "refused"
        BY <1>a, <3>2 DEF Goto, TypeOK
      <4> QED BY <1>m, <3>0, <3>2, <4>1 DEF HasLock, Entry
    <3> QED BY <2>1, <3>1, <3>2 DEF Creat
  <2>2. CASE WritePid(p)
    <3>0. /\ pc[p] = "write" /\ lock[t] = Garbage /\ linked[p]
          /\ \A q \in Procs : q # p /\ TTYOf[q] = t => pc[q] \notin Entry \cup HasLock
      BY <1>a, <2>2, <1>l DEF WritePid, Locked, Entry, HasLock
    <3>1. CASE lock' = [lock EXCEPT ![t] = p] /\ Goto(p, "uucp")
      <4>1. pc'[p] = "uucp" /\ lock'[t] = p
        BY <1>a, <3>1 DEF Goto, TypeOK
      <4> QED BY <1>m, <3>0, <4>1 DEF HasLock, Entry
    <3>2. CASE Goto(p, "refused")
      <4>1. pc'[p] = "refused"
        BY <1>a, <3>2 DEF Goto, TypeOK
      <4> QED BY <1>m, <3>0, <4>1 DEF HasLock, Entry
    <3> QED BY <2>2, <3>0, <3>1, <3>2 DEF WritePid
  <2>3. CASE CloseLock(p)
    <3>0. pc[p] = "close_lock" /\ lock[t] = p /\ Within(p)
      BY <2>3, <1>l DEF CloseLock, Locked, HasLock, Within, Ended
    <3>1. pc'[p] \in {"clear", "exit"}
      BY <1>a, <2>3 DEF CloseLock, Goto, TypeOK
    <3>2. \A q \in Procs : q # p /\ TTYOf[q] = t => pc[q] \notin Entry \cup HasLock
      BY <1>l, <3>0 DEF Locked
    <3> QED BY <1>m, <3>1, <3>2 DEF HasLock, Entry
  <2>4. CASE ~Creat(p) /\ ~WritePid(p) /\ ~CloseLock(p)
    <3>1. /\ lock' = lock /\ linked' = linked
          /\ pc'[p] \in HasLock => pc[p] \in HasLock \/ (Signal(p) /\ pc[p] \in {"clear", "exit"})
          /\ pc'[p] \notin Entry
      BY <1>a, <2>4, Elsewhere
    <3>2. pc'[p] \in HasLock => lock[t] = p
      BY <1>a, <1>l, <3>1, Tight DEF Locked
    <3>3. Part1
      BY <1>m, <1>l, <3>1, <3>2 DEF Locked, Entry
    <3>4. Part2
      <4> SUFFICES ASSUME NEW q \in Procs, TTYOf[q] = t, pc'[q] \in Entry,
                          NEW r \in Procs, r # q, TTYOf[r] = t
                   PROVE  pc'[r] \notin Entry /\ ~(lock'[t] = r /\ Within(r)')
        OBVIOUS
      <4>1. q # p /\ pc[q] \in Entry
        BY <1>m, <3>1
      <4>2. pc[r] \notin Entry /\ ~(lock[t] = r /\ Within(r))
        BY <1>l, <4>1 DEF Locked
      <4> QED BY <1>m, <1>v, <3>1, <4>2
    <3> QED BY <3>3, <3>4
  <2> QED BY <2>1, <2>2, <2>3, <2>4
<1>2. Part3
  <2> SUFFICES ASSUME NEW q \in Procs, TTYOf[q] = t, pc'[q] \in {"handlers", "paused"}
               PROVE  ldisc'[t] = "LUNIX"
    OBVIOUS
  <2>1. CASE SetLdisc(p)
    BY <1>a, <2>1, SetSets DEF SetLdisc
  <2>2. CASE CloseLdisc(p)
    <3>1. pc[p] = "close_ldisc" /\ pc'[p] = "close_mode"
      BY <1>a, <2>2 DEF CloseLdisc, Goto, TypeOK
    <3>2. q # p /\ pc[q] \in HasLock /\ pc[p] \in HasLock
      BY <1>m, <3>1 DEF HasLock
    <3> QED BY <1>l, <3>2 DEF Locked
  <2>3. CASE Fail(p) \/ Kill(p) \/ Exit(p)
    <3>1. pc'[p] \in {"failed", "killed", "detached"} /\ LastClose(p)
      BY <1>a, <2>3 DEF Fail, Kill, Exit, Goto, TypeOK
    <3>2. q # p /\ pc[q] \in {"handlers", "paused"} /\ Open(q)
      BY <1>m, <3>1 DEF Open
    <3>3. ldisc'[t] = ldisc[t]
      BY <1>a, <3>1, <3>2, LastCloses
    <3> QED BY <1>l, <3>2, <3>3 DEF Locked
  <2>4. CASE ~SetLdisc(p) /\ ~CloseLdisc(p) /\ ~(Fail(p) \/ Kill(p) \/ Exit(p))
    <3>1. ldisc' = ldisc
      BY <2>4 DEF Step, Creat, WritePid, Uucp, OpenTty, Fetch, SetRaw, Install, Signal,
         CloseMode, CloseLock, Clear, line
    <3>2. pc'[p] \in {"handlers", "paused"} => pc[p] \in {"handlers", "paused"}
      BY <1>a, <2>4 DEF Step, Creat, WritePid, Uucp, OpenTty, Fetch, SetRaw, Install, Signal,
         CloseMode, CloseLock, Clear, Goto, TypeOK
    <3>3. pc[q] \in {"handlers", "paused"}
      BY <1>m, <3>2
    <3> QED BY <1>l, <3>1, <3>3 DEF Locked
  <2> QED BY <2>1, <2>2, <2>3, <2>4
<1> QED BY <1>1, <1>2 DEF Locked

\* Whoever finds the user uucp has its lock noted, and gives it up.
LEMMA NotedNext ==
  ASSUME LineInv, NEW p \in Procs, Step(p), ~ReadLock(p), ~CheckLock(p), ~loose'[TTYOf[p]]
  PROVE  Noted(TTYOf[p])'
<1> DEFINE t == TTYOf[p]
<1>a. TypeOK /\ t \in TTYs /\ TTYOf \in [Procs -> TTYs] /\ UucpKnown \subseteq Procs /\ NoFile \notin Procs
      /\ Garbage \notin Procs
  BY AttachAssumption DEF LineInv, IInv
<1>m. \A q \in Procs : q # p => pc'[q] = pc[q]
  BY <1>a, Moves
<1>l. Locked(t) /\ Noted(t)
  BY <1>a, Tight DEF LineInv, Good
<1> SUFFICES ASSUME NEW q \in UucpKnown, TTYOf[q] = t
             PROVE  /\ pc'[q] \in HasLock \ {"uucp"} => saved_lock'[q]
                    /\ pc'[q] \in {"clear", "exit"} => lock'[t] # q
  BY DEF Noted
<1>q. q \in Procs
  BY <1>a
<1>1. CASE q # p
  <2>1. pc'[q] = pc[q]
    BY <1>m, <1>q, <1>1
  <2>2. saved_lock'[q] = saved_lock[q]
    BY <1>a, <1>q, <1>1 DEF Step, Creat, WritePid, Uucp, Fail, OpenTty, Fetch, SetRaw, SetLdisc, Install,
       Kill, Signal, CloseLdisc, CloseMode, CloseLock, Clear, Exit, files, TypeOK
  <2>3. lock'[t] = lock[t] \/ lock'[t] \in {NoFile, Garbage, p}
    BY <1>a DEF Step, Creat, WritePid, Uucp, Fail, OpenTty, Fetch, SetRaw, SetLdisc, Install,
       Kill, Signal, CloseLdisc, CloseMode, CloseLock, Clear, Exit, Unlink, files, TypeOK
  <2> QED BY <1>a, <1>q, <1>l, <1>1, <2>1, <2>2, <2>3 DEF Noted
<1>2. CASE q = p /\ CloseLock(p)
  <2>1. pc[p] = "close_lock" /\ saved_lock[p] /\ lock[t] = p
    BY <1>q, <1>l, <1>2 DEF CloseLock, Noted, Locked, HasLock
  <2>2. Unlink(t) /\ pc'[p] = "clear"
    BY <1>a, <1>2, <2>1 DEF CloseLock, Goto, TypeOK
  <2>3. lock'[t] = NoFile
    BY <1>a, <2>2 DEF Unlink, TypeOK
  <2> QED BY <1>a, <1>q, <1>2, <2>2, <2>3 DEF HasLock
<1>3. CASE q = p /\ Uucp(p)
  BY <1>a, <1>q, <1>3 DEF Uucp, Goto, TypeOK
<1>4. CASE q = p /\ (Creat(p) \/ WritePid(p))
  BY <1>a, <1>4 DEF Creat, WritePid, Goto, HasLock, TypeOK
<1>5. CASE q = p /\ ~CloseLock(p) /\ ~Uucp(p) /\ ~Creat(p) /\ ~WritePid(p)
  <2>1. /\ lock' = lock
        /\ pc'[p] \in HasLock => pc[p] \in HasLock \/ (Signal(p) /\ pc[p] \in {"clear", "exit"})
        /\ pc'[p] \in {"clear", "exit"} => pc[p] = "clear"
    BY <1>a, <1>5, Elsewhere
  <2>2. pc'[p] \in HasLock => pc[p] \in HasLock
    BY <1>a, <1>l, <1>5, <2>1, Tight DEF Noted
  <2>3. pc'[p] \in HasLock => pc[p] # "uucp"
    BY <1>a, <1>5 DEF Step, Fail, OpenTty, Fetch, SetRaw, SetLdisc, Install,
       Kill, Signal, CloseLdisc, CloseMode, Clear, Exit, Goto, Closing, HasLock, TypeOK
  <2>4. pc'[p] \in HasLock => saved_lock' = saved_lock
    BY <1>a, <1>5 DEF Step, Fail, OpenTty, Fetch, SetRaw, SetLdisc, Install,
       Kill, Signal, CloseLdisc, CloseMode, Clear, Exit, Goto, files, HasLock, TypeOK
  <2> QED BY <1>l, <1>5, <2>1, <2>2, <2>3, <2>4 DEF Noted, HasLock
<1> QED BY <1>1, <1>2, <1>3, <1>4, <1>5

\* A helper that steps outside the places of the lock.
LEMMA KeptOutside ==
  ASSUME LineInv, NEW p \in Procs, Step(p), ~ReadLock(p), ~CheckLock(p), pc[p] \notin HasLock,
         ~loose'[TTYOf[p]], ~harmed'[TTYOf[p]]
  PROVE  Kept(TTYOf[p])'
<1> DEFINE t == TTYOf[p]
<1>a. /\ TypeOK /\ Held /\ t \in TTYs /\ TTYOf \in [Procs -> TTYs]
      /\ Garbage \notin Procs /\ NoFile \notin Procs
  BY AttachAssumption DEF LineInv, IInv
<1>m. \A q \in Procs : q # p => pc'[q] = pc[q]
  BY <1>a, Moves
<1>l. /\ Locked(t) /\ Noted(t) /\ Kept(t) /\ found' = found /\ ~Fail(p) /\ ~Kill(p)
      /\ Signal(p) => pc[p] \notin {"clear", "exit"} \/ lock[t] = p
  BY <1>a, Tight DEF LineInv, Good
<1>1. Signal(p) \/ Creat(p) \/ WritePid(p) \/ Clear(p) \/ Exit(p)
  BY <1>a, <1>l DEF Step, Uucp, OpenTty, Fetch, SetRaw, SetLdisc, Install, CloseLdisc, CloseMode,
     CloseLock, HasLock
<1>2. mode' = mode /\ tty_before' = tty_before /\ ldisc_before' = ldisc_before
  BY <1>1 DEF Signal, Creat, WritePid, Clear, Exit, saved
<1>3. ldisc'[t] = "LUNIX" => ldisc[t] = "LUNIX"
  BY <1>a, <1>1 DEF Signal, Creat, WritePid, Clear, Exit, LastClose, lunix_ldisc_close, line, TypeOK
<1>4. On(t, RawPlaces) => On(t, RawPlaces)'
  BY <1>m DEF On, RawPlaces, HasLock
<1>5. On(t, LdiscPlaces) => On(t, LdiscPlaces)'
  BY <1>m DEF On, LdiscPlaces, HasLock
<1>6. lock'[t] \notin {NoFile, found[t].lock} \cup (Procs \ UucpKnown) =>
        On(t, HasLock \cup {"write"})'
  <2>1. CASE lock' = lock /\ pc[p] # "write"
    BY <1>a, <1>l, <1>m, <2>1 DEF Kept, On
  <2>2. CASE pc'[p] \in {"write", "uucp"}
    BY <2>2 DEF On, HasLock
  <2>3. CASE Unlink(t)
    BY <1>a, <2>3 DEF Unlink, TypeOK
  <2> QED BY <1>a, <1>1, <2>1, <2>2, <2>3 DEF Signal, Creat, WritePid, Clear, Exit, Goto, files,
             Closing, TypeOK
<1>7. \A q \in Procs :
        TTYOf[q] = t /\ pc'[q] \in {"raw", "ldisc", "handlers", "paused"} \cup Closing =>
          tty_before[q].raw = found[t].raw /\ ldisc_before[q] = "N_TTY"
  <2>1. pc'[p] \in {"raw", "ldisc", "handlers", "paused"} \cup Closing =>
          pc[p] \in {"paused"} \cup Closing
    BY <1>a, <1>1 DEF Signal, Creat, WritePid, Clear, Exit, Goto, Closing, TypeOK
  <2> QED BY <1>m, <1>l, <2>1 DEF Kept
<1> QED BY <1>l, <1>2, <1>3, <1>4, <1>5, <1>6, <1>7 DEF Kept

\* The helper that has the lock is the only one that matters for its line.
LEMMA KeptInside ==
  ASSUME LineInv, NEW p \in Procs, Step(p), ~ReadLock(p), ~CheckLock(p), pc[p] \in HasLock,
         ~loose'[TTYOf[p]], ~harmed'[TTYOf[p]]
  PROVE  Kept(TTYOf[p])'
<1> DEFINE t == TTYOf[p]
           Past == {"raw", "ldisc", "handlers", "paused"} \cup Closing
<1>a. /\ TypeOK /\ Held /\ t \in TTYs /\ TTYOf \in [Procs -> TTYs] /\ UucpKnown \subseteq Procs
      /\ Garbage \notin Procs /\ NoFile \notin Procs
  BY AttachAssumption DEF LineInv, IInv
<1>m. \A q \in Procs : q # p => pc'[q] = pc[q]
  BY <1>a, Moves
<1>l. /\ Locked(t) /\ Noted(t) /\ Kept(t) /\ found' = found /\ ~Fail(p) /\ ~Kill(p)
  BY <1>a, Tight DEF LineInv, Good
<1>b. lock[t] = p
  BY <1>l DEF Locked
<1>c. \A q \in Procs : TTYOf[q] = t /\ pc[q] \in HasLock => q = p
  BY <1>l, <1>b DEF Locked
<1>d. /\ mode[t].raw # found[t].raw => pc[p] \in RawPlaces
      /\ ldisc[t] = "LUNIX" => pc[p] \in LdiscPlaces
  BY <1>l, <1>c DEF Kept, On, RawPlaces, LdiscPlaces, HasLock
<1>e. \A places : pc'[p] \in places => On(t, places)'
  BY DEF On
<1>f. \A q \in Procs : TTYOf[q] = t /\ pc[q] \in Past =>
        tty_before[q].raw = found[t].raw /\ ldisc_before[q] = "N_TTY"
  BY <1>l DEF Kept
<1>s. ASSUME UNCHANGED <<tty_before, ldisc_before>>, pc'[p] \in Past => pc[p] \in Past
      PROVE  \A q \in Procs : TTYOf[q] = t /\ pc'[q] \in Past =>
               tty_before'[q].raw = found'[t].raw /\ ldisc_before'[q] = "N_TTY"
  BY <1>m, <1>l, <1>f, <1>s
<1>h. pc'[p] \in HasLock => On(t, HasLock \cup {"write"})'
  BY <1>e
<1>1. CASE Uucp(p) \/ OpenTty(p) \/ Install(p) \/ Signal(p)
  <2>1. /\ UNCHANGED <<mode, ldisc, lock, tty_before, ldisc_before>>
        /\ \/ pc[p] \in {"uucp", "open"} /\ pc'[p] \in {"open", "fetch"}
           \/ pc[p] = "handlers" /\ pc'[p] = "paused"
           \/ pc[p] \in {"paused"} \cup Closing /\ pc'[p] = "close_ldisc"
    BY <1>a, <1>1 DEF Uucp, OpenTty, Install, Signal, Goto, files, line, saved, TypeOK
  <2>2. pc[p] \in RawPlaces => pc'[p] \in RawPlaces
    BY <2>1 DEF RawPlaces
  <2>3. pc[p] \in LdiscPlaces => pc'[p] \in LdiscPlaces
    BY <2>1 DEF LdiscPlaces
  <2>4. pc'[p] \in HasLock /\ (pc'[p] \in Past => pc[p] \in Past)
    BY <2>1 DEF HasLock, Closing
  <2> QED BY <1>d, <1>e, <1>h, <1>l, <1>s, <2>1, <2>2, <2>3, <2>4 DEF Kept
<1>3. CASE Fetch(p)
  <2>1. /\ UNCHANGED <<mode, ldisc, lock>> /\ pc[p] = "fetch" /\ pc'[p] = "raw"
        /\ tty_before' = [tty_before EXCEPT ![p] = mode[t]]
        /\ ldisc_before' = [ldisc_before EXCEPT ![p] = ldisc[t]]
    BY <1>a, <1>3 DEF Fetch, Goto, files, line, TypeOK
  <2>2. mode[t].raw = found[t].raw /\ ldisc[t] = "N_TTY"
    BY <1>a, <1>d, <2>1 DEF RawPlaces, LdiscPlaces, TypeOK
  <2>3. \A q \in Procs : TTYOf[q] = t /\ pc'[q] \in Past =>
          tty_before'[q].raw = found'[t].raw /\ ldisc_before'[q] = "N_TTY"
    BY <1>a, <1>m, <1>f, <1>l, <2>1, <2>2 DEF TypeOK
  <2>4. On(t, HasLock \cup {"write"})'
    BY <1>h, <2>1 DEF HasLock
  <2> QED BY <1>l, <2>1, <2>2, <2>3, <2>4 DEF Kept
<1>4. CASE SetRaw(p)
  <2>1. UNCHANGED <<ldisc, lock, tty_before, ldisc_before>> /\ pc[p] = "raw" /\ pc'[p] = "ldisc"
    BY <1>a, <1>4 DEF SetRaw, Goto, files, line, saved, TypeOK
  <2>2. On(t, HasLock \cup {"write"})' /\ On(t, RawPlaces)'
    BY <1>e, <1>h, <2>1 DEF HasLock, RawPlaces
  <2> QED BY <1>a, <1>d, <1>s, <2>1, <2>2 DEF Kept, LdiscPlaces
<1>5. CASE SetLdisc(p)
  <2>1. UNCHANGED <<mode, lock, tty_before, ldisc_before>> /\ pc[p] = "ldisc" /\ pc'[p] = "handlers"
    BY <1>a, <1>5 DEF SetLdisc, Goto, files, saved, TypeOK
  <2>2. On(t, HasLock \cup {"write"})' /\ On(t, RawPlaces)' /\ On(t, LdiscPlaces)'
    BY <1>e, <1>h, <2>1 DEF HasLock, RawPlaces, LdiscPlaces
  <2> QED BY <1>a, <1>s, <2>1, <2>2 DEF Kept
<1>6. CASE CloseLdisc(p)
  <2>0. pc[p] = "close_ldisc" /\ ldisc_before[p] = "N_TTY"
    BY <1>6, <1>f DEF CloseLdisc, Closing
  <2>1. UNCHANGED <<mode, lock, tty_before, ldisc_before>> /\ pc'[p] = "close_mode"
        /\ TtySetLdisc(t, "N_TTY")
    BY <1>a, <1>6, <2>0 DEF CloseLdisc, Goto, files, saved, TypeOK
  <2>2. ldisc'[t] = "N_TTY"
    BY <1>a, <2>1, SetSets
  <2>3. On(t, HasLock \cup {"write"})' /\ On(t, RawPlaces)'
    BY <1>e, <1>h, <2>1 DEF HasLock, RawPlaces
  <2> QED BY <1>a, <1>s, <2>0, <2>1, <2>2, <2>3 DEF Kept, Closing
<1>7. CASE CloseMode(p)
  <2>0. pc[p] = "close_mode" /\ tty_before[p].raw = found[t].raw
    BY <1>7, <1>f DEF CloseMode, Closing
  <2>1. /\ UNCHANGED <<ldisc, lock, tty_before, ldisc_before>> /\ pc'[p] = "close_lock"
        /\ mode' = [mode EXCEPT ![t] = [raw |-> tty_before[p].raw, hup |-> TRUE]]
    BY <1>a, <1>7 DEF CloseMode, Goto, files, line, saved, TypeOK
  <2>2. mode'[t].raw = found'[t].raw
    BY <1>a, <1>l, <2>0, <2>1 DEF TypeOK
  <2>3. On(t, HasLock \cup {"write"})'
    BY <1>h, <2>1 DEF HasLock
  <2> QED BY <1>a, <1>d, <1>s, <2>0, <2>1, <2>2, <2>3 DEF Kept, LdiscPlaces, Closing
<1>8. CASE CloseLock(p)
  <2>1. UNCHANGED <<mode, ldisc, tty_before, ldisc_before>> /\ pc[p] = "close_lock"
    BY <1>8 DEF CloseLock, line, saved
  <2>2. lock'[t] \in {NoFile} \cup (Procs \ UucpKnown)
    <3>1. CASE saved_lock[p]
      BY <1>a, <1>b, <1>8, <3>1 DEF CloseLock, Unlink, TypeOK
    <3>2. CASE ~saved_lock[p]
      <4>1. p \notin UucpKnown
        BY <1>l, <2>1, <3>2 DEF Noted, HasLock
      <4>2. lock' = lock
        BY <1>8, <3>2 DEF CloseLock
      <4> QED BY <1>b, <4>1, <4>2
    <3> QED BY <3>1, <3>2
  <2> QED BY <1>a, <1>d, <1>l, <1>s, <2>1, <2>2 DEF Kept, RawPlaces, LdiscPlaces, Closing
<1>10. pc[p] \notin {"idle", "creat", "write", "clear", "exit"}
  BY DEF HasLock
<1> QED BY <1>1, <1>3, <1>4, <1>5, <1>6, <1>7, <1>8, <1>10, <1>l
        DEF Step, Creat, WritePid, Clear, Exit

LEMMA LineInitial == Init => LineInv
<1> SUFFICES ASSUME Init PROVE LineInv
  OBVIOUS
<1>1. IInv
  BY Initial
<1>2. Held
  BY DEF Init, Held
<1>3. \A t \in TTYs : Locked(t) /\ Noted(t) /\ Kept(t)
  BY AttachAssumption DEF Init, Locked, Noted, Kept, HasLock, Entry, Closing, Normal
<1> QED BY <1>1, <1>2, <1>3 DEF LineInv, Good

LEMMA LineInductive == LineInv /\ [Next]_vars => LineInv'
<1> SUFFICES ASSUME LineInv, [Next]_vars PROVE LineInv'
  OBVIOUS
<1>1. IInv'
  BY Inductive DEF LineInv
<1>2. CASE UNCHANGED vars
  <2>1. Held'
    BY <1>2 DEF LineInv, Held, Open, vars
  <2>2. ASSUME NEW t \in TTYs PROVE Good(t)'
    BY <1>2 DEF LineInv, Good, Locked, Noted, Kept, On, Within, vars
  <2> QED BY <1>1, <2>1, <2>2 DEF LineInv
<1>3. ASSUME NEW p \in Procs, Step(p) PROVE LineInv'
  <2>1. Good(TTYOf[p])'
    <3>1. CASE ReadLock(p) \/ CheckLock(p)
      BY <3>1, CheckGood
    <3>2. CASE ~ReadLock(p) /\ ~CheckLock(p)
      BY <1>3, <3>2, LockedNext, NotedNext, KeptOutside, KeptInside DEF Good
    <3> QED BY <3>1, <3>2
  <2>2. \A t \in TTYs : Good(t)'
    BY <1>3, <2>1, OtherGood
  <2> QED BY <1>1, <1>3, <2>2, HeldNext DEF LineInv
<1> QED BY <1>2, <1>3 DEF Next

\* Two helpers work on one line only if their set-ups overlapped between reading the
\* lock file and writing the pid, or if one closed the line anew without its lock: for
\* any number of helpers, lines and nested signals, with helpers that fail or are
\* killed at any step and whatever stale locks they leave.
THEOREM LockCorrect == Spec => []LockExclusive
<1>1. LineInv => LockExclusive
  <2> SUFFICES ASSUME LineInv, NEW p \in Procs, NEW q \in Procs, TTYOf[p] = TTYOf[q], Open(p), Open(q),
                      ~loose[TTYOf[p]],
                      pc[p] \notin {"clear", "exit"}, pc[q] \notin {"clear", "exit"}
               PROVE  p = q
    BY DEF LockExclusive
  <2>1. pc[p] \in HasLock /\ pc[q] \in HasLock
    BY DEF Open, HasLock, Closing
  <2> QED BY <2>1, AttachAssumption DEF LineInv, Good, Locked
<1> QED BY <1>1, LineInitial, LineInductive, PTL DEF Spec

\* Unless the lock of its line was got round in one of those two ways, nobody takes
\* the discipline or the lock from a helper that waits in pause().
THEOREM AttachedCorrect == Spec => []AttachedWhilePaused
<1>1. LineInv => AttachedWhilePaused
  BY AttachAssumption DEF LineInv, Good, Locked, HasLock, AttachedWhilePaused
<1> QED BY <1>1, LineInitial, LineInductive, PTL DEF Spec

\* A line without helpers has N_TTY; if none of the last ones failed, was killed or
\* got round the lock, it is as the first one found it, with no lock file but one of
\* before or one of a helper that did not find the user uucp.
THEOREM ReleasedCorrect == Spec => []LineReleased
<1>1. LineInv => LineReleased
  <2> SUFFICES ASSUME LineInv, NEW t \in TTYs, ~Busy(t)
               PROVE  /\ ldisc[t] = "N_TTY"
                      /\ ~loose[t] /\ ~harmed[t] =>
                           /\ mode[t].raw = found[t].raw
                           /\ lock[t] \in {NoFile, found[t].lock} \cup (Procs \ UucpKnown)
    BY DEF LineReleased
  <2>1. \A q \in Procs : TTYOf[q] = t => pc[q] \in {"idle", "test"} \cup Ended
    BY DEF Busy
  <2>2. ldisc[t] = "N_TTY"
    BY <2>1 DEF LineInv, IInv, TypeOK, Held, Open, Closing, Ended
  <2>3. ~On(t, RawPlaces) /\ ~On(t, LdiscPlaces) /\ ~On(t, HasLock \cup {"write"})
    BY <2>1 DEF On, RawPlaces, LdiscPlaces, HasLock, Ended
  <2>4. ~loose[t] /\ ~harmed[t] => Kept(t)
    BY DEF LineInv, Good
  <2> QED BY <2>2, <2>3, <2>4 DEF Kept
<1> QED BY <1>1, LineInitial, LineInductive, PTL DEF Spec
=============================================================================
