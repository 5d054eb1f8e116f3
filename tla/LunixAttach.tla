----------------------------- MODULE LunixAttach -----------------------------
(***************************************************************************)
(* The userspace helper lunix-attach, which puts the Lunix:TNG line        *)
(* discipline on a TTY, with the open and close operations of the          *)
(* discipline (lunix-ldisc.c).  Several helpers run at once; each may be   *)
(* killed at any step, and the signals it catches may arrive while it is   *)
(* already closing the line.                                               *)
(***************************************************************************)
EXTENDS Integers

CONSTANTS
  Procs,      \* the helper processes, each started at most once (pids)
  TTYs,       \* the serial lines
  TTYOf,      \* the line given to each helper on its command line
  UucpKnown,  \* the helpers for which getpwnam(_UID_UUCP) finds the user
  MaxSignals  \* bound on the caught signals of a helper

NoFile == "no file"
Garbage == "no pid"

ASSUME AttachAssumption ==
  /\ TTYOf \in [Procs -> TTYs]
  /\ UucpKnown \subseteq Procs
  /\ MaxSignals \in Nat
  /\ NoFile \notin Procs /\ Garbage \notin Procs

VARIABLES
  pc,            \* where each helper stands
  lock,          \* what the lock file of each line holds
  linked,        \* is the file a helper created still the one at the path?
  saved_lock,    \* tty_lock's static flag, per helper
  pid,           \* the pid a helper has read from the lock file
  ldisc,         \* the line discipline of each TTY
  mode,          \* the line mode of each TTY
  ldisc_before,  \* the discipline each helper found
  tty_before,    \* the mode each helper found
  available,     \* lunix_disc_available
  signals,       \* caught signals delivered to each helper
  \* History, for the properties; each begins anew with the first helper of a line
  \* that has none.
  loose,         \* was the lock of the line got round?
  harmed,        \* did a helper of the line fail, or was it killed?
  found          \* the line and its lock file as the first helper found them

vars == <<pc, lock, linked, saved_lock, pid, ldisc, mode, ldisc_before, tty_before,
          available, signals, loose, harmed, found>>
past == <<loose, harmed, found>>
files == <<lock, linked, saved_lock, pid>>
line == <<ldisc, available>>
saved == <<ldisc_before, tty_before>>

\* The steps of tty_open and main up to the handlers, those of tty_close, and
\* the ways a helper ends.
Setup   == {"test", "creat", "write", "uucp", "open", "fetch", "raw", "ldisc", "handlers"}
Closing == {"close_ldisc", "close_mode", "close_lock", "clear", "exit"}
Ended   == {"refused", "failed", "detached", "killed"}

Mode == [raw : BOOLEAN, hup : BOOLEAN]

\* Type invariant: lunix_disc_available stays 0 or 1.
TypeOK ==
  /\ pc \in [Procs -> {"idle", "paused"} \cup Setup \cup Closing \cup Ended]
  /\ lock \in [TTYs -> Procs \cup {NoFile, Garbage}]
  /\ linked \in [Procs -> BOOLEAN]
  /\ saved_lock \in [Procs -> BOOLEAN]
  /\ pid \in [Procs -> Procs \cup {NoFile}]
  /\ ldisc \in [TTYs -> {"N_TTY", "LUNIX"}]
  /\ mode \in [TTYs -> Mode]
  /\ ldisc_before \in [Procs -> {"N_TTY", "LUNIX"}]
  /\ tty_before \in [Procs -> Mode]
  /\ available \in 0..1
  /\ signals \in [Procs -> 0..MaxSignals]
  /\ loose \in [TTYs -> BOOLEAN]
  /\ harmed \in [TTYs -> BOOLEAN]
  /\ found \in [TTYs -> [raw : BOOLEAN, lock : Procs \cup {NoFile, Garbage}]]

Normal == [raw |-> FALSE, hup |-> FALSE]

Init ==
  /\ pc = [p \in Procs |-> "idle"]
  /\ lock = [t \in TTYs |-> NoFile]
  /\ linked = [p \in Procs |-> FALSE]
  /\ saved_lock = [p \in Procs |-> FALSE]
  /\ pid = [p \in Procs |-> NoFile]
  /\ ldisc = [t \in TTYs |-> "N_TTY"]
  /\ mode = [t \in TTYs |-> Normal]
  /\ ldisc_before = [p \in Procs |-> "N_TTY"]
  /\ tty_before = [p \in Procs |-> Normal]
  /\ available = 1
  /\ signals = [p \in Procs |-> 0]
  /\ loose = [t \in TTYs |-> FALSE]
  /\ harmed = [t \in TTYs |-> FALSE]
  /\ found = [t \in TTYs |-> [raw |-> FALSE, lock |-> NoFile]]

Alive(p) == pc[p] \notin {"idle"} \cup Ended
Open(p) == pc[p] \in {"fetch", "raw", "ldisc", "handlers", "paused"} \cup Closing
Goto(p, l) == pc' = [pc EXCEPT ![p] = l]

\* Is a helper of the line past its test of the lock file, and is one between that
\* and its pid?
Busy(t) == \E q \in Procs : TTYOf[q] = t /\ pc[q] \notin {"idle", "test"} \cup Ended
Entering(t) == \E q \in Procs : TTYOf[q] = t /\ pc[q] \in {"creat", "write"}

-----------------------------------------------------------------------------
(* The line discipline *)

\* lunix_ldisc_open: the one association is taken if it is free, else -EBUSY.
lunix_ldisc_open(t) ==
  /\ available > 0
  /\ available' = available - 1
  /\ ldisc' = [ldisc EXCEPT ![t] = "LUNIX"]

\* lunix_ldisc_close, when N_TTY replaces the discipline that is set.
lunix_ldisc_close(t) ==
  /\ available' = IF ldisc[t] = "LUNIX" THEN available + 1 ELSE available
  /\ ldisc' = [ldisc EXCEPT ![t] = "N_TTY"]

\* TIOCSETD: setting the discipline that is set does nothing; a refused open
\* puts the old one back.
TtySetLdisc(t, d) ==
  \/ ldisc[t] = d /\ UNCHANGED line
  \/ ldisc[t] # d /\ d = "N_TTY" /\ lunix_ldisc_close(t)
  \/ ldisc[t] # d /\ d = "LUNIX" /\ lunix_ldisc_open(t)

\* The end of a process closes its descriptor; the last close of a TTY takes its
\* discipline down.
LastClose(p) ==
  IF Open(p) /\ \A q \in Procs \ {p} : ~(Open(q) /\ TTYOf[q] = TTYOf[p])
  THEN lunix_ldisc_close(TTYOf[p])
  ELSE UNCHANGED line

-----------------------------------------------------------------------------
(* tty_lock(path, 1) *)

\* History: a helper gets past the test, beside one that has got past it as well and
\* has not written its pid, or has written it since this one looked; or as the first
\* one of the line.
Passes(p) ==
  LET t == TTYOf[p]
      stale == \E q \in Procs \ {pid[p]} : lock[t] = q /\ Alive(q)
  IN  /\ loose' = [loose EXCEPT ![t] = Entering(t) \/ stale \/ (Busy(t) /\ @)]
      /\ harmed' = [harmed EXCEPT ![t] = Busy(t) /\ @]
      /\ found' = [found EXCEPT ![t] =
                      IF Busy(t) THEN @ ELSE [raw |-> mode[t].raw, lock |-> lock[t]]]

\* tty_already_locked, up to fclose: the lock file is read, if there is one.
ReadLock(p) ==
  /\ pc[p] = "idle"
  /\ \/ /\ lock[TTYOf[p]] \in Procs
        /\ pid' = [pid EXCEPT ![p] = lock[TTYOf[p]]]
        /\ Goto(p, "test")
        /\ UNCHANGED past
     \/ /\ lock[TTYOf[p]] \notin Procs
        /\ Goto(p, "creat")
        /\ Passes(p)
        /\ UNCHANGED pid
  /\ UNCHANGED <<lock, linked, saved_lock, line, mode, saved, signals>>

\* Mutant of tty_already_locked: the result of kill(pid, 0) read the wrong way.
tty_already_locked_Dead(p) == ~Alive(pid[p])

\* The rest of tty_already_locked: is the process that was found there?
tty_already_locked(p) == Alive(pid[p])

CheckLock(p) ==
  /\ pc[p] = "test"
  /\ \/ tty_already_locked(p) /\ Goto(p, "refused") /\ UNCHANGED past
     \/ ~tty_already_locked(p) /\ Goto(p, "creat") /\ Passes(p)
  /\ pid' = [pid EXCEPT ![p] = NoFile]
  /\ UNCHANGED <<lock, linked, saved_lock, line, mode, saved, signals>>

\* Mutant of Creat: a lock that could not be taken over is removed.
Creat_Remove(p) ==
  /\ pc[p] = "creat"
  /\ lock' = [lock EXCEPT ![TTYOf[p]] = NoFile]
  /\ Goto(p, "write")
  /\ UNCHANGED <<linked, saved_lock, pid, line, mode, saved, signals, past>>

\* creat without O_EXCL truncates a file that is there.
Creat(p) ==
  /\ pc[p] = "creat"
  /\ \/ /\ lock' = [lock EXCEPT ![TTYOf[p]] = Garbage]
        /\ linked' = [linked EXCEPT ![p] = TRUE]
        /\ Goto(p, "write")
     \/ Goto(p, "refused") /\ UNCHANGED <<lock, linked>>
  /\ UNCHANGED <<saved_lock, pid, line, mode, saved, signals, past>>

Unlink(t) ==
  /\ lock' = [lock EXCEPT ![t] = NoFile]
  /\ linked' = [q \in Procs |-> linked[q] /\ TTYOf[q] # t]

\* The pid goes to the file that was created, which may have lost its name.
WritePid(p) ==
  /\ pc[p] = "write"
  /\ \/ /\ lock' = IF linked[p] THEN [lock EXCEPT ![TTYOf[p]] = p] ELSE lock
        /\ UNCHANGED linked
        /\ Goto(p, "uucp")
     \/ Unlink(TTYOf[p]) /\ Goto(p, "refused")
  /\ UNCHANGED <<saved_lock, pid, line, mode, saved, signals, past>>

\* An unknown UUCP user ends tty_lock before it notes that the lock is held.
Uucp(p) ==
  /\ pc[p] = "uucp"
  /\ saved_lock' = [saved_lock EXCEPT ![p] = p \in UucpKnown]
  /\ Goto(p, "open")
  /\ UNCHANGED <<lock, linked, pid, line, mode, saved, signals, past>>

-----------------------------------------------------------------------------
(* The rest of tty_open, and main *)

\* Any failure from here on ends the helper at once: main returns 1 without
\* tty_close.
Fail(p) ==
  /\ pc[p] \in {"open", "fetch", "raw", "ldisc"}
  /\ Goto(p, "failed")
  /\ LastClose(p)
  /\ harmed' = [harmed EXCEPT ![TTYOf[p]] = TRUE]
  /\ UNCHANGED <<files, mode, saved, signals, loose, found>>

OpenTty(p) ==
  /\ pc[p] = "open"
  /\ Goto(p, "fetch")
  /\ UNCHANGED <<files, line, mode, saved, signals, past>>

\* tty_get_state and tty_get_ldisc
Fetch(p) ==
  /\ pc[p] = "fetch"
  /\ tty_before' = [tty_before EXCEPT ![p] = mode[TTYOf[p]]]
  /\ ldisc_before' = [ldisc_before EXCEPT ![p] = ldisc[TTYOf[p]]]
  /\ Goto(p, "raw")
  /\ UNCHANGED <<files, line, mode, signals, past>>

\* tty_set_raw, 57600 8N1, tty_set_state
SetRaw(p) ==
  /\ pc[p] = "raw"
  /\ mode' = [mode EXCEPT ![TTYOf[p]] = [raw |-> TRUE, hup |-> FALSE]]
  /\ Goto(p, "ldisc")
  /\ UNCHANGED <<files, line, saved, signals, past>>

SetLdisc(p) ==
  /\ pc[p] = "ldisc"
  /\ TtySetLdisc(TTYOf[p], "LUNIX")
  /\ Goto(p, "handlers")
  /\ UNCHANGED <<files, mode, saved, signals, past>>

Install(p) ==
  /\ pc[p] = "handlers"
  /\ Goto(p, "paused")
  /\ UNCHANGED <<files, line, mode, saved, signals, past>>

\* A signal whose handler is not installed yet, or SIGKILL.
Kill(p) ==
  /\ Alive(p)
  /\ Goto(p, "killed")
  /\ LastClose(p)
  /\ harmed' = [harmed EXCEPT ![TTYOf[p]] = TRUE]
  /\ UNCHANGED <<files, mode, saved, signals, loose, found>>

-----------------------------------------------------------------------------
(* sig_catch *)

\* A second signal interrupts the handler of the first and closes the line anew,
\* also when the helper has given up its lock already.
Signal(p) ==
  /\ pc[p] \in {"paused"} \cup Closing
  /\ signals[p] < MaxSignals
  /\ signals' = [signals EXCEPT ![p] = @ + 1]
  /\ Goto(p, "close_ldisc")
  /\ loose' = [loose EXCEPT ![TTYOf[p]] =
                  @ \/ (pc[p] \in {"clear", "exit"} /\ lock[TTYOf[p]] # p)]
  /\ UNCHANGED <<files, line, mode, saved, harmed, found>>

\* Mutant of CloseLdisc: the old discipline is set without closing the other one.
CloseLdisc_Keep(p) ==
  /\ pc[p] = "close_ldisc"
  /\ ldisc' = [ldisc EXCEPT ![TTYOf[p]] = ldisc_before[p]]
  /\ Goto(p, "close_mode")
  /\ UNCHANGED <<available, files, mode, saved, signals, past>>

\* tty_set_ldisc(ldisc_before), whose result is ignored.
CloseLdisc(p) ==
  /\ pc[p] = "close_ldisc"
  /\ \/ TtySetLdisc(TTYOf[p], ldisc_before[p])
     \/ /\ ldisc_before[p] = "LUNIX" /\ ldisc[TTYOf[p]] # "LUNIX" /\ available = 0
        /\ UNCHANGED line
  /\ Goto(p, "close_mode")
  /\ UNCHANGED <<files, mode, saved, signals, past>>

\* Mutant of CloseMode: tty_current is restored, not tty_before.
CloseMode_Current(p) ==
  /\ pc[p] = "close_mode"
  /\ mode' = [mode EXCEPT ![TTYOf[p]].hup = TRUE]
  /\ Goto(p, "close_lock")
  /\ UNCHANGED <<files, line, saved, signals, past>>

\* tty_restore: the mode that was found, at speed 0.
CloseMode(p) ==
  /\ pc[p] = "close_mode"
  /\ mode' = [mode EXCEPT ![TTYOf[p]] = [raw |-> tty_before[p].raw, hup |-> TRUE]]
  /\ Goto(p, "close_lock")
  /\ UNCHANGED <<files, line, saved, signals, past>>

\* tty_lock(NULL, 0).  If the file is gone saved_lock stays as it is.
CloseLock(p) ==
  /\ pc[p] = "close_lock"
  /\ \/ /\ saved_lock[p] /\ lock[TTYOf[p]] # NoFile
        /\ Unlink(TTYOf[p])
        /\ Goto(p, "clear")
     \/ /\ ~saved_lock[p] \/ lock[TTYOf[p]] = NoFile
        /\ Goto(p, "exit")
        /\ UNCHANGED <<lock, linked>>
  /\ UNCHANGED <<saved_lock, pid, line, mode, saved, signals, past>>

Clear(p) ==
  /\ pc[p] = "clear"
  /\ saved_lock' = [saved_lock EXCEPT ![p] = FALSE]
  /\ Goto(p, "exit")
  /\ UNCHANGED <<lock, linked, pid, line, mode, saved, signals, past>>

Exit(p) ==
  /\ pc[p] = "exit"
  /\ Goto(p, "detached")
  /\ LastClose(p)
  /\ UNCHANGED <<files, mode, saved, signals, past>>

-----------------------------------------------------------------------------
Step(p) ==
  \/ ReadLock(p) \/ CheckLock(p) \/ Creat(p) \/ WritePid(p) \/ Uucp(p)
  \/ Fail(p) \/ OpenTty(p) \/ Fetch(p) \/ SetRaw(p) \/ SetLdisc(p) \/ Install(p)
  \/ Kill(p) \/ Signal(p)
  \/ CloseLdisc(p) \/ CloseMode(p) \/ CloseLock(p) \/ Clear(p) \/ Exit(p)

Next == \E p \in Procs : Step(p)

Spec == Init /\ [][Next]_vars

-----------------------------------------------------------------------------
(* Properties *)

\* "This line discipline can only be associated with a single TTY at any time"
\* (lunix-ldisc.c:25), and the association is never lost: lunix_disc_available
\* is 1 exactly when no TTY has the discipline, through every order of sets,
\* refused sets, nested closes and kills.
OneTTY ==
  /\ \A t, u \in TTYs : ldisc[t] = "LUNIX" /\ ldisc[u] = "LUNIX" => t = u
  /\ available = IF \E t \in TTYs : ldisc[t] = "LUNIX" THEN 0 ELSE 1

\* "Lock or unlock a terminal line" (lunix-attach.c:107): two helpers work on one
\* line only if their set-ups overlapped between reading the lock file and writing
\* the pid, or if one closed the line anew after it had given up its lock.  Kills,
\* stale lock files, nested signals and failed set-ups never let a second one in, and
\* what such a race has done is gone with the helpers that were there.
LockExclusive ==
  \A p, q \in Procs :
    p # q /\ TTYOf[p] = TTYOf[q] /\ Open(p) /\ Open(q) /\ ~loose[TTYOf[p]] =>
      pc[p] \in {"clear", "exit"} \/ pc[q] \in {"clear", "exit"}

\* A helper that waits in pause() still has its TTY under the discipline and its
\* own pid in the lock file, unless the lock was got round in one of those two ways:
\* nobody else's set-up, failure or clean-up took them away.
AttachedWhilePaused ==
  \A p \in Procs : pc[p] = "paused" /\ ~loose[TTYOf[p]] =>
    ldisc[TTYOf[p]] = "LUNIX" /\ lock[TTYOf[p]] = p

\* A line without helpers has N_TTY; and if none of the last ones failed or was killed
\* and none got round the lock, it is raw only if it was, and its lock file is gone
\* but for one of before and for the one of a helper that did not find the user uucp
\* (the early return at lunix-attach.c:143).
LineReleased ==
  \A t \in TTYs : ~Busy(t) =>
    /\ ldisc[t] = "N_TTY"
    /\ ~loose[t] /\ ~harmed[t] =>
         /\ mode[t].raw = found[t].raw
         /\ lock[t] \in {NoFile, found[t].lock} \cup (Procs \ UucpKnown)
=============================================================================
