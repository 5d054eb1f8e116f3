-------------------------------- MODULE Gates --------------------------------
(***************************************************************************)
(* The gates of project 2 (parent.c, child.c): a parent keeps one child    *)
(* process per gate, forwards signals to them, continues a child that was  *)
(* stopped and replaces one that is gone.  Signals arrive at any moment,   *)
(* and two of one kind that wait for the same process are one.  sa_flags   *)
(* and sa_mask of a child's handlers were never set: a handler may serve   *)
(* once or for ever, may or may not be interrupted by its own signal, and  *)
(* may hold another signal back.                                           *)
(***************************************************************************)
EXTENDS Naturals, FiniteSets, Sequences

CONSTANTS
  NGates,      \* strlen(prompt)
  MaxPid,      \* bound: processes that exist or are remembered at a time
  MaxSignals   \* bound on the signals the user sends

ASSUME GatesAssumption ==
  /\ NGates \in 1..50
  /\ MaxPid \in Nat \ {0}
  /\ MaxSignals \in Nat

Gate == 0..(NGates - 1)
Pid == 1..MaxPid
Signal == {"SIGTERM", "SIGUSR1", "SIGUSR2"}
NoPids == [g \in Gate |-> 0]

VARIABLES
  ppc,        \* where the parent stands
  which,      \* the gate it makes a child for
  installed,  \* its handlers are set
  newpid,     \* what fork() returned
  pid_array,  \* the child of each gate, 0 before the first
  ppending,   \* signals that wait for the parent
  ending,     \* how the parent ended
  st,         \* where each child stands
  number,     \* its gate
  GATE,       \* TRUE: the gates are open
  disp,       \* whose handlers it has
  spent,      \* signals whose handler is gone after one use
  copy,       \* its copy of pid_array, until it becomes ./child
  turn,       \* the activations of handle_sigusr1, innermost last: called, or what they will assign
  cut,        \* history: was an activation cut off, or tested GATE inside another?
  pending,    \* signals that wait for it
  stopped,
  sent,       \* signals sent by the user
  expected    \* history: how the gate should stand, by the SIGUSR1s sent to it

parent == <<ppc, which, installed, newpid, pid_array, ppending, ending>>
child == <<st, number, GATE, disp, spent, copy, turn, cut, stopped>>
vars == <<parent, child, pending, sent, expected>>

\* A child that was forked is not ./child yet; "exec" has not set its handlers,
\* "ready" not its gate; "pause" is the pause() of main and "alarm" the one of
\* handle_sigalarm, which never returns.
Alive(p) == st[p] \in {"forked", "exec", "ready", "run", "pause", "alarm"}

\* A prompt of "tf...": the gates begin open and closed in turn.
Open(g) == g % 2 = 0

\* Type invariant.
TypeOK ==
  /\ ppc \in {"create", "store", "install", "loop", "recreate", "exited"}
  /\ which \in Gate /\ installed \in BOOLEAN /\ newpid \in Pid \cup {0}
  /\ pid_array \in [Gate -> Pid \cup {0}]
  /\ ppending \subseteq Signal
  /\ ending \in {"none", "handler", "unstored", "default", "fork"}
  /\ st \in [Pid -> {"free", "forked", "exec", "ready", "run", "pause", "alarm", "zombie"}]
  /\ number \in [Pid -> Gate] /\ GATE \in [Pid -> BOOLEAN] /\ expected \in [Pid -> BOOLEAN]
  /\ disp \in [Pid -> {"default", "parent", "child"}]
  /\ spent \in [Pid -> SUBSET Signal]
  /\ copy \in [Pid -> [Gate -> Pid \cup {0}]]
  /\ turn \in [Pid -> Seq({"called", "open", "close"})] /\ cut \in [Pid -> BOOLEAN]
  /\ pending \in [Pid -> SUBSET Signal] /\ stopped \in [Pid -> BOOLEAN]
  /\ sent \in 0..MaxSignals

Init ==
  /\ ppc = "create" /\ which = 0 /\ installed = FALSE /\ newpid = 0 /\ pid_array = NoPids
  /\ ppending = {} /\ ending = "none"
  /\ st = [p \in Pid |-> "free"]
  /\ number = [p \in Pid |-> 0] /\ GATE = [p \in Pid |-> FALSE]
  /\ disp = [p \in Pid |-> "default"] /\ spent = [p \in Pid |-> {}]
  /\ copy = [p \in Pid |-> NoPids]
  /\ turn = [p \in Pid |-> <<>>] /\ cut = [p \in Pid |-> FALSE]
  /\ pending = [p \in Pid |-> {}] /\ stopped = [p \in Pid |-> FALSE]
  /\ sent = 0 /\ expected = [p \in Pid |-> FALSE]

-----------------------------------------------------------------------------
(* kill() *)

Targets(arr) == {p \in Pid : Alive(p) /\ \E g \in Gate : arr[g] = p}

\* Signal s to the processes of ps.  A SIGUSR1 that does not find another one
\* waiting turns the gate, as far as the sender can tell.
Kill(ps, s) ==
  /\ pending' = [p \in Pid |-> IF p \in ps THEN pending[p] \cup {s} ELSE pending[p]]
  /\ expected' = [p \in Pid |->
       IF p \in ps /\ s = "SIGUSR1" /\ s \notin pending[p] THEN ~expected[p] ELSE expected[p]]

-----------------------------------------------------------------------------
(* The user *)

SendParent(s) ==
  /\ sent < MaxSignals /\ ppc # "exited"
  /\ sent' = sent + 1 /\ ppending' = ppending \cup {s}
  /\ UNCHANGED <<ppc, which, installed, newpid, pid_array, ending, child, pending, expected>>

SendChild(p, s) ==
  /\ sent < MaxSignals /\ Alive(p)
  /\ sent' = sent + 1 /\ Kill({p}, s)
  /\ UNCHANGED <<parent, child>>

\* SIGSTOP is not held back and not handled.
Stop(p) ==
  /\ sent < MaxSignals /\ Alive(p) /\ ~stopped[p]
  /\ sent' = sent + 1 /\ stopped' = [stopped EXCEPT ![p] = TRUE]
  /\ UNCHANGED <<parent, st, number, GATE, disp, spent, copy, turn, cut, pending, expected>>

-----------------------------------------------------------------------------
(* The parent *)

\* Process numbers come back long after: not one that somebody remembers.
FreePid ==
  {p \in Pid : /\ st[p] = "free"
               /\ \A g \in Gate : pid_array[g] # p
               /\ \A q \in Pid : Alive(q) => \A g \in Gate : copy[q][g] # p}

\* create_child: the child has the handlers of the parent and its memory.  fork()
\* may fail.
CreateChild ==
  /\ ppc \in {"create", "recreate"}
  /\ \/ \E p \in FreePid :
          /\ \A q \in FreePid : p <= q
          /\ st' = [st EXCEPT ![p] = "forked"]
          /\ number' = [number EXCEPT ![p] = which]
          /\ disp' = [disp EXCEPT ![p] = IF installed THEN "parent" ELSE "default"]
          /\ copy' = [copy EXCEPT ![p] = IF installed THEN pid_array ELSE NoPids]
          /\ newpid' = p /\ ppc' = "store"
          /\ UNCHANGED ending
     \/ /\ ppc' = "exited" /\ ending' = "fork"
        /\ UNCHANGED <<st, number, disp, copy, newpid>>
  /\ UNCHANGED <<which, installed, pid_array, ppending, GATE, spent, turn, cut, stopped, pending,
                 sent, expected>>

\* Mutant of Store: the child made in place of a lost one is not remembered.
Store_Forget ==
  /\ ppc = "store"
  /\ pid_array' = IF installed THEN pid_array ELSE [pid_array EXCEPT ![which] = newpid]
  /\ newpid' = 0
  /\ \/ installed /\ ppc' = "loop" /\ which' = 0
     \/ ~installed /\ which < NGates - 1 /\ ppc' = "create" /\ which' = which + 1
     \/ ~installed /\ which = NGates - 1 /\ ppc' = "install" /\ which' = 0
  /\ UNCHANGED <<installed, ppending, ending, child, pending, sent, expected>>

\* The assignment to pid_array, in main's first loop or in its last.
Store ==
  /\ ppc = "store"
  /\ pid_array' = [pid_array EXCEPT ![which] = newpid]
  /\ newpid' = 0
  /\ \/ installed /\ ppc' = "loop" /\ which' = 0
     \/ ~installed /\ which < NGates - 1 /\ ppc' = "create" /\ which' = which + 1
     \/ ~installed /\ which = NGates - 1 /\ ppc' = "install" /\ which' = 0
  /\ UNCHANGED <<installed, ppending, ending, child, pending, sent, expected>>

Install ==
  /\ ppc = "install"
  /\ ppc' = "loop" /\ installed' = TRUE
  /\ UNCHANGED <<which, newpid, pid_array, ppending, ending, child, pending, sent, expected>>

\* Mutant of Wait: waitpid() is called without WUNTRACED.
Wait_Untraced ==
  /\ ppc = "loop"
  /\ \E p \in Pid, g \in Gate :
       /\ st[p] = "zombie"
       /\ st' = [st EXCEPT ![p] = "free"]
       /\ pid_array[g] = p
       /\ which' = g /\ ppc' = "recreate"
       /\ UNCHANGED stopped
  /\ UNCHANGED <<installed, newpid, pid_array, ppending, ending, number, GATE, disp, spent, copy,
                 turn, cut, pending, sent, expected>>

\* waitpid() finds a child that is gone, or one that was stopped.
Wait ==
  /\ ppc = "loop"
  /\ \/ \E p \in Pid, g \in Gate :
          /\ st[p] = "zombie"
          /\ st' = [st EXCEPT ![p] = "free"]
          /\ pid_array[g] = p
          /\ which' = g /\ ppc' = "recreate"
          /\ UNCHANGED stopped
     \/ \E p \in Pid :
          /\ Alive(p) /\ stopped[p]
          /\ stopped' = [stopped EXCEPT ![p] = FALSE]
          /\ UNCHANGED <<st, which, ppc>>
  /\ UNCHANGED <<installed, newpid, pid_array, ppending, ending, number, GATE, disp, spent, copy,
                 turn, cut, pending, sent, expected>>

\* A signal reaches the parent: before its handlers are set it dies of it; then
\* it forwards what it got, and ends after SIGTERM.
ParentSignal(s) ==
  /\ s \in ppending /\ ppc # "exited"
  /\ ppending' = ppending \ {s}
  /\ \/ /\ ~installed
        /\ ppc' = "exited" /\ ending' = "default"
        /\ UNCHANGED <<pending, expected>>
     \/ /\ installed
        /\ Kill(Targets(pid_array), s)
        /\ IF s = "SIGTERM"
           THEN ppc' = "exited" /\ ending' = (IF ppc = "store" THEN "unstored" ELSE "handler")
           ELSE UNCHANGED <<ppc, ending>>
  /\ UNCHANGED <<which, installed, newpid, pid_array, child, sent>>

Parent == CreateChild \/ Store \/ Install \/ Wait \/ \E s \in Signal : ParentSignal(s)

-----------------------------------------------------------------------------
(* A child *)

Running(p) == Alive(p) /\ ~stopped[p]

\* Its end: what waits for it and what it remembers is gone.
Die(p) ==
  /\ st' = [st EXCEPT ![p] = "zombie"]
  /\ number' = [number EXCEPT ![p] = 0] /\ GATE' = [GATE EXCEPT ![p] = FALSE]
  /\ disp' = [disp EXCEPT ![p] = "default"] /\ spent' = [spent EXCEPT ![p] = {}]
  /\ copy' = [copy EXCEPT ![p] = NoPids] /\ stopped' = [stopped EXCEPT ![p] = FALSE]
  /\ turn' = [turn EXCEPT ![p] = <<>>] /\ cut' = [cut EXCEPT ![p] = FALSE]

Bury(p) ==
  /\ pending' = [pending EXCEPT ![p] = {}]
  /\ expected' = [expected EXCEPT ![p] = FALSE]

\* execv sets the handlers back to the default.
Exec(p) ==
  /\ Running(p) /\ st[p] = "forked"
  /\ st' = [st EXCEPT ![p] = "exec"] /\ disp' = [disp EXCEPT ![p] = "default"]
  /\ copy' = [copy EXCEPT ![p] = NoPids]
  /\ UNCHANGED <<parent, number, GATE, spent, turn, cut, stopped, pending, sent, expected>>

SignalHandling(p) ==
  /\ Running(p) /\ st[p] = "exec"
  /\ st' = [st EXCEPT ![p] = "ready"] /\ disp' = [disp EXCEPT ![p] = "child"]
  /\ UNCHANGED <<parent, number, GATE, spent, copy, turn, cut, stopped, pending, sent, expected>>

\* main goes on when no handler runs.  What was turned before is lost; a SIGUSR1
\* that waits still counts.
SetGate(p) ==
  /\ Running(p) /\ st[p] = "ready" /\ turn[p] = <<>>
  /\ st' = [st EXCEPT ![p] = "run"]
  /\ GATE' = [GATE EXCEPT ![p] = Open(number[p])]
  /\ cut' = [cut EXCEPT ![p] = FALSE]
  /\ expected' = [expected EXCEPT ![p] = (Open(number[p]) # ("SIGUSR1" \in pending[p]))]
  /\ UNCHANGED <<parent, number, disp, spent, copy, turn, stopped, pending, sent>>

Pause(p) ==
  /\ Running(p) /\ st[p] = "run" /\ turn[p] = <<>>
  /\ st' = [st EXCEPT ![p] = "pause"]
  /\ UNCHANGED <<parent, number, GATE, disp, spent, copy, turn, cut, stopped, pending, sent, expected>>

\* SIGALRM, 15 seconds after main or handle_sigalarm has set it: the handler never
\* returns, and what it interrupts stays as it is - main from its alarm(15) on, or
\* an activation of handle_sigusr1.
Alarm(p) ==
  /\ Running(p)
  /\ st[p] \in {"run", "pause"} \/ (st[p] = "alarm" /\ turn[p] # <<>>)
  /\ st' = [st EXCEPT ![p] = "alarm"]
  /\ cut' = [cut EXCEPT ![p] = @ \/ turn[p] # <<>>]
  /\ turn' = [turn EXCEPT ![p] = <<>>]
  /\ UNCHANGED <<parent, number, GATE, disp, spent, copy, stopped, pending, sent, expected>>

\* A signal that the child has no handler for, or no more, ends it, and so does
\* SIGTERM.
ChildDies(p, s) ==
  /\ Running(p) /\ s \in pending[p]
  /\ disp[p] = "default" \/ s \in spent[p] \/ (disp[p] = "child" /\ s = "SIGTERM")
  /\ Die(p) /\ Bury(p)
  /\ UNCHANGED <<parent, sent>>

\* A child that still runs the parent's code handles signals as the parent does,
\* with the array as it was when it was forked.
ChildForwards(p, s) ==
  /\ Running(p) /\ s \in pending[p] /\ disp[p] = "parent"
  /\ LET ps == Targets(copy[p]) \ {p} IN
       /\ pending' = [q \in Pid |->
            IF q = p THEN (IF s = "SIGTERM" THEN {} ELSE pending[p] \ {s})
            ELSE IF q \in ps THEN pending[q] \cup {s} ELSE pending[q]]
       /\ expected' = [q \in Pid |->
            IF q \in ps /\ s = "SIGUSR1" /\ s \notin pending[q] THEN ~expected[q] ELSE expected[q]]
  /\ IF s = "SIGTERM" THEN Die(p) ELSE UNCHANGED child
  /\ UNCHANGED <<parent, sent>>

\* A signal is handled: handle_sigusr1 begins, handle_sigusr2 only shows the gate.
\* In the first pause() the return of the handler is the end of main.
Handle(p, s) ==
  /\ Running(p) /\ disp[p] = "child" /\ s \in pending[p] \ ({"SIGTERM"} \cup spent[p])
  /\ \/ /\ s = "SIGUSR2" /\ st[p] = "pause" /\ turn[p] = <<>>
        /\ Die(p) /\ Bury(p)
     \/ /\ s = "SIGUSR1" \/ st[p] # "pause" \/ turn[p] # <<>>
        /\ pending' = [pending EXCEPT ![p] = @ \ {s}]
        /\ turn' = IF s = "SIGUSR1" THEN [turn EXCEPT ![p] = Append(@, "called")] ELSE turn
        /\ \/ spent' = [spent EXCEPT ![p] = @ \cup {s}]
           \/ UNCHANGED spent
        /\ UNCHANGED <<st, number, GATE, disp, copy, cut, stopped, expected>>
  /\ UNCHANGED <<parent, sent>>

\* Mutant of Test: handle_sigusr1 opens the gates and does not close them.
Test_OpenOnly(p) ==
  /\ Running(p) /\ turn[p] # <<>> /\ turn[p][Len(turn[p])] = "called"
  /\ turn' = [turn EXCEPT ![p][Len(turn[p])] = "open"]
  /\ cut' = [cut EXCEPT ![p] = @ \/ \E i \in 1..Len(turn[p]) : turn[p][i] # "called"]
  /\ UNCHANGED <<parent, st, number, GATE, disp, spent, copy, stopped, pending, sent, expected>>

\* handle_sigusr1 tests the gate ...
Test(p) ==
  /\ Running(p) /\ turn[p] # <<>> /\ turn[p][Len(turn[p])] = "called"
  /\ turn' = [turn EXCEPT ![p][Len(turn[p])] = IF GATE[p] THEN "close" ELSE "open"]
  /\ cut' = [cut EXCEPT ![p] = @ \/ \E i \in 1..Len(turn[p]) : turn[p][i] # "called"]
  /\ UNCHANGED <<parent, st, number, GATE, disp, spent, copy, stopped, pending, sent, expected>>

\* ... and assigns to it and returns.
Turn(p) ==
  /\ Running(p) /\ turn[p] # <<>> /\ turn[p][Len(turn[p])] # "called"
  /\ \/ /\ st[p] = "pause" /\ Len(turn[p]) = 1
        /\ Die(p) /\ Bury(p)
     \/ /\ st[p] # "pause" \/ Len(turn[p]) > 1
        /\ GATE' = [GATE EXCEPT ![p] = (turn[p][Len(turn[p])] = "open")]
        /\ turn' = [turn EXCEPT ![p] = SubSeq(@, 1, Len(@) - 1)]
        /\ UNCHANGED <<st, number, disp, spent, copy, cut, stopped, pending, expected>>
  /\ UNCHANGED <<parent, sent>>

ChildSignal(p) == \E s \in Signal : ChildDies(p, s) \/ ChildForwards(p, s) \/ Handle(p, s)
ChildRuns(p) ==
  \/ Exec(p) \/ SignalHandling(p) \/ SetGate(p) \/ Pause(p) \/ Alarm(p)
  \/ Test(p) \/ Turn(p)

-----------------------------------------------------------------------------
User ==
  \/ \E s \in Signal : SendParent(s)
  \/ \E p \in Pid : Stop(p) \/ \E s \in Signal : SendChild(p, s)

Next == User \/ Parent \/ \E p \in Pid : ChildSignal(p) \/ ChildRuns(p)

Spec == Init /\ [][Next]_vars

\* Every process that can run does.  Signals need not arrive: what a handler's
\* sa_mask holds back waits for ever when handle_sigalarm interrupts it.
FairSpec ==
  /\ Spec
  /\ WF_vars(Parent)
  /\ \A p \in Pid : WF_vars(ChildRuns(p))

-----------------------------------------------------------------------------
(* Properties *)

\* When SIGTERM ends the parent, every child that lives has been told, too: the
\* parent always knows them all, except while it has not stored what fork()
\* returned (parent.c:132), and before it has handlers at all (parent.c:118).
NoOrphans ==
  /\ TypeOK
  /\ ending = "handler" => \A p \in Pid : Alive(p) => "SIGTERM" \in pending[p]
  /\ ppc \in {"install", "loop"} =>
       \A p \in Pid : st[p] # "free" => \E g \in Gate : pid_array[g] = p

\* From when a child has read the state of its gate from its arguments, no SIGUSR1
\* it is sent is lost or counted twice, except by waiting together with another,
\* for as long as it lives: what does not show yet waits, or is with an activation
\* of handle_sigusr1.  That ends only when SIGALRM interrupts an activation, which
\* then never goes on, or one tests the gate between the test and the assignment of
\* another (child.c:21-34, 46-60, 85-89).
TogglesCounted ==
  \A p \in Pid :
    st[p] \in {"run", "pause", "alarm"} /\ ~cut[p] =>
      (expected[p] # GATE[p]) = (("SIGUSR1" \in pending[p]) # (Len(turn[p]) % 2 = 1))

Manned(g) == \E p \in Pid : pid_array[g] = p /\ Running(p) /\ st[p] = "alarm"

\* Whatever the user sends, in the end every gate has a child again, one that runs
\* and is past its first alarm; unless the parent has ended.
GatesManned == <>[](ppc = "exited" \/ \A g \in Gate : Manned(g))
=============================================================================
