----------------------------- MODULE GatesProofs -----------------------------
(***************************************************************************)
(* Proofs about Gates: the parent knows its children and takes them with   *)
(* it, and a gate turns as often as it is told to, for any number of gates *)
(* and processes and any signals sent by the user.                         *)
(***************************************************************************)
EXTENDS Gates, SequenceTheorems, TLAPS

\* TypeOK in its parts.
ParentType ==
  /\ ppc \in {"create", "store", "install", "loop", "recreate", "exited"}
  /\ which \in Gate /\ installed \in BOOLEAN /\ newpid \in Pid \cup {0}
  /\ pid_array \in [Gate -> Pid \cup {0}]
  /\ ppending \subseteq Signal
  /\ ending \in {"none", "handler", "unstored", "default", "fork"}

ChildType ==
  /\ st \in [Pid -> {"free", "forked", "exec", "ready", "run", "pause", "alarm", "zombie"}]
  /\ number \in [Pid -> Gate] /\ GATE \in [Pid -> BOOLEAN]
  /\ disp \in [Pid -> {"default", "parent", "child"}]
  /\ spent \in [Pid -> SUBSET Signal]
  /\ copy \in [Pid -> [Gate -> Pid \cup {0}]]
  /\ turn \in [Pid -> Seq({"called", "open", "close"})] /\ cut \in [Pid -> BOOLEAN]
  /\ stopped \in [Pid -> BOOLEAN]

MailType ==
  /\ pending \in [Pid -> SUBSET Signal]
  /\ expected \in [Pid -> BOOLEAN]

Types == ParentType /\ ChildType /\ MailType /\ sent \in 0..MaxSignals

\* What the parent has done when it stands where it does.
Phases ==
  /\ ppc \in {"create", "install"} => ~installed
  /\ ppc \in {"loop", "recreate"} => installed
  /\ ending = "handler" => ppc = "exited"

\* The places of pid_array that main's first loop has not come to.
Fresh ==
  ~installed /\ ppc \in {"create", "store"} => \A g \in Gate : g >= which => pid_array[g] = 0

KnownBut(g, p) == \E h \in Gate : h # g /\ pid_array[h] = p

\* The parent can name every child.  Before it stores a new one nobody is named by
\* that place alone, so that nobody is forgotten when it does.
Known ==
  /\ ppc \in {"install", "loop"} =>
       \A p \in Pid : st[p] # "free" => \E g \in Gate : pid_array[g] = p
  /\ ppc \in {"create", "recreate"} => \A p \in Pid : st[p] # "free" => KnownBut(which, p)
  /\ ppc = "store" => /\ newpid \in Pid
                      /\ \A p \in Pid : st[p] # "free" => p = newpid \/ KnownBut(which, p)

\* After the parent's handler nobody lives who was not told to end.
Told == ending = "handler" => \A p \in Pid : Alive(p) => "SIGTERM" \in pending[p]

\* Who has set them has the handlers of ./child.
OwnHandlers == \A p \in Pid : st[p] \in {"ready", "run", "pause", "alarm"} => disp[p] = "child"

\* Unless an activation was cut off, one at most has tested the gate and not yet
\* assigned to it, and it will turn it.
SteadyFor(g, t) ==
  /\ \A i, j \in 1..Len(t) : t[i] # "called" /\ t[j] # "called" => i = j
  /\ \A i \in 1..Len(t) : t[i] # "called" => (t[i] = "open") = ~g

Steady == \A p \in Pid : ~cut[p] => SteadyFor(GATE[p], turn[p])

\* TogglesCounted for one process: what is expected of gate g when the signals of m
\* wait and the activations of t run.
CountedFor(e, g, m, t) == (e # g) = (("SIGUSR1" \in m) # (Len(t) % 2 = 1))

\* The inductive invariant.
IInv ==
  /\ Types
  /\ Phases
  /\ Fresh
  /\ Known
  /\ Told
  /\ OwnHandlers
  /\ Steady
  /\ TogglesCounted

-----------------------------------------------------------------------------
LEMMA ConstTypes == NoPids \in [Gate -> Pid \cup {0}] /\ 0 \in Gate /\ 0 \notin Pid
  BY GatesAssumption DEF NoPids, Gate, Pid

LEMMA InvInit == Init => IInv
<1> SUFFICES ASSUME Init PROVE IInv
  OBVIOUS
<1>1. ParentType
  BY ConstTypes DEF Init, ParentType
<1>2. ChildType
  BY ConstTypes DEF Init, ChildType
<1>3. MailType /\ sent \in 0..MaxSignals
  BY GatesAssumption DEF Init, MailType
<1>4. Phases /\ Fresh
  BY DEF Init, Phases, Fresh, NoPids
<1>5. Known
  BY DEF Init, Known
<1>6. Told /\ OwnHandlers /\ Steady /\ TogglesCounted
  BY DEF Init, Told, OwnHandlers, Steady, SteadyFor, TogglesCounted
<1> QED BY <1>1, <1>2, <1>3, <1>4, <1>5, <1>6 DEF Types, IInv

\* kill() and a death keep the types.
LEMMA KillType ==
  ASSUME MailType, NEW ps \in SUBSET Pid, NEW s \in Signal, Kill(ps, s) PROVE MailType'
<1>1. pending' \in [Pid -> SUBSET Signal]
  BY DEF Kill, MailType
<1>2. expected' \in [Pid -> BOOLEAN]
  BY DEF Kill, MailType
<1> QED BY <1>1, <1>2 DEF MailType

LEMMA DieType ==
  ASSUME ChildType, NEW p \in Pid, Die(p) PROVE ChildType'
  BY ConstTypes DEF Die, ChildType

LEMMA BuryType ==
  ASSUME MailType, NEW p \in Pid, Bury(p) PROVE MailType'
<1>1. pending' \in [Pid -> SUBSET Signal]
  BY DEF Bury, MailType
<1>2. expected' \in [Pid -> BOOLEAN]
  BY DEF Bury, MailType
<1> QED BY <1>1, <1>2 DEF MailType

LEMMA UserType == Types /\ User => Types'
<1> SUFFICES ASSUME Types, User PROVE Types'
  OBVIOUS
<1>a. ParentType /\ ChildType /\ MailType /\ sent \in 0..MaxSignals
  BY DEF Types
<1>b. sent < MaxSignals /\ sent' = sent + 1
  BY DEF User, SendParent, SendChild, Stop
<1>c. sent' \in 0..MaxSignals
  BY <1>a, <1>b, GatesAssumption
<1>1. ASSUME NEW s \in Signal, SendParent(s) PROVE Types'
  BY <1>a, <1>c, <1>1 DEF Types, SendParent, ParentType, ChildType, MailType, child
<1>2. ASSUME NEW p \in Pid, Stop(p) PROVE Types'
  BY <1>a, <1>c, <1>2 DEF Types, Stop, ParentType, ChildType, MailType, parent
<1>3. ASSUME NEW p \in Pid, NEW s \in Signal, SendChild(p, s) PROVE Types'
  <2>1. MailType'
    BY <1>a, <1>3, KillType DEF SendChild
  <2> QED BY <1>a, <1>c, <1>3, <2>1 DEF Types, SendChild, ParentType, ChildType, parent, child
<1> QED BY <1>1, <1>2, <1>3 DEF User

LEMMA ParentTypes == Types /\ Parent => Types'
<1> SUFFICES ASSUME Types, Parent PROVE Types'
  OBVIOUS
<1>a. ParentType /\ ChildType /\ MailType /\ sent \in 0..MaxSignals
  BY DEF Types
<1>b. sent' = sent
  BY DEF Parent, CreateChild, Store, Install, Wait, ParentSignal
<1>1. CASE CreateChild
  <2>1. CASE ppc' = "exited"
    BY <1>a, <1>b, <1>1, <2>1 DEF Types, CreateChild, ParentType, ChildType, MailType
  <2>2. ASSUME NEW p \in Pid,
               st' = [st EXCEPT ![p] = "forked"],
               number' = [number EXCEPT ![p] = which],
               disp' = [disp EXCEPT ![p] = IF installed THEN "parent" ELSE "default"],
               copy' = [copy EXCEPT ![p] = IF installed THEN pid_array ELSE NoPids],
               newpid' = p, ppc' = "store", ending' = ending
        PROVE  Types'
    <3>1. ChildType'
      BY <1>a, <1>1, <2>2, ConstTypes DEF CreateChild, ChildType, ParentType
    <3>2. ParentType' /\ MailType'
      BY <1>a, <1>1, <2>2 DEF CreateChild, ParentType, MailType
    <3> QED BY <1>a, <1>b, <3>1, <3>2 DEF Types
  <2> QED BY <1>1, <2>1, <2>2 DEF CreateChild, FreePid
<1>2. CASE Store
  <2>1. which' \in Gate
    BY <1>a, <1>2, ConstTypes, GatesAssumption DEF Store, ParentType, Gate
  <2>2. pid_array' \in [Gate -> Pid \cup {0}]
    BY <1>a, <1>2 DEF Store, ParentType
  <2> QED BY <1>a, <1>b, <1>2, <2>1, <2>2 DEF Types, Store, ParentType, ChildType, MailType, child
<1>3. CASE Install
  BY <1>a, <1>b, <1>3 DEF Types, Install, ParentType, ChildType, MailType, child
<1>4. CASE Wait
  <2>1. ParentType'
    BY <1>a, <1>4 DEF Wait, ParentType
  <2>2. ChildType' /\ MailType'
    BY <1>a, <1>4 DEF Wait, ChildType, MailType
  <2> QED BY <1>a, <1>b, <2>1, <2>2 DEF Types
<1>5. ASSUME NEW s \in Signal, ParentSignal(s) PROVE Types'
  <2>1. MailType'
    <3>1. CASE installed
      BY <1>a, <1>5, <3>1, KillType DEF ParentSignal, Targets
    <3>2. CASE ~installed
      BY <1>a, <1>5, <3>2 DEF ParentSignal, MailType
    <3> QED BY <3>1, <3>2
  <2>2. ParentType'
    <3>1. /\ ppc' \in {"exited", ppc} /\ ending' \in {"default", "unstored", "handler", ending}
          /\ UNCHANGED <<which, installed, newpid, pid_array>> /\ ppending' = ppending \ {s}
      BY <1>5 DEF ParentSignal
    <3> QED BY <1>a, <3>1 DEF ParentType
  <2> QED BY <1>a, <1>b, <1>5, <2>1, <2>2 DEF Types, ParentSignal, ChildType, child
<1> QED BY <1>1, <1>2, <1>3, <1>4, <1>5 DEF Parent

\* A child that forwards keeps the types.
LEMMA ForwardsType ==
  ASSUME Types, NEW p \in Pid, NEW s \in Signal, ChildForwards(p, s) PROVE ChildType' /\ MailType'
<1>a. ChildType /\ MailType
  BY DEF Types
<1>1. ChildType'
  BY <1>a, DieType DEF ChildForwards, ChildType, child
<1>2. pending' \in [Pid -> SUBSET Signal]
  BY <1>a DEF ChildForwards, MailType
<1>3. expected' \in [Pid -> BOOLEAN]
  BY <1>a DEF ChildForwards, MailType
<1> QED BY <1>1, <1>2, <1>3 DEF MailType

LEMMA HandleType ==
  ASSUME Types, NEW p \in Pid, NEW s \in Signal, Handle(p, s) PROVE ChildType' /\ MailType'
<1>a. ChildType /\ MailType
  BY DEF Types
<1>1. CASE Die(p) /\ Bury(p)
  BY <1>a, <1>1, DieType, BuryType
<1>2. CASE ~(Die(p) /\ Bury(p))
  <2>1. /\ UNCHANGED <<st, number, GATE, disp, copy, cut, stopped, expected>>
        /\ pending' = [pending EXCEPT ![p] = @ \ {s}]
        /\ spent' = [spent EXCEPT ![p] = @ \cup {s}] \/ spent' = spent
        /\ turn' = [turn EXCEPT ![p] = Append(@, "called")] \/ turn' = turn
    BY <1>2 DEF Handle
  <2>2. pending' \in [Pid -> SUBSET Signal]
    BY <1>a, <2>1 DEF MailType
  <2>3. spent' \in [Pid -> SUBSET Signal]
    <3>1. spent[p] \cup {s} \in SUBSET Signal
      BY <1>a DEF ChildType
    <3> QED BY ZenonT(60), <1>a, <2>1, <3>1 DEF ChildType
  <2>4. turn' \in [Pid -> Seq({"called", "open", "close"})]
    <3>1. Append(turn[p], "called") \in Seq({"called", "open", "close"})
      BY <1>a DEF ChildType
    <3> QED BY ZenonT(60), <1>a, <2>1, <3>1 DEF ChildType
  <2> QED BY <1>a, <2>1, <2>2, <2>3, <2>4 DEF MailType, ChildType
<1> QED BY <1>1, <1>2

LEMMA AlarmType ==
  ASSUME Types, NEW p \in Pid, Alarm(p) PROVE ChildType' /\ MailType'
<1>a. ChildType /\ MailType
  BY DEF Types
<1>1. turn' \in [Pid -> Seq({"called", "open", "close"})]
  BY <1>a DEF Alarm, ChildType
<1>2. cut' \in [Pid -> BOOLEAN]
  <2>1. (cut[p] \/ turn[p] # <<>>) \in BOOLEAN
    OBVIOUS
  <2> QED BY <1>a, <2>1 DEF Alarm, ChildType
<1>3. st' \in [Pid -> {"free", "forked", "exec", "ready", "run", "pause", "alarm", "zombie"}]
  BY <1>a DEF Alarm, ChildType
<1> QED BY <1>a, <1>1, <1>2, <1>3 DEF Alarm, ChildType, MailType

LEMMA TestType ==
  ASSUME Types, NEW p \in Pid, Test(p) PROVE ChildType' /\ MailType'
<1>a. ChildType /\ MailType
  BY DEF Types
<1>1. turn' \in [Pid -> Seq({"called", "open", "close"})]
  <2>1. turn[p] \in Seq({"called", "open", "close"}) /\ turn[p] # <<>>
    BY <1>a DEF Test, ChildType
  <2> DEFINE v == IF GATE[p] THEN "close" ELSE "open"
  <2>2. [turn[p] EXCEPT ![Len(turn[p])] = v] \in Seq({"called", "open", "close"})
    BY <2>1
  <2>3. turn' = [turn EXCEPT ![p] = [turn[p] EXCEPT ![Len(turn[p])] = v]]
    BY <1>a DEF Test, ChildType
  <2> QED BY <1>a, <2>2, <2>3 DEF ChildType
<1>2. cut' \in [Pid -> BOOLEAN]
  <2>1. (cut[p] \/ \E i \in 1..Len(turn[p]) : turn[p][i] # "called") \in BOOLEAN
    OBVIOUS
  <2> QED BY <1>a, <2>1 DEF Test, ChildType
<1> QED BY <1>a, <1>1, <1>2 DEF Test, ChildType, MailType

LEMMA TurnType ==
  ASSUME Types, NEW p \in Pid, Turn(p) PROVE ChildType' /\ MailType'
<1>a. ChildType /\ MailType
  BY DEF Types
<1>1. CASE Die(p) /\ Bury(p)
  BY <1>a, <1>1, DieType, BuryType
<1>2. CASE UNCHANGED <<st, number, disp, spent, copy, cut, stopped, pending, expected>>
  <2>1. /\ GATE' = [GATE EXCEPT ![p] = (turn[p][Len(turn[p])] = "open")]
        /\ turn' = [turn EXCEPT ![p] = SubSeq(@, 1, Len(@) - 1)] /\ turn[p] # <<>>
    BY <1>a, <1>2 DEF Turn, Die, ChildType
  <2>2. GATE' \in [Pid -> BOOLEAN]
    BY <1>a, <2>1 DEF ChildType
  <2>3. SubSeq(turn[p], 1, Len(turn[p]) - 1) \in Seq({"called", "open", "close"})
    BY <1>a, <2>1 DEF ChildType
  <2>4. turn' \in [Pid -> Seq({"called", "open", "close"})]
    BY <1>a, <2>1, <2>3 DEF ChildType
  <2> QED BY <1>a, <1>2, <2>2, <2>4 DEF ChildType, MailType
<1> QED BY <1>1, <1>2 DEF Turn

LEMMA ChildTypes ==
  ASSUME Types, NEW p \in Pid, ChildSignal(p) \/ ChildRuns(p) PROVE Types'
<1>a. ParentType /\ ChildType /\ MailType /\ sent \in 0..MaxSignals
  BY DEF Types
<1>b. sent' = sent /\ UNCHANGED parent
  BY DEF ChildSignal, ChildRuns, ChildDies, ChildForwards, Handle, Exec, SignalHandling, SetGate,
         Pause, Alarm, Test, Turn
<1>c. ParentType'
  BY <1>a, <1>b DEF ParentType, parent
<1>1. ASSUME NEW s \in Signal, ChildDies(p, s) PROVE Types'
  BY <1>a, <1>b, <1>c, <1>1, DieType, BuryType DEF Types, ChildDies
<1>2. ASSUME NEW s \in Signal, ChildForwards(p, s) PROVE Types'
  BY <1>a, <1>b, <1>c, <1>2, ForwardsType DEF Types
<1>3. ASSUME NEW s \in Signal, Handle(p, s) PROVE Types'
  BY <1>a, <1>b, <1>c, <1>3, HandleType DEF Types
<1>4. CASE Exec(p)
  BY <1>a, <1>b, <1>c, <1>4, ConstTypes DEF Types, Exec, ChildType, MailType
<1>5. CASE SignalHandling(p)
  BY <1>a, <1>b, <1>c, <1>5 DEF Types, SignalHandling, ChildType, MailType
<1>6. CASE SetGate(p)
  <2>1. MailType'
    BY <1>a, <1>6 DEF SetGate, MailType
  <2>2. ChildType'
    BY <1>a, <1>6 DEF SetGate, ChildType, Open
  <2> QED BY <1>a, <1>b, <1>c, <2>1, <2>2 DEF Types
<1>7. CASE Pause(p)
  BY <1>a, <1>b, <1>c, <1>7 DEF Types, Pause, ChildType, MailType
<1>8. CASE Alarm(p) \/ Test(p) \/ Turn(p)
  BY <1>a, <1>b, <1>c, <1>8, AlarmType, TestType, TurnType DEF Types
<1> QED BY <1>1, <1>2, <1>3, <1>4, <1>5, <1>6, <1>7, <1>8 DEF ChildSignal, ChildRuns

LEMMA TypeNext == Types /\ [Next]_vars => Types'
<1> SUFFICES ASSUME Types, [Next]_vars PROVE Types'
  OBVIOUS
<1>1. CASE UNCHANGED vars
  BY <1>1 DEF vars, parent, child, Types, ParentType, ChildType, MailType
<1> QED BY <1>1, UserType, ParentTypes, ChildTypes DEF Next

-----------------------------------------------------------------------------
(* What each kind of step does to the processes *)

\* Steps of a child create nobody, and end at most themselves.
LEMMA ChildKeeps ==
  ASSUME Types, NEW p \in Pid, ChildSignal(p) \/ ChildRuns(p)
  PROVE  /\ UNCHANGED parent
         /\ st[p] # "free" /\ Alive(p)
         /\ \A q \in Pid : q # p => st'[q] = st[q] /\ disp'[q] = disp[q] /\ GATE'[q] = GATE[q]
         /\ \A q \in Pid : q # p => turn'[q] = turn[q] /\ cut'[q] = cut[q]
         /\ st'[p] # "free"
<1>1. UNCHANGED parent /\ Alive(p)
  BY DEF ChildSignal, ChildRuns, ChildDies, ChildForwards, Handle, Exec, SignalHandling, SetGate,
         Pause, Alarm, Test, Turn, Running
<1>2. st[p] # "free"
  BY <1>1 DEF Alive
<1>3. \/ st' = [st EXCEPT ![p] = st'[p]] /\ st'[p] # "free"
      \/ st' = st
  BY DEF ChildSignal, ChildRuns, ChildDies, ChildForwards, Handle, Exec, SignalHandling, SetGate,
         Pause, Alarm, Test, Turn, Die, child, Types, ChildType
<1>4. disp' = [disp EXCEPT ![p] = disp'[p]] \/ disp' = disp
  BY DEF ChildSignal, ChildRuns, ChildDies, ChildForwards, Handle, Exec, SignalHandling, SetGate,
         Pause, Alarm, Test, Turn, Die, child, Types, ChildType
<1>5. GATE' = [GATE EXCEPT ![p] = GATE'[p]] \/ GATE' = GATE
  BY DEF ChildSignal, ChildRuns, ChildDies, ChildForwards, Handle, Exec, SignalHandling, SetGate,
         Pause, Alarm, Test, Turn, Die, child, Types, ChildType
<1>6. \A q \in Pid : q # p => st'[q] = st[q]
  BY <1>3 DEF Types, ChildType
<1>7. \A q \in Pid : q # p => disp'[q] = disp[q]
  BY <1>4 DEF Types, ChildType
<1>8. \A q \in Pid : q # p => GATE'[q] = GATE[q]
  BY <1>5 DEF Types, ChildType
<1>9. st'[p] # "free"
  BY <1>2, <1>3 DEF Types, ChildType
<1>10. \A q \in Pid : q # p => turn'[q] = turn[q]
  <2>1. (\E v : turn' = [turn EXCEPT ![p] = v]) \/ turn' = turn
    BY DEF ChildSignal, ChildRuns, ChildDies, ChildForwards, Handle, Exec, SignalHandling, SetGate,
           Pause, Alarm, Test, Turn, Die, child, Types, ChildType
  <2> QED BY <2>1 DEF Types, ChildType
<1>11. \A q \in Pid : q # p => cut'[q] = cut[q]
  <2>1. (\E v : cut' = [cut EXCEPT ![p] = v]) \/ cut' = cut
    BY DEF ChildSignal, ChildRuns, ChildDies, ChildForwards, Handle, Exec, SignalHandling, SetGate,
           Pause, Alarm, Test, Turn, Die, child, Types, ChildType
  <2> QED BY <2>1 DEF Types, ChildType
<1> QED BY <1>1, <1>2, <1>6, <1>7, <1>8, <1>9, <1>10, <1>11

\* The user changes no process but to stop it.
LEMMA UserKeeps ==
  ASSUME User
  PROVE  UNCHANGED <<ppc, which, installed, newpid, pid_array, ending, st, disp, GATE, turn, cut>>
  BY DEF User, SendParent, SendChild, Stop, parent, child

-----------------------------------------------------------------------------
(* The parent knows its children *)

LEMMA PhasesNext == IInv /\ [Next]_vars => Phases' /\ Fresh'
<1> SUFFICES ASSUME IInv, [Next]_vars PROVE Phases' /\ Fresh'
  OBVIOUS
<1>a. Types /\ Phases /\ Fresh
  BY DEF IInv
<1>s. ASSUME UNCHANGED <<ppc, which, installed, pid_array, ending>> PROVE Phases' /\ Fresh'
  BY <1>a, <1>s DEF Phases, Fresh
<1>1. CASE UNCHANGED vars
  BY <1>s, <1>1 DEF vars, parent
<1>2. CASE User
  BY <1>s, <1>2, UserKeeps
<1>3. CASE \E p \in Pid : ChildSignal(p) \/ ChildRuns(p)
  BY <1>a, <1>s, <1>3, ChildKeeps DEF parent
<1>4. CASE CreateChild
  BY <1>a, <1>4 DEF CreateChild, Phases, Fresh
<1>5. CASE Store
  <2>1. Phases'
    BY <1>a, <1>5 DEF Store, Phases
  <2>2. Fresh'
    <3> SUFFICES ASSUME ~installed, ppc' = "create", NEW g \in Gate, g >= which'
                 PROVE  pid_array'[g] = 0
      BY <1>5 DEF Store, Fresh
    <3>1. which' = which + 1 /\ which \in Nat /\ pid_array' = [pid_array EXCEPT ![which] = newpid]
      BY <1>a, <1>5 DEF Store, Types, ParentType, Gate
    <3>2. g # which /\ g >= which
      BY <3>1 DEF Gate
    <3> QED BY <1>a, <1>5, <3>1, <3>2 DEF Store, Fresh, Types, ParentType
  <2> QED BY <2>1, <2>2
<1>6. CASE Install
  BY <1>a, <1>6 DEF Install, Phases, Fresh
<1>7. CASE Wait
  BY <1>a, <1>7 DEF Wait, Phases, Fresh
<1>8. ASSUME NEW s \in Signal, ParentSignal(s) PROVE Phases' /\ Fresh'
  <2>1. CASE ppc' = "exited"
    BY <2>1 DEF Phases, Fresh
  <2>2. CASE ppc' # "exited"
    BY <1>s, <1>8, <2>2 DEF ParentSignal
  <2> QED BY <2>1, <2>2
<1> QED BY <1>1, <1>2, <1>3, <1>4, <1>5, <1>6, <1>7, <1>8 DEF Next, Parent

LEMMA KnownNext == IInv /\ [Next]_vars => Known'
<1> SUFFICES ASSUME IInv, [Next]_vars PROVE Known'
  OBVIOUS
<1>a. Types /\ Phases /\ Fresh /\ Known
  BY DEF IInv
<1>s. ASSUME UNCHANGED <<ppc, which, newpid, pid_array>>, \A p \in Pid : st'[p] # "free" => st[p] # "free"
      PROVE  Known'
  BY <1>a, <1>s DEF Known, KnownBut
<1>1. CASE UNCHANGED vars
  BY <1>s, <1>1 DEF vars, parent, child
<1>2. CASE User
  BY <1>s, <1>2, UserKeeps
<1>3. CASE \E p \in Pid : ChildSignal(p) \/ ChildRuns(p)
  <2>1. PICK p \in Pid : ChildSignal(p) \/ ChildRuns(p)
    BY <1>3
  <2>2. UNCHANGED parent /\ st[p] # "free" /\ \A q \in Pid : q # p => st'[q] = st[q]
    BY <1>a, <2>1, ChildKeeps
  <2> QED BY <1>s, <2>2 DEF parent
<1>4. CASE CreateChild
  <2>1. CASE ppc' = "exited"
    BY <2>1 DEF Known
  <2>2. ASSUME NEW p \in Pid, st' = [st EXCEPT ![p] = "forked"], newpid' = p, ppc' = "store"
        PROVE  Known'
    <3>1. \A q \in Pid : st'[q] # "free" => q = p \/ KnownBut(which, q)
      BY <1>a, <1>4, <2>2 DEF CreateChild, Known, Types, ChildType
    <3>2. \A q \in Pid : KnownBut(which, q)' <=> KnownBut(which, q)
      BY <1>4 DEF CreateChild, KnownBut
    <3> QED BY <2>2, <3>1, <3>2 DEF Known
  <2> QED BY <1>4, <2>1, <2>2 DEF CreateChild, FreePid
<1>5. CASE Store
  <2>1. /\ pid_array' = [pid_array EXCEPT ![which] = newpid] /\ st' = st /\ which \in Gate
        /\ ppc = "store" /\ ppc' \in {"loop", "create", "install"}
    BY <1>a, <1>5 DEF Store, child, Types, ParentType
  <2>2. \A p \in Pid : st'[p] # "free" => p = newpid \/ KnownBut(which, p)
    BY <1>a, <2>1 DEF Known
  <2>3. pid_array'[which] = newpid /\ \A h \in Gate : h # which => pid_array'[h] = pid_array[h]
    BY <1>a, <2>1 DEF Types, ParentType
  <2>4. \A p \in Pid : st'[p] # "free" => \E g \in Gate : pid_array'[g] = p
    BY <2>1, <2>2, <2>3 DEF KnownBut
  <2>5. CASE ppc' = "create"
    <3>1. which' = which + 1 /\ which' \in Gate /\ which' # which /\ ~installed /\ which' >= which
      BY <1>a, <1>5, <2>5, GatesAssumption DEF Store, Types, ParentType, Gate
    <3>2. pid_array'[which'] = 0
      BY <1>a, <2>1, <2>3, <3>1 DEF Fresh
    <3>3. \A p \in Pid : st'[p] # "free" => KnownBut(which, p)'
      BY <2>4, <3>2, ConstTypes DEF KnownBut
    <3> QED BY <2>5, <3>3 DEF Known
  <2>6. CASE ppc' \in {"loop", "install"}
    BY <2>4, <2>6 DEF Known
  <2> QED BY <2>1, <2>5, <2>6
<1>6. CASE Install
  BY <1>a, <1>6 DEF Install, Known, child
<1>7. CASE Wait
  <2>1. CASE UNCHANGED <<st, which, ppc>>
    BY <1>s, <1>7, <2>1 DEF Wait
  <2>2. ASSUME NEW p \in Pid, NEW g \in Gate, st' = [st EXCEPT ![p] = "free"], pid_array[g] = p,
               which' = g, ppc' = "recreate"
        PROVE  Known'
    <3>1. \A q \in Pid : st'[q] # "free" => q # p /\ st[q] # "free"
      BY <1>a, <2>2 DEF Types, ChildType
    <3>2. \A q \in Pid : st'[q] # "free" => KnownBut(which, q)'
      BY <1>a, <1>7, <2>2, <3>1 DEF Wait, Known, KnownBut
    <3> QED BY <2>2, <3>2 DEF Known
  <2> QED BY <1>7, <2>1, <2>2 DEF Wait
<1>8. ASSUME NEW s \in Signal, ParentSignal(s) PROVE Known'
  <2>1. CASE ppc' = "exited"
    BY <2>1 DEF Known
  <2>2. CASE ppc' # "exited"
    BY <1>s, <1>8, <2>2 DEF ParentSignal, child
  <2> QED BY <2>1, <2>2
<1> QED BY <1>1, <1>2, <1>3, <1>4, <1>5, <1>6, <1>7, <1>8 DEF Next, Parent

-----------------------------------------------------------------------------
(* Nobody is left behind *)

\* The parent's handler tells every child, unless one is not stored yet.
LEMMA AllTargets ==
  ASSUME IInv, installed, ppc \notin {"store", "exited"}, NEW p \in Pid, Alive(p)
  PROVE  p \in Targets(pid_array)
<1>1. st[p] # "free"
  BY DEF Alive
<1>2. ppc \in {"loop", "recreate"}
  BY DEF IInv, Types, ParentType, Phases
<1>3. \E g \in Gate : pid_array[g] = p
  BY <1>1, <1>2 DEF IInv, Known, KnownBut
<1> QED BY <1>3 DEF Targets

LEMMA ToldNext == IInv /\ [Next]_vars => Told'
<1> SUFFICES ASSUME IInv, [Next]_vars, ending' = "handler", NEW p \in Pid, Alive(p)'
             PROVE  "SIGTERM" \in pending'[p]
  BY DEF Told
<1>a. Types /\ Phases /\ Told
  BY DEF IInv
<1>s. ASSUME ending = "handler", st'[p] = st[p], pending[p] \subseteq pending'[p]
      PROVE  "SIGTERM" \in pending'[p]
  BY <1>a, <1>s DEF Told, Alive
<1>1. CASE UNCHANGED vars
  BY <1>s, <1>1 DEF vars, parent, child
<1>2. CASE User
  <2>1. pending[p] \subseteq pending'[p]
    BY <1>a, <1>2 DEF User, SendParent, SendChild, Stop, Kill, Types, MailType
  <2> QED BY <1>s, <1>2, <2>1, UserKeeps
<1>3. ASSUME NEW q \in Pid, ChildSignal(q) \/ ChildRuns(q) PROVE "SIGTERM" \in pending'[p]
  <2>0. /\ ending = "handler" /\ Alive(q) /\ \A r \in Pid : r # q => st'[r] = st[r]
    BY <1>a, <1>3, ChildKeeps DEF parent
  <2>2. ASSUME Die(q) PROVE p # q
    BY <1>a, <2>2 DEF Die, Alive, Types, ChildType
  <2>6. ASSUME Die(q), Bury(q) PROVE "SIGTERM" \in pending'[p]
    <3>1. p # q /\ pending'[p] = pending[p]
      BY <1>a, <2>2, <2>6 DEF Bury, Types, MailType
    <3> QED BY <1>s, <2>0, <3>1
  <2>1. CASE ChildRuns(q)
    <3>1. CASE Die(q) /\ Bury(q)
      BY <2>6, <3>1
    <3>2. CASE ~(Die(q) /\ Bury(q))
      <4>1. Alive(p) /\ pending' = pending
        BY <1>a, <2>0, <2>1, <3>2 DEF ChildRuns, Exec, SignalHandling, SetGate, Pause, Alarm, Test,
                                      Turn, Alive
      <4> QED BY <1>a, <2>0, <4>1 DEF Told
    <3> QED BY <3>1, <3>2
  <2>3. ASSUME NEW s \in Signal, ChildDies(q, s) PROVE "SIGTERM" \in pending'[p]
    <3>1. p # q /\ pending'[p] = pending[p]
      BY <1>a, <2>2, <2>3 DEF ChildDies, Bury, Types, MailType
    <3> QED BY <1>s, <2>0, <3>1
  <2>4. ASSUME NEW s \in Signal, ChildForwards(q, s) PROVE "SIGTERM" \in pending'[p]
    <3>1. CASE p = q
      <4>1. s # "SIGTERM" /\ st' = st
        BY <2>2, <2>4, <3>1 DEF ChildForwards, child
      <4>2. pending'[p] = pending[p] \ {s}
        BY <2>4, <3>1, <4>1 DEF ChildForwards
      <4> QED BY <1>a, <2>0, <3>1, <4>1, <4>2 DEF Told
    <3>2. CASE p # q
      <4>1. pending[p] \subseteq pending'[p]
        BY <2>4, <3>2 DEF ChildForwards
      <4> QED BY <1>s, <2>0, <3>2, <4>1
    <3> QED BY <3>1, <3>2
  <2>5. ASSUME NEW s \in Signal, Handle(q, s) PROVE "SIGTERM" \in pending'[p]
    <3>1. CASE Die(q) /\ Bury(q)
      BY <2>6, <3>1
    <3>2. CASE ~(Die(q) /\ Bury(q))
      <4>1. s # "SIGTERM" /\ st' = st /\ pending' = [pending EXCEPT ![q] = @ \ {s}]
        BY <2>5, <3>2 DEF Handle
      <4>2. Alive(p)
        BY <4>1 DEF Alive
      <4> QED BY <1>a, <2>0, <4>1, <4>2 DEF Told, Types, MailType
    <3> QED BY <3>1, <3>2
  <2> QED BY <1>3, <2>1, <2>3, <2>4, <2>5 DEF ChildSignal
<1>4. CASE CreateChild \/ Store \/ Install \/ Wait
  <2>1. ending # "handler" /\ ending' # "handler"
    BY <1>a, <1>4 DEF CreateChild, Store, Install, Wait, Phases
  <2> QED BY <2>1
<1>5. ASSUME NEW s \in Signal, ParentSignal(s) PROVE "SIGTERM" \in pending'[p]
  <2>1. ending # "handler" /\ ppc # "exited" /\ st' = st
    BY <1>a, <1>5 DEF ParentSignal, Phases, child
  <2>2. installed /\ s = "SIGTERM" /\ ppc # "store" /\ Kill(Targets(pid_array), s)
    BY <1>5, <2>1 DEF ParentSignal
  <2>3. p \in Targets(pid_array)
    BY <2>1, <2>2, AllTargets DEF Alive
  <2> QED BY <2>2, <2>3 DEF Kill
<1> QED BY <1>1, <1>2, <1>3, <1>4, <1>5 DEF Next, Parent

-----------------------------------------------------------------------------
(* A gate turns as often as it is told to *)

LEMMA OwnNext == IInv /\ [Next]_vars => OwnHandlers'
<1> SUFFICES ASSUME IInv, [Next]_vars, NEW p \in Pid,
                    st'[p] \in {"ready", "run", "pause", "alarm"}
             PROVE  disp'[p] = "child"
  BY DEF OwnHandlers
<1>a. Types /\ OwnHandlers
  BY DEF IInv
<1>s. ASSUME st'[p] = st[p], disp'[p] = disp[p] PROVE disp'[p] = "child"
  BY <1>a, <1>s DEF OwnHandlers
<1>1. CASE UNCHANGED vars
  BY <1>s, <1>1 DEF vars, child
<1>2. CASE User
  BY <1>s, <1>2, UserKeeps
<1>3. ASSUME NEW q \in Pid, ChildSignal(q) \/ ChildRuns(q) PROVE disp'[p] = "child"
  <2>1. CASE p # q
    BY <1>a, <1>s, <1>3, <2>1, ChildKeeps
  <2>2. CASE p = q
    <3>1. CASE st' = st /\ disp' = disp
      BY <1>s, <3>1
    <3>2. CASE Die(p)
      BY <1>a, <3>2 DEF Die, Types, ChildType
    <3>3. CASE ChildRuns(p) /\ ~Die(p)
      <4>1. CASE Alarm(p) \/ Test(p) \/ Turn(p)
        <5>1. disp' = disp /\ st[p] \in {"ready", "run", "pause", "alarm"}
          BY <1>a, <2>2, <3>3, <4>1 DEF Alarm, Test, Turn, Types, ChildType
        <5> QED BY <1>a, <2>2, <5>1 DEF OwnHandlers
      <4>2. CASE Exec(p) \/ SignalHandling(p) \/ SetGate(p) \/ Pause(p)
        BY <1>a, <2>2, <4>2 DEF Exec, SignalHandling, SetGate, Pause, Types, ChildType, OwnHandlers
      <4> QED BY <3>3, <4>1, <4>2 DEF ChildRuns
    <3> QED BY <1>3, <2>2, <3>1, <3>2, <3>3 DEF ChildSignal, ChildDies, ChildForwards, Handle, child
  <2> QED BY <2>1, <2>2
<1>4. CASE CreateChild
  BY <1>a, <1>s, <1>4 DEF CreateChild, FreePid, Types, ChildType
<1>5. CASE Store \/ Install \/ \E s \in Signal : ParentSignal(s)
  BY <1>s, <1>5 DEF Store, Install, ParentSignal, child
<1>6. CASE Wait
  BY <1>a, <1>s, <1>6 DEF Wait, Types, ChildType
<1> QED BY <1>1, <1>2, <1>3, <1>4, <1>5, <1>6 DEF Next, Parent

\* A SIGUSR1 that is sent turns what is expected unless one waits already.
LEMMA KillCounted ==
  ASSUME NEW g \in BOOLEAN, NEW e \in BOOLEAN, NEW m, NEW t, NEW s, CountedFor(e, g, m, t)
  PROVE  CountedFor(IF s = "SIGUSR1" /\ s \notin m THEN ~e ELSE e, g, m \cup {s}, t)
<1>1. CASE s = "SIGUSR1" /\ s \notin m
  BY <1>1 DEF CountedFor
<1>2. CASE ~(s = "SIGUSR1" /\ s \notin m)
  <2>1. "SIGUSR1" \in m \cup {s} <=> "SIGUSR1" \in m
    BY <1>2
  <2> QED BY <1>2, <2>1 DEF CountedFor
<1> QED BY <1>1, <1>2

\* handle_sigusr1 begins: the signal waits no more, its activation does.
LEMMA CalledCounted ==
  ASSUME NEW g \in BOOLEAN, NEW e \in BOOLEAN, NEW m, NEW t \in Seq({"called", "open", "close"}),
         "SIGUSR1" \in m, CountedFor(e, g, m, t)
  PROVE  CountedFor(e, g, m \ {"SIGUSR1"}, Append(t, "called"))
<1>1. Len(Append(t, "called")) = Len(t) + 1 /\ Len(t) \in Nat
  OBVIOUS
<1>2. ((Len(t) + 1) % 2 = 1) = ~(Len(t) % 2 = 1)
  BY <1>1
<1> QED BY <1>1, <1>2 DEF CountedFor

LEMMA CalledSteady ==
  ASSUME NEW g \in BOOLEAN, NEW t \in Seq({"called", "open", "close"}), SteadyFor(g, t)
  PROVE  SteadyFor(g, Append(t, "called"))
<1> DEFINE u == Append(t, "called")
<1>1. \A i \in 1..Len(u) : u[i] # "called" => i \in 1..Len(t) /\ u[i] = t[i]
  OBVIOUS
<1> HIDE DEF u
<1>2. SteadyFor(g, u)
  BY <1>1 DEF SteadyFor
<1> QED BY <1>2 DEF u

\* It tests the gate, when no other has tested it and not yet turned it.
LEMMA TestSteady ==
  ASSUME NEW g \in BOOLEAN, NEW t \in Seq({"called", "open", "close"}), t # <<>>,
         \A i \in 1..Len(t) : t[i] = "called"
  PROVE  LET u == [t EXCEPT ![Len(t)] = IF g THEN "close" ELSE "open"]
         IN  SteadyFor(g, u) /\ Len(u) = Len(t)
<1> DEFINE u == [t EXCEPT ![Len(t)] = IF g THEN "close" ELSE "open"]
<1>1. Len(u) = Len(t) /\ Len(t) \in 1..Len(t)
  OBVIOUS
<1>2. u[Len(t)] = (IF g THEN "close" ELSE "open")
  BY <1>1
<1>3. \A i \in 1..Len(t) : i # Len(t) => u[i] = "called"
  <2> SUFFICES ASSUME NEW i \in 1..Len(t), i # Len(t) PROVE u[i] = "called"
    OBVIOUS
  <2>1. u[i] = t[i]
    OBVIOUS
  <2> QED BY <2>1
<1> HIDE DEF u
<1>4. SteadyFor(g, u)
  BY <1>1, <1>2, <1>3 DEF SteadyFor
<1> QED BY <1>1, <1>4 DEF u

\* It turns the gate and is done.
LEMMA TurnCounted ==
  ASSUME NEW g \in BOOLEAN, NEW e \in BOOLEAN, NEW m, NEW t \in Seq({"called", "open", "close"}),
         t # <<>>, t[Len(t)] # "called", SteadyFor(g, t)
  PROVE  /\ SteadyFor(t[Len(t)] = "open", SubSeq(t, 1, Len(t) - 1))
         /\ CountedFor(e, g, m, t) =>
              CountedFor(e, t[Len(t)] = "open", m, SubSeq(t, 1, Len(t) - 1))
<1> DEFINE u == SubSeq(t, 1, Len(t) - 1)
<1>0. Len(t) \in Nat \ {0}
  OBVIOUS
<1>1. Len(u) = Len(t) - 1 /\ \A i \in 1..Len(u) : u[i] = t[i]
  <2>1. Len(u) = Len(t) - 1
    <3>1. \A i \in 1..(Len(t) - 1) : t[i] \in {"called", "open", "close"}
      BY <1>0
    <3>2. Len(u) = IF 1 <= Len(t) - 1 THEN (Len(t) - 1) - 1 + 1 ELSE 0
      BY <1>0, <3>1, SubSeqProperties
    <3> HIDE DEF u
    <3>3. CASE Len(t) = 1
      BY <3>2, <3>3
    <3>4. CASE Len(t) > 1
      BY <1>0, <3>2, <3>4
    <3>5. Len(t) = 1 \/ Len(t) > 1
      BY SMTT(30), <1>0
    <3> QED BY <3>3, <3>4, <3>5
  <2>2. ASSUME NEW i \in 1..(Len(t) - 1) PROVE u[i] = t[i]
    BY <1>0
  <2> HIDE DEF u
  <2> QED BY <2>1, <2>2
<1>2. (t[Len(t)] = "open") = ~g
  BY <1>0 DEF SteadyFor
<1>3. ((Len(t) - 1) % 2 = 1) = ~(Len(t) % 2 = 1)
  BY <1>0
<1> HIDE DEF u
<1>4. \A i \in 1..Len(u) : u[i] = "called"
  BY <1>0, <1>1 DEF SteadyFor
<1>5. SteadyFor(t[Len(t)] = "open", u)
  BY <1>4 DEF SteadyFor
<1>6. CountedFor(e, g, m, t) => CountedFor(e, t[Len(t)] = "open", m, u)
  BY <1>1, <1>2, <1>3 DEF CountedFor
<1> QED BY <1>5, <1>6 DEF u

\* TogglesCounted and Steady for one process.
Good(p) ==
  ~cut[p] =>
    /\ SteadyFor(GATE[p], turn[p])
    /\ st[p] \in {"run", "pause", "alarm"} => CountedFor(expected[p], GATE[p], pending[p], turn[p])

LEMMA GoodAll == (\A p \in Pid : Good(p)) <=> Steady /\ TogglesCounted
  BY DEF Good, Steady, TogglesCounted, CountedFor

\* A step that changes of a process at most what waits for it.
LEMMA GoodSame ==
  ASSUME NEW p \in Pid, Good(p), st'[p] = st[p], GATE'[p] = GATE[p], turn'[p] = turn[p],
         cut'[p] = cut[p], expected'[p] = expected[p], pending'[p] = pending[p]
  PROVE  Good(p)'
  BY DEF Good

LEMMA GoodSent ==
  ASSUME Types, NEW p \in Pid, Good(p), st'[p] = st[p], GATE'[p] = GATE[p], turn'[p] = turn[p],
         cut'[p] = cut[p], NEW s, pending'[p] = pending[p] \cup {s},
         expected'[p] = IF s = "SIGUSR1" /\ s \notin pending[p] THEN ~expected[p] ELSE expected[p]
  PROVE  Good(p)'
<1>1. GATE[p] \in BOOLEAN /\ expected[p] \in BOOLEAN
  BY DEF Types, ChildType, MailType
<1>2. CountedFor(expected[p], GATE[p], pending[p], turn[p])
        => CountedFor(IF s = "SIGUSR1" /\ s \notin pending[p] THEN ~expected[p] ELSE expected[p],
                      GATE[p], pending[p] \cup {s}, turn[p])
  BY <1>1, KillCounted
<1> QED BY <1>2 DEF Good

LEMMA GoodKill ==
  ASSUME Types, NEW p \in Pid, Good(p), NEW ps, NEW s \in Signal, Kill(ps, s),
         UNCHANGED <<st, GATE, turn, cut>>
  PROVE  Good(p)'
<1>1. CASE p \in ps
  <2>1. pending'[p] = pending[p] \cup {s}
    BY <1>1 DEF Kill
  <2>2. expected'[p] = IF s = "SIGUSR1" /\ s \notin pending[p] THEN ~expected[p] ELSE expected[p]
    BY <1>1 DEF Kill
  <2> QED BY <2>1, <2>2, GoodSent
<1>2. CASE p \notin ps
  <2>1. pending'[p] = pending[p] /\ expected'[p] = expected[p]
    BY <1>2 DEF Kill
  <2> QED BY <2>1, GoodSame
<1> QED BY <1>1, <1>2

\* A process that ends is not counted.
LEMMA GoodDie ==
  ASSUME Types, NEW p \in Pid, NEW q \in Pid, Good(p), Die(q), Bury(q) PROVE Good(p)'
<1>1. CASE p = q
  <2>1. turn'[p] = <<>> /\ st'[p] = "zombie"
    BY <1>1 DEF Die, Types, ChildType
  <2> QED BY <2>1 DEF Good, SteadyFor
<1>2. CASE p # q
  <2>1. st'[p] = st[p] /\ GATE'[p] = GATE[p] /\ turn'[p] = turn[p] /\ cut'[p] = cut[p]
    BY <1>2 DEF Die, Types, ChildType
  <2>2. pending'[p] = pending[p] /\ expected'[p] = expected[p]
    BY <1>2 DEF Bury, Types, MailType
  <2> QED BY <2>1, <2>2, GoodSame
<1> QED BY <1>1, <1>2

\* What a process does to itself.
LEMMA GoodRuns ==
  ASSUME IInv, NEW p \in Pid, Good(p), ChildRuns(p), ~(Die(p) /\ Bury(p)) PROVE Good(p)'
<1>a. Types
  BY DEF IInv
<1>b. /\ GATE[p] \in BOOLEAN /\ expected[p] \in BOOLEAN /\ cut[p] \in BOOLEAN
      /\ turn[p] \in Seq({"called", "open", "close"})
  BY <1>a DEF Types, ChildType, MailType
<1>1. CASE Exec(p) \/ SignalHandling(p)
  <2>1. /\ st'[p] \notin {"run", "pause", "alarm"}
        /\ UNCHANGED <<GATE, turn, cut, pending, expected>>
    BY <1>a, <1>1 DEF Exec, SignalHandling, Types, ChildType
  <2> QED BY <2>1 DEF Good
<1>2. CASE SetGate(p)
  <2>1. GATE'[p] = Open(number[p]) /\ turn'[p] = <<>>
    BY <1>a, <1>2 DEF SetGate, Types, ChildType
  <2>2. expected'[p] = (Open(number[p]) # ("SIGUSR1" \in pending'[p]))
    BY <1>a, <1>2 DEF SetGate, Types, MailType
  <2>3. Open(number[p]) \in BOOLEAN
    BY DEF Open
  <2>4. Len(turn'[p]) % 2 # 1
    BY <2>1
  <2>5. CountedFor(expected'[p], GATE'[p], pending'[p], turn'[p])
    BY <2>1, <2>2, <2>3, <2>4 DEF CountedFor
  <2> QED BY <2>1, <2>5 DEF Good, SteadyFor
<1>3. CASE Pause(p)
  <2>1. st[p] = "run" /\ UNCHANGED <<GATE, turn, cut, pending, expected>>
    BY <1>3 DEF Pause
  <2> QED BY <2>1 DEF Good
<1>4. CASE Alarm(p)
  <2>1. CASE turn[p] # <<>>
    <3>1. cut'[p] = TRUE
      BY <1>a, <1>4, <2>1 DEF Alarm, Types, ChildType
    <3> QED BY <3>1 DEF Good
  <2>2. CASE turn[p] = <<>>
    <3>1. st[p] \in {"run", "pause", "alarm"} /\ UNCHANGED <<GATE, pending, expected>> /\ turn'[p] = turn[p]
      BY <1>a, <1>4, <2>2 DEF Alarm, Types, ChildType
    <3>2. cut'[p] = cut[p]
      BY <1>a, <1>b, <1>4, <2>2 DEF Alarm, Types, ChildType
    <3> QED BY <3>1, <3>2 DEF Good
  <2> QED BY <2>1, <2>2
<1>5. CASE Test(p)
  <2>0. st' = st /\ UNCHANGED <<GATE, pending, expected>>
    BY <1>5 DEF Test
  <2>1. CASE \E i \in 1..Len(turn[p]) : turn[p][i] # "called"
    <3>1. cut'[p] = TRUE
      BY <1>a, <1>5, <2>1 DEF Test, Types, ChildType
    <3> QED BY <3>1 DEF Good
  <2>2. CASE \A i \in 1..Len(turn[p]) : turn[p][i] = "called"
    <3>1. cut'[p] = cut[p]
      BY <1>a, <1>b, <1>5, <2>2 DEF Test, Types, ChildType
    <3>2. turn'[p] = [turn[p] EXCEPT ![Len(turn[p])] = IF GATE[p] THEN "close" ELSE "open"]
      BY <1>a, <1>5 DEF Test, Types, ChildType
    <3>3. turn[p] # <<>>
      BY <1>5 DEF Test
    <3>4. SteadyFor(GATE[p], turn'[p]) /\ Len(turn'[p]) = Len(turn[p])
      BY <1>b, <2>2, <3>2, <3>3, TestSteady
    <3> QED BY <2>0, <3>1, <3>4 DEF Good, CountedFor
  <2> QED BY <2>1, <2>2
<1>6. CASE Turn(p)
  <2>1. /\ st' = st /\ cut' = cut /\ UNCHANGED <<pending, expected>>
        /\ turn[p] # <<>> /\ turn[p][Len(turn[p])] # "called"
    BY <1>6 DEF Turn
  <2>2. GATE'[p] = (turn[p][Len(turn[p])] = "open")
    BY <1>a, <1>6 DEF Turn, Types, ChildType
  <2>3. turn'[p] = SubSeq(turn[p], 1, Len(turn[p]) - 1)
    BY <1>a, <1>6 DEF Turn, Types, ChildType
  <2> QED BY ZenonT(60), <1>b, <2>1, <2>2, <2>3, TurnCounted DEF Good
<1> QED BY <1>1, <1>2, <1>3, <1>4, <1>5, <1>6 DEF ChildRuns

LEMMA GoodHandle ==
  ASSUME IInv, NEW p \in Pid, NEW s \in Signal, Good(p), Handle(p, s), ~(Die(p) /\ Bury(p))
  PROVE  Good(p)'
<1>a. Types
  BY DEF IInv
<1>b. /\ GATE[p] \in BOOLEAN /\ expected[p] \in BOOLEAN
      /\ turn[p] \in Seq({"called", "open", "close"})
  BY <1>a DEF Types, ChildType, MailType
<1>1. /\ UNCHANGED <<st, GATE, cut, expected>> /\ s \in pending[p]
      /\ turn' = IF s = "SIGUSR1" THEN [turn EXCEPT ![p] = Append(@, "called")] ELSE turn
  BY DEF Handle
<1>2. pending'[p] = pending[p] \ {s}
  BY <1>a DEF Handle, Types, MailType
<1>3. CASE s = "SIGUSR1"
  <2>1. turn'[p] = Append(turn[p], "called")
    BY <1>a, <1>1, <1>3 DEF Types, ChildType
  <2> QED BY <1>b, <1>1, <1>2, <1>3, <2>1, CalledCounted, CalledSteady DEF Good
<1>4. CASE s # "SIGUSR1"
  <2>1. turn' = turn /\ ("SIGUSR1" \in pending'[p] <=> "SIGUSR1" \in pending[p])
    BY <1>1, <1>2, <1>4
  <2>2. CountedFor(expected[p], GATE[p], pending[p], turn[p])
          => CountedFor(expected'[p], GATE'[p], pending'[p], turn'[p])
    <3>1. CASE "SIGUSR1" \in pending[p]
      BY <1>b, <1>1, <2>1, <3>1 DEF CountedFor
    <3>2. CASE "SIGUSR1" \notin pending[p]
      <4>1. ("SIGUSR1" \in pending[p]) = FALSE /\ ("SIGUSR1" \in pending'[p]) = FALSE
        BY <2>1, <3>2
      <4> QED BY <1>1, <2>1, <4>1 DEF CountedFor
    <3> QED BY <3>1, <3>2
  <2> QED BY <1>1, <2>1, <2>2 DEF Good
<1> QED BY <1>3, <1>4

\* A process that is counted has its own handlers, and forwards nothing.
LEMMA GoodForwards ==
  ASSUME IInv, NEW p \in Pid, NEW q \in Pid, NEW s \in Signal, Good(p), ChildForwards(q, s)
  PROVE  Good(p)'
<1>a. Types /\ OwnHandlers
  BY DEF IInv
<1>b. turn[q] = <<>> => turn'[q] = <<>>
  BY <1>a DEF ChildForwards, Die, child, Types, ChildType
<1>0. ChildSignal(q)
  BY DEF ChildSignal
<1>1. CASE p = q
  <2>1. disp[p] = "parent" /\ (Die(p) \/ UNCHANGED child)
    BY <1>1 DEF ChildForwards
  <2>2. CASE Die(p)
    <3>1. turn'[p] = <<>> /\ st'[p] = "zombie"
      BY <1>a, <2>2 DEF Die, Types, ChildType
    <3> QED BY <3>1 DEF Good, SteadyFor
  <2>3. CASE UNCHANGED child
    <3>1. st'[p] \notin {"run", "pause", "alarm"}
      BY <1>a, <2>1, <2>3 DEF OwnHandlers, child
    <3> QED BY <2>3, <3>1 DEF Good, child
  <2> QED BY <2>1, <2>2, <2>3
<1>2. CASE p # q
  <2>1. st'[p] = st[p] /\ GATE'[p] = GATE[p] /\ turn'[p] = turn[p] /\ cut'[p] = cut[p]
    BY <1>a, <1>0, <1>2, ChildKeeps
  <2>2. CASE p \in Targets(copy[q]) \ {q}
    <3>1. pending'[p] = pending[p] \cup {s}
      BY <1>2, <2>2 DEF ChildForwards
    <3>2. expected'[p] = IF s = "SIGUSR1" /\ s \notin pending[p] THEN ~expected[p] ELSE expected[p]
      BY <2>2 DEF ChildForwards
    <3> QED BY <1>a, <2>1, <3>1, <3>2, GoodSent
  <2>3. CASE p \notin Targets(copy[q]) \ {q}
    <3>1. pending'[p] = pending[p] /\ expected'[p] = expected[p]
      BY <1>2, <2>3 DEF ChildForwards
    <3> QED BY <2>1, <3>1, GoodSame
  <2> QED BY <2>2, <2>3
<1> QED BY <1>1, <1>2

\* What a process does to another, short of ending or of forwarding a signal.
LEMMA GoodOther ==
  ASSUME IInv, NEW p \in Pid, NEW q \in Pid, p # q, Good(p),
         ChildRuns(q) \/ \E s \in Signal : Handle(q, s), ~(Die(q) /\ Bury(q))
  PROVE  Good(p)'
<1>a. Types
  BY DEF IInv
<1>1. st'[p] = st[p] /\ GATE'[p] = GATE[p] /\ turn'[p] = turn[p] /\ cut'[p] = cut[p]
  BY <1>a, ChildKeeps DEF ChildSignal
<1>2. pending'[p] = pending[p]
  BY <1>a DEF ChildRuns, Exec, SignalHandling, SetGate, Pause, Alarm, Test, Turn, Handle, Types, MailType
<1>3. expected'[p] = expected[p]
  BY <1>a DEF ChildRuns, Exec, SignalHandling, SetGate, Pause, Alarm, Test, Turn, Handle, Types, MailType
<1> QED BY <1>1, <1>2, <1>3, GoodSame

LEMMA GoodParent ==
  ASSUME Types, Parent, NEW p \in Pid, Good(p) PROVE Good(p)'
<1>1. CASE CreateChild
  <2>1. UNCHANGED <<GATE, turn, cut, pending, expected>>
    BY <1>1 DEF CreateChild
  <2>2. st'[p] = st[p] \/ st'[p] = "forked"
    BY <1>1 DEF CreateChild, FreePid, Types, ChildType
  <2> QED BY <2>1, <2>2 DEF Good
<1>2. CASE Store \/ Install
  BY <1>2, GoodSame DEF Store, Install, child
<1>3. CASE Wait
  <2>1. UNCHANGED <<GATE, turn, cut, pending, expected>>
    BY <1>3 DEF Wait
  <2>2. st'[p] = st[p] \/ st'[p] = "free"
    BY <1>3 DEF Wait, Types, ChildType
  <2> QED BY <2>1, <2>2 DEF Good
<1>4. ASSUME NEW s \in Signal, ParentSignal(s) PROVE Good(p)'
  <2>1. UNCHANGED <<st, GATE, turn, cut>>
    BY <1>4 DEF ParentSignal, child
  <2>2. (pending' = pending /\ expected' = expected) \/ Kill(Targets(pid_array), s)
    BY <1>4 DEF ParentSignal
  <2> QED BY <2>1, <2>2, GoodKill, GoodSame
<1> QED BY <1>1, <1>2, <1>3, <1>4 DEF Parent

LEMMA GoodUser ==
  ASSUME Types, User, NEW p \in Pid, Good(p) PROVE Good(p)'
<1>1. UNCHANGED <<st, GATE, turn, cut>>
  BY UserKeeps
<1>2. (pending' = pending /\ expected' = expected) \/ \E q \in Pid, s \in Signal : Kill({q}, s)
  BY DEF User, SendParent, SendChild, Stop
<1> QED BY <1>1, <1>2, GoodKill, GoodSame

LEMMA TogglesNext == IInv /\ [Next]_vars => Steady' /\ TogglesCounted'
<1> SUFFICES ASSUME IInv, [Next]_vars, NEW p \in Pid PROVE Good(p)'
  BY DEF Good, Steady, TogglesCounted, CountedFor
<1>a. Types /\ Good(p)
  BY GoodAll DEF IInv
<1>1. CASE UNCHANGED vars
  BY <1>a, <1>1, GoodSame DEF vars, child
<1>2. CASE User
  BY <1>a, <1>2, GoodUser
<1>3. CASE Parent
  BY <1>a, <1>3, GoodParent
<1>4. ASSUME NEW q \in Pid, ChildSignal(q) \/ ChildRuns(q) PROVE Good(p)'
  <2>1. CASE Die(q) /\ Bury(q)
    BY <1>a, <2>1, GoodDie
  <2>2. CASE ~(Die(q) /\ Bury(q)) /\ p # q
    BY <1>a, <1>4, <2>2, GoodOther, GoodForwards DEF ChildSignal, ChildDies
  <2>3. CASE ~(Die(q) /\ Bury(q)) /\ p = q
    BY <1>a, <1>4, <2>3, GoodRuns, GoodHandle, GoodForwards DEF ChildSignal, ChildDies
  <2> QED BY <2>1, <2>2, <2>3
<1> QED BY <1>1, <1>2, <1>3, <1>4 DEF Next

LEMMA InvCorrect == Spec => []IInv
<1>1. IInv /\ [Next]_vars => Types'
  <2> SUFFICES ASSUME IInv, [Next]_vars PROVE Types'
    OBVIOUS
  <2> QED BY TypeNext DEF IInv
<1>2. IInv /\ [Next]_vars => IInv'
  BY <1>1, PhasesNext, KnownNext, ToldNext, OwnNext, TogglesNext DEF IInv
<1> QED BY <1>2, InvInit, PTL DEF Spec

-----------------------------------------------------------------------------
\* When SIGTERM ends the parent no child lives that was not told, and the parent
\* can name every child it has, for any number of gates and any signals; but not
\* between fork() and the assignment to pid_array.
THEOREM OrphansCorrect == Spec => []NoOrphans
<1>1. IInv => NoOrphans
  BY DEF IInv, Types, ParentType, ChildType, MailType, TypeOK, Told, Known, NoOrphans
<1> QED BY <1>1, InvCorrect, PTL

\* No SIGUSR1 is lost or counted twice by a child that has read the state of its
\* gate, whoever sends it and whatever else it is sent, unless SIGALRM ended an
\* activation of handle_sigusr1 or one tested the gate inside another.
THEOREM TogglesCorrect == Spec => []TogglesCounted
<1>1. IInv => TogglesCounted
  BY DEF IInv
<1> QED BY <1>1, InvCorrect, PTL
=============================================================================
