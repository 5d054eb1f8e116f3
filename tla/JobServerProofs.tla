--------------------------- MODULE JobServerProofs ---------------------------
(***************************************************************************)
(* The job server cannot block itself: for any number of children and any  *)
(* pipes that hold at least two numbers, the parent and a child never wait *)
(* for each other's pipe to drain.                                         *)
(***************************************************************************)
EXTENDS JobServer, SequenceTheorems, TLAPS

\* The loop of the parent sends at most one job a turn, and takes one answer in
\* every turn from a child that had one when select() looked.  The jobs of a child
\* can only grow in number in a turn that found its pipe back empty, so that
\* they were at most PipeCap + 1 then.
InFlightBound ==
  \A c \in Child :
    /\ pc \in {"fork", "select", "stdin", "write"} => InFlight(c) <= PipeCap + 2
    /\ pc \in {"stdin", "write"} /\ c \notin ready => InFlight(c) <= PipeCap + 1
    /\ pc = "drain" => InFlight(c) <= PipeCap + 3
    /\ pc = "drain" /\ (c \notin ready \/ c < i) => InFlight(c) <= PipeCap + 2

\* A turn of the loop that reads or writes a job has not begun to drain.
TurnInv == pc \in {"stdin", "write"} => i = 0

\* Until the children are told to stop, a job that is pending is on its way.
PendingInv ==
  pc \notin {"kill", "exited"} =>
    \A c \in Child : cpc[c] # "killed" /\ Len(pending[c]) = InFlight(c)

\* Children are forked in their order.
ForkInv == pc = "fork" => \A c \in Child : c >= i => cpc[c] = "unborn"

IInv == TypeOK /\ ForkInv /\ TurnInv /\ PendingInv /\ InFlightBound

-----------------------------------------------------------------------------
\* The type invariant of the job server is inductive.
LEMMA TypeInit == Init => TypeOK
  BY JobAssumption DEF Init, TypeOK, Child, Nothing

\* What the head and the tail of a queue of integers are.
LEMMA QueueFacts ==
  ASSUME NEW s \in Seq(Int), s # <<>>
  PROVE  /\ Head(s) \in Int
         /\ Tail(s) \in Seq(Int)
         /\ Len(Tail(s)) = Len(s) - 1
         /\ Len(s) \in Nat \ {0}
  OBVIOUS

\* The type invariant, with every job sent accounted for.
LEMMA TypeNext == TypeOK /\ PendingInv /\ [Next]_vars => TypeOK'
<1> SUFFICES ASSUME TypeOK, PendingInv, [Next]_vars PROVE TypeOK'
  OBVIOUS
<1>0. \A k \in 0..digits : k < digits => k \in Child
  BY JobAssumption DEF Child
<1> USE DEF TypeOK
<1>1. CASE UNCHANGED vars
  BY <1>1 DEF vars, parent, children, pipes
<1>2. CASE Type
  <2>1. stdin' \in Line \cup {Nothing} /\ lines' \in 0..MaxLines
    BY <1>2, JobAssumption DEF Type, Line
  <2> QED BY <2>1, <1>2 DEF Type, parent, children, pipes
<1>3. CASE Fork
  <2>1. i' \in 0..digits
    BY <1>3, JobAssumption DEF Fork
  <2>2. cpc' \in [Child -> {"unborn", "read", "write", "killed"}]
    BY <1>0, <1>3 DEF Fork
  <2> QED BY <2>1, <2>2, <1>3 DEF Fork, pipes
<1>4. CASE Select
  <2>1. ready' \subseteq Child /\ i' \in 0..digits
    BY <1>4, JobAssumption DEF Select, Readable
  <2> QED BY <2>1, <1>4 DEF Select, children, pipes
<1>5. CASE ReadStdin
  <2>1. stdin' \in Line \cup {Nothing} /\ ready' \subseteq Child
    BY <1>5 DEF ReadStdin
  <2>2. stdin.number \in Int
    BY JobAssumption DEF Line, Nothing
  <2>3. iterator % digits \in Child
    BY JobAssumption DEF Child
  <2>4. iterator' \in Nat /\ send_to' \in Child /\ digits2' \in Int
    BY SMTT(30), <2>2, <2>3, <1>5 DEF ReadStdin
  <2> QED BY <2>1, <2>4, <1>5 DEF ReadStdin, children, pipes
<1>6. CASE WriteJob
  <2>1. Append(in[send_to], digits2) \in Seq(Int) /\ Append(pending[send_to], digits2) \in Seq(Int)
        /\ Len(Append(in[send_to], digits2)) = Len(in[send_to]) + 1
    OBVIOUS
  <2>2. in' \in [Child -> Seq(Int)] /\ pending' \in [Child -> Seq(Int)]
    BY <2>1, <1>6 DEF WriteJob
  <2>3. \A c \in Child : Len(in'[c]) <= PipeCap
    BY <2>1, <1>6, JobAssumption DEF WriteJob
  <2> QED BY <2>2, <2>3, <1>6 DEF WriteJob, children
<1>7. CASE Drain
  <2>1. CASE i < digits /\ i \in ready /\ out[i] # <<>>
    <3>1. Tail(out[i]) \in Seq(Int) /\ Len(Tail(out[i])) <= PipeCap
      BY <2>1, QueueFacts, JobAssumption
    <3>2. pending[i] # <<>>
      <4>1. i \in Child /\ pc = "drain"
        BY <2>1, <1>7 DEF Drain
      <4>2. Len(out[i]) \in Nat \ {0} /\ Len(in[i]) \in Nat
        BY <4>1, <2>1, QueueFacts
      <4>3. Len(pending[i]) = InFlight(i)
        BY <4>1 DEF PendingInv
      <4>4. Held(i) \in 0..1
        BY DEF Held
      <4> QED BY <4>2, <4>3, <4>4 DEF InFlight
    <3>3. Tail(pending[i]) \in Seq(Int)
      BY <2>1, <3>2, QueueFacts
    <3>4. out' \in [Child -> Seq(Int)] /\ pending' \in [Child -> Seq(Int)]
      BY ZenonT(60), <3>1, <3>3, <2>1, <1>7 DEF Drain
    <3>5. \A c \in Child : Len(out'[c]) <= PipeCap
      BY <3>1, <2>1, <1>7 DEF Drain
    <3>6. i' = i + 1
      BY <2>1, <1>7 DEF Drain
    <3>7. i' \in 0..digits
      BY <3>6, <2>1, JobAssumption
    <3> QED BY <3>4, <3>5, <3>7, <2>1, <1>7 DEF Drain, children
  <2>2. CASE ~(i < digits /\ i \in ready)
    <3>1. i' \in 0..digits /\ ready' \subseteq Child
      BY <2>2, <1>7, JobAssumption DEF Drain
    <3> QED BY <3>1, <2>2, <1>7 DEF Drain, children
  <2>3. ~(i < digits /\ i \in ready) \/ out[i] # <<>>
    BY <1>7 DEF Drain
  <2> QED BY <2>1, <2>2, <2>3
<1>8. CASE Kill
  <2>1. i' \in 0..digits
    BY <1>8, JobAssumption DEF Kill
  <2>2. cpc' \in [Child -> {"unborn", "read", "write", "killed"}]
    BY <1>0, <1>8 DEF Kill
  <2> QED BY <2>1, <2>2, <1>8 DEF Kill, pipes
<1>9. ASSUME NEW c \in Child, ChildRead(c) PROVE TypeOK'
  <2>1. Head(in[c]) + 1 \in Int /\ Tail(in[c]) \in Seq(Int) /\ Len(Tail(in[c])) <= PipeCap
    BY <1>9, QueueFacts, JobAssumption DEF ChildRead
  <2>2. in' \in [Child -> Seq(Int)] /\ \A d \in Child : Len(in'[d]) <= PipeCap
    BY <2>1, <1>9 DEF ChildRead
  <2>3. buffer' \in [Child -> Int] /\ cpc' \in [Child -> {"unborn", "read", "write", "killed"}]
    BY <2>1, <1>9 DEF ChildRead
  <2> QED BY <2>2, <2>3, <1>9 DEF ChildRead, parent
<1>10. ASSUME NEW c \in Child, ChildWrite(c) PROVE TypeOK'
  <2>1. Append(out[c], buffer[c]) \in Seq(Int)
        /\ Len(Append(out[c], buffer[c])) = Len(out[c]) + 1
    BY <1>10
  <2>2. out' \in [Child -> Seq(Int)] /\ \A d \in Child : Len(out'[d]) <= PipeCap
    BY <2>1, <1>10, JobAssumption DEF ChildWrite
  <2>3. cpc' \in [Child -> {"unborn", "read", "write", "killed"}]
    BY <1>10 DEF ChildWrite
  <2> QED BY <2>2, <2>3, <1>10 DEF ChildWrite, parent
<1> QED
  BY <1>1, <1>2, <1>3, <1>4, <1>5, <1>6, <1>7, <1>8, <1>9, <1>10 DEF Next, Parent, ChildStep

-----------------------------------------------------------------------------
\* A child moves its jobs along and changes their number at no step.
LEMMA ChildKeeps ==
  ASSUME TypeOK, NEW c \in Child, ChildStep(c)
  PROVE  \A d \in Child : InFlight(d)' = InFlight(d)
<1> SUFFICES ASSUME NEW d \in Child PROVE InFlight(d)' = InFlight(d)
  OBVIOUS
<1> USE DEF TypeOK
<1>1. Len(in[d]) \in Nat /\ Len(out[d]) \in Nat
  OBVIOUS
<1>2. CASE ChildRead(c)
  <2>1. CASE d = c
    <3>1. Len(Tail(in[c])) = Len(in[c]) - 1
      BY <1>2, QueueFacts DEF ChildRead
    <3> QED BY <3>1, <2>1, <1>1, <1>2 DEF ChildRead, InFlight, Held, Holding
  <2> QED BY <2>1, <1>2 DEF ChildRead, InFlight, Held, Holding
<1>3. CASE ChildWrite(c)
  <2>1. CASE d = c
    <3>1. Len(Append(out[c], buffer[c])) = Len(out[c]) + 1
      OBVIOUS
    <3> QED BY <3>1, <2>1, <1>1, <1>3 DEF ChildWrite, InFlight, Held, Holding
  <2> QED BY <2>1, <1>3 DEF ChildWrite, InFlight, Held, Holding
<1> QED BY <1>2, <1>3 DEF ChildStep

\* What leaves pipes and child alone leaves the jobs of the child alone.
LEMMA SameInFlight ==
  ASSUME NEW d \in Child, in'[d] = in[d], out'[d] = out[d], cpc'[d] = cpc[d]
  PROVE  InFlight(d)' = InFlight(d)
  BY DEF InFlight, Held, Holding

\* Arithmetic of the three places where a job can be.
LEMMA MoveOne ==
  \A a, b, c \in Int :
    /\ a + 1 + b + c = a + b + c + 1
    /\ a + b + (c - 1) = a + b + c - 1
    /\ a >= 0 /\ b >= 0 /\ c > 0 => a + b + c > 0
  OBVIOUS

\* A job written adds one to the jobs of its child.
LEMMA WriteAdds ==
  ASSUME TypeOK, WriteJob, NEW d \in Child
  PROVE  /\ d = send_to => InFlight(d)' = InFlight(d) + 1 /\ Len(pending'[d]) = Len(pending[d]) + 1
         /\ d # send_to => InFlight(d)' = InFlight(d) /\ pending'[d] = pending[d]
<1>1. cpc' = cpc /\ out' = out
  BY DEF WriteJob, children
<1>2. /\ in' = [in EXCEPT ![send_to] = Append(@, digits2)]
      /\ pending' = [pending EXCEPT ![send_to] = Append(@, digits2)]
  BY DEF WriteJob
<1>3. /\ in \in [Child -> Seq(Int)] /\ out \in [Child -> Seq(Int)] /\ pending \in [Child -> Seq(Int)]
      /\ send_to \in Child /\ digits2 \in Int
  BY DEF TypeOK
<1>4. CASE d = send_to
  <2>1. /\ Len(in'[d]) = Len(in[d]) + 1 /\ Len(in[d]) \in Nat /\ Len(out[d]) \in Nat
        /\ Len(pending'[d]) = Len(pending[d]) + 1
    BY <1>2, <1>3, <1>4
  <2>2. Held(d)' = Held(d) /\ Held(d) \in 0..1
    BY <1>1 DEF Held, Holding
  <2>3. InFlight(d)' = InFlight(d) + 1
    <3>1. InFlight(d)' = Len(in'[d]) + Held(d)' + Len(out'[d])
      BY DEF InFlight
    <3>2. InFlight(d) = Len(in[d]) + Held(d) + Len(out[d])
      BY DEF InFlight
    <3>3. InFlight(d)' = Len(in[d]) + 1 + Held(d) + Len(out[d])
      BY <1>1, <2>1, <2>2, <3>1
    <3>4. Len(in[d]) \in Int /\ Held(d) \in Int /\ Len(out[d]) \in Int
      BY <2>1, <2>2
    <3> QED BY <3>2, <3>3, <3>4, MoveOne
  <2> QED BY <2>1, <2>3, <1>4
<1>5. CASE d # send_to
  <2>1. in'[d] = in[d] /\ pending'[d] = pending[d]
    BY <1>2, <1>3, <1>5
  <2> QED BY <1>1, <1>5, <2>1, SameInFlight
<1> QED BY <1>4, <1>5

\* An answer read takes one from the jobs of its child.
LEMMA DrainTakes ==
  ASSUME TypeOK, PendingInv, Drain, NEW d \in Child
  PROVE  /\ d = i /\ d \in ready =>
              /\ InFlight(d)' = InFlight(d) - 1
              /\ Len(pending'[d]) = Len(pending[d]) - 1
              /\ i' = i + 1 /\ pc' = pc /\ ready' = ready
         /\ d # i \/ d \notin ready => InFlight(d)' = InFlight(d) /\ pending'[d] = pending[d]
<1>1. cpc' = cpc /\ in' = in /\ pc = "drain"
  BY DEF Drain, children
<1>2. in \in [Child -> Seq(Int)] /\ out \in [Child -> Seq(Int)] /\ pending \in [Child -> Seq(Int)]
  BY DEF TypeOK
<1>3. d < digits /\ d # digits
  BY JobAssumption DEF Child
<1>4. CASE d = i /\ d \in ready
  <2>1. /\ out[i] # <<>> /\ out' = [out EXCEPT ![i] = Tail(@)]
        /\ pending' = [pending EXCEPT ![i] = Tail(@)]
        /\ i' = i + 1 /\ pc' = pc /\ ready' = ready
    BY <1>3, <1>4 DEF Drain
  <2>2. Len(out'[d]) = Len(out[d]) - 1 /\ Len(in[d]) \in Nat /\ Len(out[d]) \in Nat \ {0}
    BY <1>2, <1>4, <2>1, QueueFacts
  <2>3. Held(d)' = Held(d) /\ Held(d) \in 0..1
    BY <1>1 DEF Held, Holding
  <2>4. InFlight(d)' = InFlight(d) - 1 /\ InFlight(d) > 0
    <3>1. InFlight(d)' = Len(in'[d]) + Held(d)' + Len(out'[d])
      BY DEF InFlight
    <3>2. InFlight(d) = Len(in[d]) + Held(d) + Len(out[d])
      BY DEF InFlight
    <3>3. InFlight(d)' = Len(in[d]) + Held(d) + (Len(out[d]) - 1)
      BY <1>1, <2>2, <2>3, <3>1
    <3>4. Len(in[d]) \in Nat /\ Held(d) \in Nat /\ Len(out[d]) \in Nat \ {0}
      BY <2>2, <2>3
    <3> QED BY <3>2, <3>3, <3>4, MoveOne
  <2>5. Len(pending[d]) = InFlight(d)
    BY <1>1 DEF PendingInv
  <2>6. pending[d] # <<>>
    BY <2>4, <2>5
  <2>7. Len(pending'[d]) = Len(pending[d]) - 1
    BY <1>2, <1>4, <2>1, <2>6, QueueFacts
  <2> QED BY <2>1, <2>4, <2>7, <1>4
<1>5. CASE d # i \/ d \notin ready
  <2>1. out'[d] = out[d] /\ pending'[d] = pending[d]
    BY <1>2, <1>5 DEF Drain
  <2> QED BY <2>1, <1>1, <1>5, SameInFlight
<1> QED BY <1>4, <1>5

-----------------------------------------------------------------------------
\* The invariant is inductive.
LEMMA InvInit == Init => IInv
<1> SUFFICES ASSUME Init PROVE IInv
  OBVIOUS
<1>1. TypeOK
  BY TypeInit
<1>2. \A c \in Child : InFlight(c) = 0 /\ Len(pending[c]) = 0 /\ cpc[c] # "killed"
  BY DEF Init, InFlight, Held, Holding
<1> QED BY <1>1, <1>2, JobAssumption DEF IInv, ForkInv, TurnInv, PendingInv, InFlightBound, Init

LEMMA InFlightType ==
  ASSUME TypeOK PROVE \A c \in Child : InFlight(c) \in Nat
  BY DEF TypeOK, InFlight, Held

\* A step that leaves the jobs of every child where they are, and the parent too.
LEMMA SameInv ==
  ASSUME IInv, UNCHANGED <<pc, i, ready, pending, cpc, in, out>>
  PROVE  TurnInv' /\ PendingInv' /\ InFlightBound' /\ ForkInv'
<1>1. \A c \in Child : InFlight(c)' = InFlight(c)
  BY SameInFlight
<1> QED BY <1>1 DEF IInv, ForkInv, TurnInv, PendingInv, InFlightBound

LEMMA InvNext == IInv /\ [Next]_vars => IInv'
<1> SUFFICES ASSUME IInv, [Next]_vars PROVE TurnInv' /\ PendingInv' /\ InFlightBound' /\ ForkInv'
  BY TypeNext DEF IInv
<1>0. TypeOK /\ \A c \in Child : InFlight(c) \in Nat
  BY InFlightType DEF IInv
<1>t. ForkInv /\ TurnInv /\ PendingInv /\ InFlightBound
  BY DEF IInv
<1>1. CASE UNCHANGED vars
  BY <1>1, SameInv DEF vars, parent, children, pipes
<1>2. CASE Type
  BY <1>2, SameInv DEF Type, parent, children, pipes
<1>3. CASE Fork
  <2>1. /\ in' = in /\ out' = out /\ ready' = ready /\ pending' = pending /\ pc = "fork"
        /\ pc' \in {"fork", "select", "exited"}
    BY <1>3 DEF Fork, pipes
  <2>0. /\ cpc \in [Child -> {"unborn", "read", "write", "killed"}] /\ i \in Int
        /\ \A c \in Child : c \in Int
        /\ \A c \in Child : c >= i => cpc[c] = "unborn"
    BY <1>0, <1>t, <2>1, JobAssumption DEF TypeOK, ForkInv, Child
  <2>2. \A c \in Child : cpc'[c] = cpc[c] \/ (cpc[c] = "unborn" /\ cpc'[c] = "read")
    <3>1. CASE cpc' = cpc
      BY <3>1
    <3>2. CASE cpc' = [cpc EXCEPT ![i] = "read"]
      BY <2>0, <3>2
    <3> QED BY <1>3, <3>1, <3>2 DEF Fork
  <2>3. \A c \in Child : InFlight(c)' = InFlight(c)
    BY <2>1, <2>2 DEF InFlight, Held, Holding
  <2>4. ForkInv'
    <3>1. CASE pc' # "fork"
      BY <3>1 DEF ForkInv
    <3>2. CASE pc' = "fork"
      <4>1. cpc' = [cpc EXCEPT ![i] = "read"] /\ i' = i + 1
        BY <1>3, <2>1, <3>2 DEF Fork
      <4>2. \A c \in Child : c >= i' => cpc'[c] = "unborn"
        BY <2>0, <4>1
      <4> QED BY <4>2 DEF ForkInv
    <3> QED BY <3>1, <3>2
  <2>5. PendingInv'
    BY <1>t, <2>1, <2>2, <2>3 DEF PendingInv
  <2> QED BY <1>t, <2>1, <2>3, <2>4, <2>5 DEF TurnInv, InFlightBound
<1>4. CASE Select
  <2>1. /\ pc = "select" /\ pc' \in {"stdin", "drain"} /\ i' = 0 /\ ready' = Readable
        /\ UNCHANGED <<cpc, in, out, pending>>
    BY <1>4 DEF Select, children, pipes
  <2>2. \A c \in Child : InFlight(c)' = InFlight(c)
    BY <2>1, SameInFlight
  <2>3. ASSUME NEW c \in Child, c \notin ready' PROVE InFlight(c) <= PipeCap + 1
    <3>1. out[c] = <<>> /\ Len(out[c]) = 0
      BY <2>1, <2>3 DEF Readable
    <3>2. Len(in[c]) \in Nat /\ Len(in[c]) <= PipeCap
      BY <1>0 DEF TypeOK
    <3>3. Held(c) \in 0..1
      BY DEF Held
    <3> QED BY <3>1, <3>2, <3>3, JobAssumption DEF InFlight
  <2>4. TurnInv' /\ ForkInv' /\ PendingInv'
    BY <1>t, <2>1, <2>2 DEF TurnInv, ForkInv, PendingInv
  <2>5. \A c \in Child : c >= 0
    BY DEF Child
  <2>6. \A c \in Child : InFlight(c) <= PipeCap + 2
    BY <1>t, <2>1 DEF InFlightBound
  <2>7. InFlightBound'
    <3> SUFFICES ASSUME NEW c \in Child
                 PROVE  /\ InFlight(c) <= PipeCap + 2 /\ InFlight(c) <= PipeCap + 3
                        /\ c \notin ready' => InFlight(c) <= PipeCap + 1
                        /\ c \notin ready' \/ c < i' => InFlight(c) <= PipeCap + 2
      BY <2>1, <2>2 DEF InFlightBound
    <3> QED BY <1>0, <2>1, <2>3, <2>6, JobAssumption
  <2> QED BY <2>4, <2>7
<1>5. CASE ReadStdin
  <2>1. /\ pc = "stdin" /\ pc' \in {"select", "kill", "write"} /\ i' = i
        /\ pc' = "write" => ready' = ready
        /\ UNCHANGED <<cpc, in, out, pending>>
    BY <1>5 DEF ReadStdin, children, pipes
  <2>2. \A c \in Child : InFlight(c)' = InFlight(c)
    BY <2>1, SameInFlight
  <2> QED BY <1>t, <2>1, <2>2 DEF TurnInv, ForkInv, PendingInv, InFlightBound
<1>6. CASE WriteJob
  <2>1. pc = "write" /\ pc' = "drain" /\ i' = i /\ ready' = ready /\ cpc' = cpc /\ i = 0
    BY <1>6, <1>t DEF WriteJob, children, TurnInv
  <2>2. ASSUME NEW c \in Child
        PROVE  /\ InFlight(c)' = InFlight(c) \/ InFlight(c)' = InFlight(c) + 1
               /\ Len(pending'[c]) = InFlight(c)'
    <3>1. Len(pending[c]) = InFlight(c)
      BY <1>t, <2>1 DEF PendingInv
    <3> QED BY <1>0, <1>6, <3>1, WriteAdds
  <2>3. TurnInv' /\ ForkInv' /\ PendingInv'
    BY <1>t, <2>1, <2>2 DEF TurnInv, ForkInv, PendingInv
  <2>4. ASSUME NEW c \in Child
        PROVE  /\ InFlight(c)' <= PipeCap + 3
               /\ c \notin ready \/ c < i => InFlight(c)' <= PipeCap + 2
    <3>1. InFlight(c) <= PipeCap + 2 /\ (c \notin ready => InFlight(c) <= PipeCap + 1)
      BY <1>t, <2>1 DEF InFlightBound
    <3>2. ~ (c < i)
      BY <2>1 DEF Child
    <3> QED BY <1>0, <2>2, <3>1, <3>2, JobAssumption
  <2>5. InFlightBound'
    BY <2>1, <2>4 DEF InFlightBound
  <2> QED BY <2>3, <2>5
<1>7. CASE Drain
  <2>1. pc = "drain" /\ pc' \in {"drain", "select"} /\ cpc' = cpc
    BY <1>7 DEF Drain, children
  <2>2. ASSUME NEW c \in Child PROVE Len(pending'[c]) = InFlight(c)' /\ cpc'[c] # "killed"
    <3>1. Len(pending[c]) = InFlight(c) /\ cpc[c] # "killed"
      BY <1>t, <2>1 DEF PendingInv
    <3> QED BY <1>0, <1>t, <1>7, <2>1, <3>1, DrainTakes
  <2>3. TurnInv' /\ ForkInv' /\ PendingInv'
    BY <2>1, <2>2 DEF TurnInv, ForkInv, PendingInv
  <2>4. ASSUME NEW c \in Child
        PROVE  /\ InFlight(c)' <= PipeCap + 3
               /\ pc' = "select" => InFlight(c)' <= PipeCap + 2
               /\ pc' = "drain" /\ (c \notin ready' \/ c < i') => InFlight(c)' <= PipeCap + 2
    <3>1. /\ InFlight(c) <= PipeCap + 3
          /\ c \notin ready \/ c < i => InFlight(c) <= PipeCap + 2
      BY <1>t, <2>1 DEF InFlightBound
    <3>2. CASE c = i /\ c \in ready
      <4>1. InFlight(c)' = InFlight(c) - 1
        BY <1>0, <1>t, <1>7, <3>2, DrainTakes
      <4> QED BY <1>0, <3>1, <4>1, JobAssumption
    <3>3. CASE c # i \/ c \notin ready
      <4>1. InFlight(c)' = InFlight(c)
        BY <1>0, <1>t, <1>7, <3>3, DrainTakes
      <4>2. c \in Int /\ c < digits /\ i \in Int
        BY <1>0, JobAssumption DEF Child, TypeOK
      <4>3. pc' = "select" => i = digits
        BY <1>7, <2>1 DEF Drain
      <4>4. pc' = "drain" => i' = i + 1 /\ ready' = ready
        BY <1>7, <2>1 DEF Drain
      <4>5. pc' = "drain" /\ (c \notin ready' \/ c < i') => c \notin ready \/ c < i
        BY <3>3, <4>2, <4>4
      <4>6. pc' = "select" => c < i
        BY <4>2, <4>3
      <4> QED BY <3>1, <4>1, <4>5, <4>6
    <3> QED BY <3>2, <3>3
  <2>5. InFlightBound'
    BY <2>1, <2>4 DEF InFlightBound
  <2> QED BY <2>3, <2>5
<1>8. CASE Kill
  BY <1>8, <1>t DEF Kill, ForkInv, TurnInv, PendingInv, InFlightBound
<1>9. ASSUME NEW c \in Child, ChildStep(c) PROVE TurnInv' /\ PendingInv' /\ InFlightBound' /\ ForkInv'
  <2>1. \A d \in Child : InFlight(d)' = InFlight(d)
    BY <1>0, <1>9, ChildKeeps
  <2>2. UNCHANGED <<pc, i, ready, pending>>
    BY <1>9 DEF ChildStep, ChildRead, ChildWrite, parent
  <2>3. \A d \in Child : /\ cpc'[d] # "killed" \/ cpc[d] = "killed"
                         /\ cpc[d] = "unborn" => cpc'[d] = "unborn"
    BY <1>0, <1>9 DEF ChildStep, ChildRead, ChildWrite, TypeOK
  <2> QED BY <1>t, <2>1, <2>2, <2>3 DEF ForkInv, TurnInv, PendingInv, InFlightBound
<1> QED
  BY <1>1, <1>2, <1>3, <1>4, <1>5, <1>6, <1>7, <1>8, <1>9 DEF Next, Parent

LEMMA InvCorrect == Spec => []IInv
  BY InvInit, InvNext, PTL DEF Spec

-----------------------------------------------------------------------------
\* The job server keeps every variable in its type, and no pipe holds more than
\* fits into it.
THEOREM TypeCorrect == Spec => []TypeOK
<1>1. IInv => TypeOK
  BY DEF IInv
<1> QED BY <1>1, InvCorrect, PTL

\* Parent and child never wait for each other's pipe: both pipes full and a job
\* in the child's hands would be 2 * PipeCap + 1 jobs, and no child ever has more
\* than PipeCap + 2 when the parent writes to it.
THEOREM NoDeadlockCorrect == Spec => []NoDeadlock
<1>1. IInv => NoDeadlock
  <2> SUFFICES ASSUME IInv, pc = "write", Len(in[send_to]) = PipeCap,
                      cpc[send_to] = "write", Len(out[send_to]) = PipeCap
               PROVE  FALSE
    BY DEF NoDeadlock
  <2>1. send_to \in Child
    BY DEF IInv, TypeOK
  <2>2. InFlight(send_to) <= PipeCap + 2
    BY <2>1 DEF IInv, InFlightBound
  <2>3. InFlight(send_to) = PipeCap + 1 + PipeCap
    BY DEF InFlight, Held, Holding
  <2> QED BY <2>2, <2>3, JobAssumption
<1> QED BY <1>1, InvCorrect, PTL
-----------------------------------------------------------------------------
(* The answers come in the order of the jobs *)

\* The jobs p lie, in this order, as answers in the pipe o back, as answer b in
\* the child's hands if h is 1, and as they are in the pipe q to the child.
Order(p, o, h, b, q) ==
  /\ Len(p) = Len(o) + h + Len(q)
  /\ \A k \in 1..Len(o) : o[k] = p[k] + 1
  /\ h = 1 => b = p[Len(o) + 1] + 1
  /\ \A k \in 1..Len(q) : q[k] = p[Len(o) + h + k]

\* Where place k of the pipe to the child lies among the jobs.
LEMMA Places ==
  ASSUME NEW a \in Nat, NEW h \in 0..1, NEW l \in Nat, NEW n \in Int, n = a + h + l
  PROVE  /\ n \in Nat
         /\ a + h + (l + 1) = n + 1
         /\ \A k \in 1..l : a + h + k \in 1..n
         /\ \A k \in 1..(l + 1) : k = l + 1 \/ k \in 1..l
         /\ \A k \in 1..(a + 1) : k = a + 1 \/ k \in 1..a
         /\ \A k \in 1..a : k \in 1..n
         /\ a # 0 => /\ n # 0 /\ n - 1 = (a - 1) + h + l
                     /\ \A k \in 1..(a - 1) : k + 1 \in 1..a /\ k \in 1..(n - 1)
                     /\ (a - 1) + 1 = a /\ (h = 1 => a \in 1..(n - 1))
                     /\ \A k \in 1..l : /\ (a - 1) + h + k \in 1..(n - 1)
                                         /\ (a - 1) + h + k + 1 = a + h + k
  OBVIOUS

LEMMA LastPlace ==
  ASSUME NEW a \in Nat, NEW k \in 1..(a + 1) PROVE k = a + 1 \/ k \in 1..a
  OBVIOUS

\* A job is written.
LEMMA OrderSend ==
  ASSUME NEW p \in Seq(Int), NEW o \in Seq(Int), NEW q \in Seq(Int),
         NEW h \in 0..1, NEW b \in Int, NEW x \in Int, Order(p, o, h, b, q)
  PROVE  Order(Append(p, x), o, h, b, Append(q, x))
<1>1. /\ Len(p) = Len(o) + h + Len(q) /\ Len(o) \in Nat /\ Len(q) \in Nat /\ Len(p) \in Nat
      /\ Len(Append(p, x)) = Len(p) + 1 /\ Len(Append(q, x)) = Len(q) + 1
  BY DEF Order
<1>2. \A k \in 1..Len(p) : Append(p, x)[k] = p[k]
  OBVIOUS
<1>3. Append(p, x)[Len(p) + 1] = x /\ Append(q, x)[Len(q) + 1] = x
  OBVIOUS
<1>4. \A k \in 1..Len(q) : Append(q, x)[k] = q[k]
  OBVIOUS
<1>5. \A k \in 1..Len(o) : o[k] = Append(p, x)[k] + 1
  BY <1>1, <1>2 DEF Order
<1>6. h = 1 => b = Append(p, x)[Len(o) + 1] + 1
  BY <1>1, <1>2 DEF Order
<1>7. ASSUME NEW k \in 1..Len(Append(q, x))
      PROVE  Append(q, x)[k] = Append(p, x)[Len(o) + h + k]
  <2>1. CASE k = Len(q) + 1
    <3>1. Len(o) + h + k = Len(p) + 1
      BY <1>1, <2>1, Places
    <3> QED BY <1>3, <2>1, <3>1
  <2>2. CASE k \in 1..Len(q)
    <3>1. Len(o) + h + k \in 1..Len(p)
      BY <1>1, <2>2, Places
    <3>2. q[k] = p[Len(o) + h + k]
      BY <2>2 DEF Order
    <3> QED BY <1>2, <1>4, <2>2, <3>1, <3>2
  <2>3. k = Len(q) + 1 \/ k \in 1..Len(q)
    BY <1>1, Places
  <2> QED BY <2>1, <2>2, <2>3
<1>8. Len(Append(p, x)) = Len(o) + h + Len(Append(q, x))
  BY <1>1, Places
<1> QED BY <1>5, <1>6, <1>7, <1>8 DEF Order

\* The child takes a job out of its pipe and adds one.
LEMMA OrderRead ==
  ASSUME NEW p \in Seq(Int), NEW o \in Seq(Int), NEW q \in Seq(Int),
         NEW b \in Int, q # <<>>, Order(p, o, 0, b, q)
  PROVE  Order(p, o, 1, Head(q) + 1, Tail(q))
<1>1. /\ Len(p) = Len(o) + 0 + Len(q) /\ Len(o) \in Nat /\ Len(q) \in Nat \ {0}
      /\ Len(Tail(q)) = Len(q) - 1
  BY QueueFacts DEF Order
<1>2. \A k \in 1..Len(Tail(q)) : Tail(q)[k] = q[k + 1]
  OBVIOUS
<1>3. Head(q) = p[Len(o) + 1]
  <2>1. 1 \in 1..Len(q)
    BY <1>1
  <2>2. q[1] = p[Len(o) + 0 + 1]
    BY <2>1 DEF Order
  <2>3. Len(o) + 0 + 1 = Len(o) + 1
    BY <1>1
  <2>4. Head(q) = q[1]
    OBVIOUS
  <2> QED BY <2>2, <2>3, <2>4
<1>4. ASSUME NEW k \in 1..Len(Tail(q)) PROVE Tail(q)[k] = p[Len(o) + 1 + k]
  <2>1. k + 1 \in 1..Len(q)
    BY <1>1
  <2>2. q[k + 1] = p[Len(o) + 0 + (k + 1)]
    BY <2>1 DEF Order
  <2>3. Len(o) + 0 + (k + 1) = Len(o) + 1 + k
    BY <1>1
  <2> QED BY <1>2, <2>2, <2>3
<1>5. Len(p) = Len(o) + 1 + Len(Tail(q))
  BY <1>1
<1> QED BY <1>3, <1>4, <1>5 DEF Order

\* The child writes its answer.
LEMMA OrderWrite ==
  ASSUME NEW p \in Seq(Int), NEW o \in Seq(Int), NEW q \in Seq(Int),
         NEW b \in Int, Order(p, o, 1, b, q)
  PROVE  Order(p, Append(o, b), 0, b, q)
<1>1. /\ Len(p) = Len(o) + 1 + Len(q) /\ Len(o) \in Nat /\ Len(q) \in Nat
      /\ Len(Append(o, b)) = Len(o) + 1
  BY DEF Order
<1>2. \A k \in 1..Len(Append(o, b)) : Append(o, b)[k] = p[k] + 1
  <2> SUFFICES ASSUME NEW k \in 1..Len(Append(o, b)) PROVE Append(o, b)[k] = p[k] + 1
    OBVIOUS
  <2>1. CASE k = Len(o) + 1
    BY <2>1 DEF Order
  <2>2. CASE k \in 1..Len(o)
    BY <2>2 DEF Order
  <2>3. k = Len(o) + 1 \/ k \in 1..Len(o)
    BY <1>1, LastPlace
  <2> QED BY <2>1, <2>2, <2>3
<1>3. \A k \in 1..Len(q) : q[k] = p[Len(Append(o, b)) + 0 + k]
  BY <1>1 DEF Order
<1>4. Len(p) = Len(Append(o, b)) + 0 + Len(q)
  BY <1>1
<1> QED BY <1>2, <1>3, <1>4 DEF Order

\* The parent reads an answer.
LEMMA OrderDrain ==
  ASSUME NEW p \in Seq(Int), NEW o \in Seq(Int), NEW q \in Seq(Int),
         NEW h \in 0..1, NEW b \in Int, o # <<>>, Order(p, o, h, b, q)
  PROVE  Order(Tail(p), Tail(o), h, b, q)
<1>1. /\ Len(p) = Len(o) + h + Len(q) /\ Len(o) \in Nat \ {0} /\ Len(q) \in Nat
      /\ Len(Tail(o)) = Len(o) - 1
  BY QueueFacts DEF Order
<1>2. p # <<>> /\ Len(p) \in Nat
  BY <1>1
<1>3. Len(Tail(p)) = Len(p) - 1
  BY <1>2, QueueFacts
<1>4. /\ \A k \in 1..Len(Tail(p)) : Tail(p)[k] = p[k + 1]
      /\ \A k \in 1..Len(Tail(o)) : Tail(o)[k] = o[k + 1]
  BY <1>2
<1>5. ASSUME NEW k \in 1..Len(Tail(o)) PROVE Tail(o)[k] = Tail(p)[k] + 1
  <2>1. k + 1 \in 1..Len(o) /\ k \in 1..Len(Tail(p))
    BY <1>1, <1>2, <1>3, Places
  <2>2. o[k + 1] = p[k + 1] + 1
    BY <2>1 DEF Order
  <2> QED BY <1>4, <2>1, <2>2
<1>6. h = 1 => b = Tail(p)[Len(Tail(o)) + 1] + 1
  <2> SUFFICES ASSUME h = 1 PROVE b = Tail(p)[Len(Tail(o)) + 1] + 1
    OBVIOUS
  <2>1. b = p[Len(o) + 1] + 1
    BY DEF Order
  <2>2. Len(Tail(o)) + 1 = Len(o) /\ Len(o) \in 1..Len(Tail(p))
    BY SMTT(30), <1>1, <1>3
  <2> QED BY <1>4, <2>1, <2>2
<1>7. ASSUME NEW k \in 1..Len(q) PROVE q[k] = Tail(p)[Len(Tail(o)) + h + k]
  <2>1. q[k] = p[Len(o) + h + k]
    BY DEF Order
  <2>2. (Len(o) - 1) + h + k \in 1..(Len(p) - 1) /\ (Len(o) - 1) + h + k + 1 = Len(o) + h + k
    BY <1>1, <1>2, Places
  <2>3. Len(Tail(o)) + h + k \in 1..Len(Tail(p)) /\ Len(Tail(o)) + h + k + 1 = Len(o) + h + k
    BY <1>1, <1>3, <2>2
  <2> QED BY <1>4, <2>1, <2>3
<1>8. Len(Tail(p)) = Len(Tail(o)) + h + Len(q)
  BY <1>1, <1>3
<1> QED BY <1>5, <1>6, <1>7, <1>8 DEF Order

\* The answers to a sequence of jobs are a sequence as long.
LEMMA AnswerFacts ==
  ASSUME NEW s \in Seq(Int)
  PROVE  /\ Answer(s) \in Seq(Int) /\ Len(Answer(s)) = Len(s)
         /\ \A k \in 1..Len(s) : Answer(s)[k] = s[k] + 1
<1>1. Len(s) \in Nat /\ \A k \in 1..Len(s) : s[k] \in Int
  OBVIOUS
<1>2. Answer(s) \in [1..Len(s) -> Int]
  BY <1>1 DEF Answer
<1>3. Answer(s) \in Seq(Int)
  BY <1>1, <1>2, IsASeq
<1>4. Len(Answer(s)) = Len(s)
  BY <1>1, <1>2, <1>3, LenProperties
<1> QED BY <1>3, <1>4 DEF Answer

\* The elements of a concatenation.
LEMMA Concatenated ==
  ASSUME NEW s \in Seq(Int), NEW t \in Seq(Int)
  PROVE  /\ s \o t \in Seq(Int) /\ Len(s \o t) = Len(s) + Len(t)
         /\ \A k \in 1..(Len(s) + Len(t)) :
              (s \o t)[k] = IF k <= Len(s) THEN s[k] ELSE t[k - Len(s)]
  BY ConcatProperties

\* What AnswersInOrder says is what Order says.
LEMMA OrderMeans ==
  ASSUME NEW p \in Seq(Int), NEW o \in Seq(Int), NEW q \in Seq(Int),
         NEW h \in 0..1, NEW b \in Int, Order(p, o, h, b, q)
  PROVE  Answer(p) = o \o (IF h = 1 THEN <<b>> ELSE <<>>) \o Answer(q)
<1> DEFINE m == IF h = 1 THEN <<b>> ELSE <<>>
           u == o \o m
           w == Answer(q)
           r == u \o w
<1>1. /\ Len(p) = Len(o) + h + Len(q) /\ Len(o) \in Nat /\ Len(q) \in Nat /\ Len(p) \in Nat
  BY DEF Order
<1>2. /\ Answer(p) \in Seq(Int) /\ Len(Answer(p)) = Len(p)
      /\ \A k \in 1..Len(p) : Answer(p)[k] = p[k] + 1
  BY AnswerFacts
<1>3. /\ Answer(q) \in Seq(Int) /\ Len(Answer(q)) = Len(q)
      /\ \A k \in 1..Len(q) : Answer(q)[k] = q[k] + 1
  BY AnswerFacts
<1>4. m \in Seq(Int) /\ Len(m) = h /\ (h = 1 => m[1] = b)
  OBVIOUS
<1> HIDE DEF m
<1>5. /\ u \in Seq(Int) /\ Len(u) = Len(o) + h
      /\ \A k \in 1..(Len(o) + h) : u[k] = IF k <= Len(o) THEN o[k] ELSE m[k - Len(o)]
  BY <1>4, ConcatProperties
<1> HIDE DEF u, w
<1>6. /\ r \in Seq(Int) /\ Len(r) = Len(p)
      /\ \A k \in 1..Len(p) : r[k] = IF k <= Len(o) + h THEN u[k]
                                     ELSE w[k - (Len(o) + h)]
  <2>1. w \in Seq(Int) /\ Len(w) = Len(q)
    BY <1>3 DEF w
  <2>2. /\ r \in Seq(Int) /\ Len(r) = Len(u) + Len(w)
        /\ \A k \in 1..(Len(u) + Len(w)) : r[k] = IF k <= Len(u) THEN u[k] ELSE w[k - Len(u)]
    BY <1>5, <2>1, Concatenated
  <2>3. Len(u) + Len(w) = Len(p)
    BY <1>1, <1>5, <2>1
  <2> QED BY <1>5, <2>2, <2>3
<1> HIDE DEF r
<1>7. ASSUME NEW k \in 1..Len(p) PROVE Answer(p)[k] = r[k]
  <2>1. CASE k <= Len(o)
    <3>1. k \in 1..Len(o) /\ k \in 1..(Len(o) + h) /\ k <= Len(o) + h
      BY <1>1, <2>1
    <3> QED BY <1>2, <1>5, <1>6, <2>1, <3>1 DEF Order
  <2>2. CASE ~(k <= Len(o)) /\ k <= Len(o) + h
    <3>1. h = 1 /\ k = Len(o) + 1 /\ k - Len(o) = 1 /\ k \in 1..(Len(o) + h)
      BY SMTT(30), <1>1, <2>2
    <3>2. r[k] = m[1]
      BY <1>5, <1>6, <2>2, <3>1
    <3>3. p[k] + 1 = b
      BY <3>1 DEF Order
    <3> QED BY <1>2, <1>4, <3>1, <3>2, <3>3
  <2>3. CASE ~(k <= Len(o) + h)
    <3> DEFINE j == k - (Len(o) + h)
    <3>1. j \in 1..Len(q) /\ Len(o) + h + j = k
      BY <1>1, <2>3
    <3>2. r[k] = q[j] + 1
      BY <1>3, <1>6, <2>3, <3>1 DEF w
    <3>3. q[j] = p[k]
      BY <3>1 DEF Order
    <3> QED BY <1>2, <3>2, <3>3
  <2> QED BY <1>1, <2>1, <2>2, <2>3
<1>8. Answer(p) = r
  BY <1>2, <1>6, <1>7, SeqEqual
<1> QED BY <1>8 DEF r, u, w, m

\* The order of the jobs of a child, while it lives.
OrderInv ==
  \A c \in Child :
    cpc[c] # "killed" => Order(pending[c], out[c], Held(c), buffer[c], in[c])

\* Every step moves at most one job by one place.
LEMMA OrderNext == IInv /\ OrderInv /\ [Next]_vars => OrderInv'
<1> SUFFICES ASSUME IInv, OrderInv, [Next]_vars, NEW c \in Child, cpc'[c] # "killed"
             PROVE  Order(pending'[c], out'[c], Held(c)', buffer'[c], in'[c])
  BY DEF OrderInv
<1>t. /\ pending \in [Child -> Seq(Int)] /\ out \in [Child -> Seq(Int)] /\ in \in [Child -> Seq(Int)]
      /\ buffer \in [Child -> Int] /\ cpc \in [Child -> {"unborn", "read", "write", "killed"}]
      /\ send_to \in Child /\ digits2 \in Int
  BY DEF IInv, TypeOK
<1>h. Held(c) \in 0..1
  BY DEF Held
<1>s. ASSUME pending'[c] = pending[c], out'[c] = out[c], in'[c] = in[c], buffer'[c] = buffer[c],
             cpc[c] # "killed", Holding(c)' <=> Holding(c)
      PROVE  Order(pending'[c], out'[c], Held(c)', buffer'[c], in'[c])
  <2>1. Held(c)' = Held(c)
    BY <1>s DEF Held
  <2> QED BY <1>s, <2>1 DEF OrderInv
<1>1. CASE UNCHANGED vars
  BY <1>1, <1>s DEF vars, parent, children, pipes, Holding
<1>2. CASE Type \/ Select \/ ReadStdin
  BY <1>2, <1>s DEF Type, Select, ReadStdin, children, pipes, Holding
<1>3. CASE Fork
  <2>1. cpc[c] # "killed" /\ (Holding(c)' <=> Holding(c))
    <3>1. CASE cpc' = cpc
      BY <3>1 DEF Holding
    <3>2. CASE pc = "fork" /\ cpc' = [cpc EXCEPT ![i] = "read"]
      <4>1. i = c => cpc[c] = "unborn"
        BY <3>2, JobAssumption DEF IInv, ForkInv, Child
      <4> QED BY <1>t, <3>2, <4>1 DEF Holding
    <3> QED BY <1>3, <3>1, <3>2 DEF Fork
  <2> QED BY <1>3, <1>s, <2>1 DEF Fork, pipes
<1>4. CASE Kill
  <2>1. cpc'[c] = cpc[c]
    BY <1>4, <1>t DEF Kill
  <2> QED BY <1>4, <1>s, <2>1 DEF Kill, pipes, Holding
<1>5. CASE WriteJob
  <2>0. cpc' = cpc /\ out' = out /\ buffer' = buffer
    BY <1>5 DEF WriteJob, children
  <2>1. CASE c = send_to
    <3>1. in'[c] = Append(in[c], digits2) /\ pending'[c] = Append(pending[c], digits2)
      BY <1>5, <1>t, <2>1 DEF WriteJob
    <3>2. Order(pending[c], out[c], Held(c), buffer[c], in[c]) /\ Held(c)' = Held(c)
      BY <2>0 DEF OrderInv, Held, Holding
    <3> QED BY <1>t, <1>h, <2>0, <3>1, <3>2, OrderSend
  <2>2. CASE c # send_to
    BY <1>5, <1>s, <1>t, <2>0, <2>2 DEF WriteJob, Holding
  <2> QED BY <2>1, <2>2
<1>6. CASE Drain
  <2>0. cpc' = cpc /\ in' = in /\ buffer' = buffer
    BY <1>6 DEF Drain, children
  <2>1. CASE out' = [out EXCEPT ![i] = Tail(@)] /\ pending' = [pending EXCEPT ![i] = Tail(@)] /\ out[i] # <<>>
    <3>1. CASE c = i
      <4>1. out'[c] = Tail(out[c]) /\ pending'[c] = Tail(pending[c])
        BY <1>t, <2>1, <3>1
      <4>2. Order(pending[c], out[c], Held(c), buffer[c], in[c]) /\ Held(c)' = Held(c)
        BY <2>0 DEF OrderInv, Held, Holding
      <4> QED BY <1>t, <1>h, <2>0, <2>1, <3>1, <4>1, <4>2, OrderDrain
    <3>2. CASE c # i
      BY <1>s, <1>t, <2>0, <2>1, <3>2 DEF Holding
    <3> QED BY <3>1, <3>2
  <2>2. CASE out' = out /\ pending' = pending
    BY <1>s, <2>0, <2>2 DEF Holding
  <2> QED BY <1>6, <2>1, <2>2 DEF Drain
<1>7. ASSUME NEW d \in Child, ChildRead(d)
      PROVE  Order(pending'[c], out'[c], Held(c)', buffer'[c], in'[c])
  <2>0. out' = out /\ pending' = pending
    BY <1>7 DEF ChildRead
  <2>1. CASE c = d
    <3>1. /\ cpc[c] = "read" /\ cpc'[c] = "write" /\ in[c] # <<>>
          /\ buffer'[c] = Head(in[c]) + 1 /\ in'[c] = Tail(in[c])
      BY <1>7, <1>t, <2>1 DEF ChildRead
    <3>2. Held(c) = 0 /\ Held(c)' = 1
      BY <3>1 DEF Held, Holding
    <3>3. Order(pending[c], out[c], 0, buffer[c], in[c])
      BY <3>1, <3>2 DEF OrderInv
    <3> QED BY <1>t, <2>0, <3>1, <3>2, <3>3, OrderRead
  <2>2. CASE c # d
    BY <1>7, <1>s, <1>t, <2>0, <2>2 DEF ChildRead, Holding
  <2> QED BY <2>1, <2>2
<1>8. ASSUME NEW d \in Child, ChildWrite(d)
      PROVE  Order(pending'[c], out'[c], Held(c)', buffer'[c], in'[c])
  <2>0. in' = in /\ pending' = pending /\ buffer' = buffer
    BY <1>8 DEF ChildWrite
  <2>1. CASE c = d
    <3>1. cpc[c] = "write" /\ cpc'[c] = "read" /\ out'[c] = Append(out[c], buffer[c])
      BY <1>8, <1>t, <2>1 DEF ChildWrite
    <3>2. Held(c) = 1 /\ Held(c)' = 0
      BY <3>1 DEF Held, Holding
    <3>3. Order(pending[c], out[c], 1, buffer[c], in[c])
      BY <3>1, <3>2 DEF OrderInv
    <3> QED BY <1>t, <2>0, <3>1, <3>2, <3>3, OrderWrite
  <2>2. CASE c # d
    BY <1>8, <1>s, <1>t, <2>0, <2>2 DEF ChildWrite, Holding
  <2> QED BY <2>1, <2>2
<1> QED BY <1>1, <1>2, <1>3, <1>4, <1>5, <1>6, <1>7, <1>8 DEF Next, Parent, ChildStep

\* The answers of a child are those to its jobs, in their order, none lost and
\* none twice, for any number of children and lines and any size of the pipes.
THEOREM AnswersCorrect == Spec => []AnswersInOrder
<1>1. Init => OrderInv
  BY DEF Init, OrderInv, Order, Held, Holding
<1>2. IInv /\ OrderInv => AnswersInOrder
  <2> SUFFICES ASSUME IInv, OrderInv, NEW c \in Child, cpc[c] # "killed"
               PROVE  Answer(pending[c]) =
                        out[c] \o (IF Holding(c) THEN <<buffer[c]>> ELSE <<>>) \o Answer(in[c])
    BY DEF AnswersInOrder
  <2>1. /\ pending[c] \in Seq(Int) /\ out[c] \in Seq(Int) /\ in[c] \in Seq(Int)
        /\ buffer[c] \in Int /\ Held(c) \in 0..1
    BY DEF IInv, TypeOK, Held
  <2>2. Order(pending[c], out[c], Held(c), buffer[c], in[c])
    BY DEF OrderInv
  <2>3. Held(c) = 1 <=> Holding(c)
    BY DEF Held
  <2>4. PICK p \in Seq(Int), o \in Seq(Int), q \in Seq(Int), h \in 0..1, b \in Int :
          p = pending[c] /\ o = out[c] /\ q = in[c] /\ h = Held(c) /\ b = buffer[c]
    BY <2>1
  <2>5. Order(p, o, h, b, q)
    BY <2>2, <2>4
  <2>6. Answer(p) = o \o (IF h = 1 THEN <<b>> ELSE <<>>) \o Answer(q)
    BY SMTT(30), <2>5, OrderMeans
  <2> QED BY <2>3, <2>4, <2>6
<1> QED BY <1>1, <1>2, OrderNext, InvCorrect, PTL DEF Spec
=============================================================================
