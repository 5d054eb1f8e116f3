------------------------------ MODULE JobServer ------------------------------
(***************************************************************************)
(* The job server of project 3 (project3.c): a parent hands the numbers    *)
(* typed on its terminal to children over one pipe each and collects the   *)
(* answers over another pipe each, in one select() loop.  Pipes are        *)
(* bounded: a write to a full one blocks, in the parent and in a child.    *)
(***************************************************************************)
EXTENDS Integers, Sequences

CONSTANTS
  digits,    \* number of children
  PipeCap,   \* ints that fit into a pipe (16384 on Linux)
  MaxLines   \* bound on the lines typed

\* check_argument_errors lets 0 pass, and pid_array has 50 places; neither end
\* is part of the model.
ASSUME JobAssumption ==
  /\ digits \in 1..50
  /\ PipeCap \in Nat \ {0, 1}
  /\ MaxLines \in Nat

Child == 0..(digits - 1)

\* What waits on the terminal, as check_input sees it: a number, the word "exit",
\* anything else, the end of the input, or nothing.  The number on a line is the
\* count of the line, so that no two jobs are alike.
Kind == {"number", "exit", "other", "eof"}
Nothing == [kind |-> "nothing", number |-> 0]

VARIABLES
  pc,        \* where the parent stands
  i,         \* its loop variable
  prompt,    \* "--random" or "--round-robin"
  iterator,  \* jobs handed out round robin
  ready,     \* read_fds after select: the children with an answer
  send_to,   \* the child chosen
  digits2,   \* the number to send
  stdin,     \* the line that waits on the terminal
  lines,     \* lines typed
  cpc,       \* where each child stands
  buffer,    \* the number each child holds
  in, out,   \* the two pipes of each child
  pending    \* history: the jobs sent to each child and not answered yet

parent == <<pc, i, iterator, ready, send_to, digits2>>
children == <<cpc, buffer>>
pipes == <<in, out>>
vars == <<parent, prompt, stdin, lines, children, pipes, pending>>

Line == [kind : Kind, number : 1..MaxLines]

\* Type invariant: no pipe holds more than fits.
TypeOK ==
  /\ pc \in {"fork", "select", "stdin", "write", "drain", "kill", "exited"}
  /\ i \in 0..digits
  /\ prompt \in {"--random", "--round-robin"}
  /\ iterator \in Nat
  /\ ready \subseteq Child
  /\ send_to \in Child
  /\ digits2 \in Int
  /\ stdin \in Line \cup {Nothing}
  /\ lines \in 0..MaxLines
  /\ cpc \in [Child -> {"unborn", "read", "write", "killed"}]
  /\ buffer \in [Child -> Int]
  /\ in \in [Child -> Seq(Int)] /\ \A c \in Child : Len(in[c]) <= PipeCap
  /\ out \in [Child -> Seq(Int)] /\ \A c \in Child : Len(out[c]) <= PipeCap
  /\ pending \in [Child -> Seq(Int)]

\* The pipes are there before the first fork.
Init ==
  /\ pc = "fork" /\ i = 0
  /\ prompt \in {"--random", "--round-robin"}
  /\ iterator = 0 /\ ready = {} /\ send_to = 0 /\ digits2 = 0
  /\ stdin = Nothing /\ lines = 0
  /\ cpc = [c \in Child |-> "unborn"]
  /\ buffer = [c \in Child |-> 0]
  /\ in = [c \in Child |-> <<>>] /\ out = [c \in Child |-> <<>>]
  /\ pending = [c \in Child |-> <<>>]

-----------------------------------------------------------------------------
(* The terminal *)

\* The user types a line, or ends the input for good.
Type ==
  /\ stdin = Nothing /\ lines < MaxLines
  /\ lines' = lines + 1
  /\ stdin' \in [kind : Kind, number : {lines + 1}]
  /\ UNCHANGED <<parent, prompt, children, pipes, pending>>

-----------------------------------------------------------------------------
(* The parent *)

Fork ==
  /\ pc = "fork"
  /\ \/ /\ i < digits
        /\ cpc' = [cpc EXCEPT ![i] = "read"]
        /\ i' = i + 1 /\ UNCHANGED pc
     \/ /\ i < digits           \* fork() fails; nobody stops the others
        /\ pc' = "exited"
        /\ UNCHANGED <<cpc, i>>
     \/ /\ i = digits
        /\ pc' = "select"
        /\ UNCHANGED <<cpc, i>>
  /\ UNCHANGED <<iterator, ready, send_to, digits2, prompt, stdin, lines, buffer, pipes, pending>>

\* Mutant of Readable: select() is given max_fd, not max_fd + 1.
Readable_MaxFd == {c \in Child : c < digits - 1 /\ out[c] # <<>>}

\* The children whose answers can be read without blocking.
Readable == {c \in Child : out[c] # <<>>}

\* select() waits for one of them or for the terminal, where the end of the input
\* counts as readable.
Select ==
  /\ pc = "select"
  /\ Readable # {} \/ stdin # Nothing
  /\ ready' = Readable
  /\ i' = 0
  /\ pc' = IF stdin # Nothing THEN "stdin" ELSE "drain"
  /\ UNCHANGED <<iterator, send_to, digits2, prompt, stdin, lines, children, pipes, pending>>

\* read() from the terminal and check_input.  A line that is no number, and the
\* end of input, send the loop back to select() past the answers.
ReadStdin ==
  /\ pc = "stdin"
  /\ stdin' = IF stdin.kind = "eof" THEN stdin ELSE Nothing
  /\ \/ /\ stdin.kind \in {"other", "eof"}
        /\ pc' = "select" /\ ready' = {}
        /\ UNCHANGED <<iterator, send_to, digits2>>
     \/ /\ stdin.kind = "exit"
        /\ pc' = "kill"
        /\ UNCHANGED <<iterator, ready, send_to, digits2>>
     \/ /\ stdin.kind = "number"
        /\ digits2' = stdin.number
        /\ \/ /\ prompt = "--random"
              /\ send_to' \in Child
              /\ UNCHANGED iterator
           \/ /\ prompt = "--round-robin"
              /\ send_to' = iterator % digits
              /\ iterator' = iterator + 1
        /\ pc' = "write" /\ UNCHANGED ready
  /\ UNCHANGED <<i, prompt, lines, children, pipes, pending>>

\* Mutant of WriteJob: back to select() as soon as the job is sent.
WriteJob_Continue ==
  /\ pc = "write"
  /\ Len(in[send_to]) < PipeCap
  /\ in' = [in EXCEPT ![send_to] = Append(@, digits2)]
  /\ pending' = [pending EXCEPT ![send_to] = Append(@, digits2)]
  /\ pc' = "select"
  /\ UNCHANGED <<i, iterator, ready, send_to, digits2, prompt, stdin, lines, children, out>>

\* write() to the child chosen waits for room.
WriteJob ==
  /\ pc = "write"
  /\ Len(in[send_to]) < PipeCap
  /\ in' = [in EXCEPT ![send_to] = Append(@, digits2)]
  /\ pending' = [pending EXCEPT ![send_to] = Append(@, digits2)]
  /\ pc' = "drain"
  /\ UNCHANGED <<i, iterator, ready, send_to, digits2, prompt, stdin, lines, children, out>>

\* One answer from each child that select() reported, in the order of the children.
\* (The answer goes through digits2 too, on its way to printf.)  The next turn
\* begins with FD_ZERO.
Drain ==
  /\ pc = "drain"
  /\ \/ /\ i < digits /\ i \in ready
        /\ out[i] # <<>>
        /\ out' = [out EXCEPT ![i] = Tail(@)]
        /\ pending' = [pending EXCEPT ![i] = Tail(@)]
        /\ i' = i + 1 /\ UNCHANGED <<pc, ready>>
     \/ /\ i < digits /\ i \notin ready
        /\ i' = i + 1
        /\ UNCHANGED <<pc, ready, out, pending>>
     \/ /\ i = digits
        /\ pc' = "select" /\ ready' = {}
        /\ UNCHANGED <<i, out, pending>>
  /\ UNCHANGED <<iterator, send_to, digits2, prompt, stdin, lines, children, in>>

\* "exit": SIGTERM to one child after the other.
Kill ==
  /\ pc = "kill"
  /\ \/ /\ i < digits
        /\ cpc' = [cpc EXCEPT ![i] = "killed"]
        /\ i' = i + 1 /\ UNCHANGED pc
     \/ /\ i = digits
        /\ pc' = "exited"
        /\ UNCHANGED <<cpc, i>>
  /\ UNCHANGED <<iterator, ready, send_to, digits2, prompt, stdin, lines, buffer, pipes, pending>>

Parent == Fork \/ Select \/ ReadStdin \/ WriteJob \/ Drain \/ Kill

-----------------------------------------------------------------------------
(* A child *)

\* The number is taken, incremented, and slept on until ChildWrite.
ChildRead(c) ==
  /\ cpc[c] = "read" /\ in[c] # <<>>
  /\ buffer' = [buffer EXCEPT ![c] = Head(in[c]) + 1]
  /\ in' = [in EXCEPT ![c] = Tail(@)]
  /\ cpc' = [cpc EXCEPT ![c] = "write"]
  /\ UNCHANGED <<parent, prompt, stdin, lines, out, pending>>

\* Mutant of ChildWrite: the write gives up on a full pipe and the answer is gone.
ChildWrite_NonBlocking(c) ==
  /\ cpc[c] = "write"
  /\ out' = IF Len(out[c]) < PipeCap - 1 THEN [out EXCEPT ![c] = Append(@, buffer[c])] ELSE out
  /\ cpc' = [cpc EXCEPT ![c] = "read"]
  /\ UNCHANGED <<parent, prompt, stdin, lines, buffer, in, pending>>

ChildWrite(c) ==
  /\ cpc[c] = "write"
  /\ Len(out[c]) < PipeCap
  /\ out' = [out EXCEPT ![c] = Append(@, buffer[c])]
  /\ cpc' = [cpc EXCEPT ![c] = "read"]
  /\ UNCHANGED <<parent, prompt, stdin, lines, buffer, in, pending>>

ChildStep(c) == ChildRead(c) \/ ChildWrite(c)

-----------------------------------------------------------------------------
Next == Type \/ Parent \/ \E c \in Child : ChildStep(c)

Spec == Init /\ [][Next]_vars

\* The scheduler runs every process that can go on; nobody has to type.
FairSpec ==
  /\ Spec
  /\ WF_vars(Parent)
  /\ \A c \in Child : WF_vars(ChildStep(c))

-----------------------------------------------------------------------------
(* Properties *)

Holding(c) == cpc[c] = "write"
Held(c) == IF Holding(c) THEN 1 ELSE 0

\* Jobs of child c on their way: in its pipes or in its hands.
InFlight(c) == Len(in[c]) + Held(c) + Len(out[c])

\* The parent waits for room in the pipe to a child while that child waits for
\* room in the pipe back, which only the parent can make (project3.c:138, 208).
NoDeadlock ==
  ~ /\ pc = "write" /\ Len(in[send_to]) = PipeCap
    /\ cpc[send_to] = "write" /\ Len(out[send_to]) = PipeCap

Answer(s) == [k \in 1..Len(s) |-> s[k] + 1]

\* The answers of a child are those to the jobs it was sent, in their order, none
\* lost and none twice: they wait in the pipe back, then comes the one the child
\* works on, then the jobs in the pipe to it, and this is all that is pending.
AnswersInOrder ==
  \A c \in Child :
    cpc[c] # "killed" =>
      Answer(pending[c]) =
        out[c] \o (IF Holding(c) THEN <<buffer[c]>> ELSE <<>>) \o Answer(in[c])

\* Every job sent is answered in the end, unless the user exits, or ends the
\* input: after that the loop finds stdin readable for ever and reads no answer.
JobsAnswered ==
  \A c \in Child :
    pending[c] # <<>> ~> (pending[c] = <<>> \/ pc = "exited" \/ stdin.kind = "eof")
=============================================================================
