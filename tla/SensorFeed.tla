----------------------------- MODULE SensorFeed ------------------------------
(***************************************************************************)
(* What a Lunix:TNG sensor promises to the open files of its device node,  *)
(* without locks, sleeping or buffers: measurements are published one      *)
(* after the other, and whenever an open file takes up a measurement it is *)
(* a published one, and newer than any it took up before.                  *)
(***************************************************************************)
EXTENDS Naturals

CONSTANT Files

VARIABLES
  published,  \* how many measurements the sensor has published
  seen        \* the number of the measurement each file last took up, 0: none

feedVars == <<published, seen>>

FeedTypeOK == published \in Nat /\ seen \in [Files -> Nat]

FeedInit == published = 0 /\ seen = [f \in Files |-> 0]

Publish == published' = published + 1 /\ UNCHANGED seen

\* Measurements may be skipped, never repeated or reordered.
TakeUp(f) ==
  /\ \E g \in (seen[f] + 1)..published : seen' = [seen EXCEPT ![f] = g]
  /\ UNCHANGED published

\* A newly opened file has taken up nothing.
Open(f) == seen' = [seen EXCEPT ![f] = 0] /\ UNCHANGED published

FeedNext == Publish \/ \E f \in Files : TakeUp(f) \/ Open(f)

FeedSpec == FeedInit /\ [][FeedNext]_feedVars
=============================================================================
