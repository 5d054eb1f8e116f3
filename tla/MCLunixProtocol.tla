--------------------------- MODULE MCLunixProtocol ---------------------------
(* Small instances of LunixProtocol, and what the frames mean. *)
EXTENDS LunixProtocol

\* Escape byte values 0x7D and 0x7E by 0x7D and the value ^ 0x20.
RECURSIVE Escaping(_)
Escaping(s) ==
  IF s = <<>> THEN <<>>
  ELSE (IF Head(s) \in {125, 126} THEN <<125, Xor20(Head(s))>> ELSE <<Head(s)>>)
       \o Escaping(Tail(s))

\* A frame as the base station sends it.
FrameOf(amtype, payload, crc) ==
  <<126, 66>> \o Escaping(<<255, 255, amtype, 125, Len(payload)>> \o payload \o crc) \o <<126>>

\* A payload with the four fields at their places.
Payload(node, batt, temp, light) ==
  <<1, 2>> \o node \o <<5, 6, 7, 8, 9, 10, 126>> \o batt \o temp \o light

Data1 == FrameOf(11, Payload(<<1, 0>>, <<126, 1>>, <<20, 0>>, <<30, 125>>), <<126, 3>>)
Data2 == FrameOf(11, Payload(<<2, 0>>, <<40, 0>>, <<50, 2>>, <<60, 0>>), <<1, 2>>)
OutOfRange == FrameOf(11, Payload(<<2, 1>>, <<1, 0>>, <<1, 0>>, <<1, 0>>), <<1, 2>>)
Health == FrameOf(3, <<200, 125>>, <<4, 5>>)
Empty == FrameOf(3, <<>>, <<4, 5>>)
\* 0x7E before a byte takes it literally.
Literal == <<126, 66, 126, 126, 255, 11, 0, 17, 1, 2, 1, 0, 5, 6, 7, 8, 9, 10, 126, 125,
             2, 2, 3, 3, 4, 4, 1, 2, 126>>

MixedStream == <<Data1, Health, Literal, Empty, OutOfRange, Data2>>
LossyStream == <<Health, Data2>>
TwoPackets  == <<Data1, Data2>>

-----------------------------------------------------------------------------
\* Reference: take the escapes out of a frame, all of it at once.
RECURSIVE Unescaping(_)
Unescaping(s) ==
  IF s = <<>> THEN <<>>
  ELSE CASE Head(s) = 125 -> <<Xor20(s[2])>> \o Unescaping(Tail(Tail(s)))
         [] Head(s) = 126 -> <<s[2]>> \o Unescaping(Tail(Tail(s)))
         [] OTHER -> <<Head(s)>> \o Unescaping(Tail(s))

Unframed(f) == SubSeq(f, 1, 2) \o Unescaping(SubSeq(f, 3, Len(f) - 1))

\* The readings of a sequence of frames, in order; p[k + 1] is packet byte k.
RECURSIVE ReadingsIn(_)
ReadingsIn(fs) ==
  IF fs = <<>> THEN <<>>
  ELSE LET p == Unframed(Head(fs))
           U16(o) == p[o + 1] + 256 * p[o + 2]
           rd == [node |-> U16(9), batt |-> U16(18), temp |-> U16(20), light |-> U16(22)]
       IN (IF p[5] = 11 /\ rd.node \in 1..SensorCnt THEN <<rd>> ELSE <<>>) \o ReadingsIn(Tail(fs))

AllReadings == ReadingsIn(Stream)

\* lunix_ldisc_receive_buf passes "incoming characters to protocol processing
\* code, which handle any necessary sensor updates" (lunix-ldisc.c:83): the
\* updates made are the readings of the frames sent, in order and complete,
\* no matter how the line is cut into buffers.
UpdatesAreTheReadings ==
  /\ Len(updates) <= Len(AllReadings)
  /\ updates = SubSeq(AllReadings, 1, Len(updates))
  /\ (wire = <<>> /\ ~busy) => updates = AllReadings
=============================================================================
