---------------------------- MODULE LunixProtocol ----------------------------
(***************************************************************************)
(* The state machine that finds XMesh packets in the bytes of the serial   *)
(* line: lunix-protocol.c, called from lunix_ldisc_receive_buf             *)
(* (lunix-ldisc.c).                                                        *)
(*                                                                         *)
(* The line is the sequence of the frames that the base station sends; the *)
(* TTY layer hands it over in buffers cut at any place.  A buffer goes     *)
(* through lunix_protocol_received_buf, one step of the model for every    *)
(* turn of the loop in lunix_protocol_parse_state and one for every return *)
(* of it.  lunix_ldisc_receive_buf is not re-entered, so buffers follow    *)
(* one another.                                                            *)
(***************************************************************************)
EXTENDS Integers, Sequences

CONSTANTS
  Stream,          \* the frames sent, a sequence of sequences of bytes
  Merge,           \* may a buffer hold the end of a frame and more bytes?
  MaxLost,         \* bound on the number of bytes the line loses
  LUNIX_DEBUG,     \* the driver is built with debugging
  MAX_TURNS,       \* where the debug counter of the loop strikes, 50 in the code
  MAX_PACKET_LEN,  \* size of the packet buffer, 300 in lunix-protocol.h
  SensorCnt        \* lunix_sensor_cnt

Byte == 0..255

PACKET_SIGNATURE_OFFSET == 4
NODE_OFFSET == 9
VREF_OFFSET == 18
TEMPERATURE_OFFSET == 20
LIGHT_OFFSET == 22

ASSUME ProtocolAssumption ==
  /\ Stream \in Seq(Seq(Byte))
  /\ Merge \in BOOLEAN
  /\ MaxLost \in Nat
  /\ LUNIX_DEBUG \in BOOLEAN
  /\ MAX_TURNS \in Nat \ {0}
  /\ MAX_PACKET_LEN \in Nat /\ MAX_PACKET_LEN > LIGHT_OFFSET + 1
  /\ SensorCnt \in Nat

VARIABLES
  wire,             \* the frames, and the rest of a frame, still to come
  lost,             \* number of bytes lost so far
  busy,             \* is lunix_protocol_received_buf running?
  buf,              \* its buffer
  i,                \* the next byte of it, counted from 1
  iter,             \* turns of the current loop in lunix_protocol_parse_state
  state, bytes_to_read, bytes_read, pos, next_is_special, packet,
  updates           \* the calls of lunix_sensor_update made so far

lineVars  == <<wire, lost>>
countVars == <<state, bytes_to_read, bytes_read>>
vars == <<lineVars, busy, buf, i, iter, countVars, pos, next_is_special, packet, updates>>

START == 1
PTYPE == 2
DEST == 3
AM_TYPE == 4
AM_GROUP == 5
PAYLOAD_LEN == 6
PAYLOAD == 7
CRC == 8
END == 9

\* Type invariant: the unsigned chars of the parser's state stay bytes, and the
\* position never leaves the packet buffer by more than one.
TypeOK ==
  /\ wire \in Seq(Seq(Byte))
  /\ lost \in 0..MaxLost
  /\ busy \in BOOLEAN
  /\ buf \in Seq(Byte)
  /\ i \in Nat \ {0}
  /\ iter \in 0..(MAX_TURNS - 1)
  /\ state \in START..END
  /\ bytes_to_read \in Byte
  /\ bytes_read \in Byte
  /\ pos \in 0..MAX_PACKET_LEN
  /\ next_is_special \in {0, 125, 126}
  /\ packet \in [0..(MAX_PACKET_LEN - 1) -> Byte]
  /\ updates \in Seq([node : 1..SensorCnt, batt : Nat, temp : Nat, light : Nat])

\* lunix_protocol_init; the packet buffer is a zeroed global.
Init ==
  /\ wire = Stream /\ lost = 0
  /\ busy = FALSE /\ buf = <<>> /\ i = 1 /\ iter = 0
  /\ state = START /\ bytes_to_read = 1 /\ bytes_read = 0
  /\ pos = 0 /\ next_is_special = 0
  /\ packet = [k \in 0..(MAX_PACKET_LEN - 1) |-> 0]
  /\ updates = <<>>

-----------------------------------------------------------------------------
(* The line *)

\* What is left on the wire after the first k bytes of a frame have gone.
After(k) ==
  LET rest == SubSeq(Head(wire), k + 1, Len(Head(wire)))
  IN  IF rest = <<>> THEN Tail(wire) ELSE <<rest>> \o Tail(wire)

\* The line drops a byte, or the byte comes while the discipline is not set; it
\* does not begin the parser anew when it is opened again.
LoseByte ==
  /\ ~busy /\ wire # <<>> /\ lost < MaxLost
  /\ wire' = After(1)
  /\ lost' = lost + 1
  /\ UNCHANGED <<busy, buf, i, iter, countVars, pos, next_is_special, packet, updates>>

Receive(b) ==
  /\ busy' = TRUE /\ buf' = b /\ i' = 1 /\ iter' = 0
  /\ UNCHANGED <<lost, countVars, pos, next_is_special, packet, updates>>

\* lunix_ldisc_receive_buf with the next k bytes of a frame.
ReceivePart ==
  /\ ~busy /\ wire # <<>>
  /\ \E k \in 1..Len(Head(wire)) :
       Receive(SubSeq(Head(wire), 1, k)) /\ wire' = After(k)

\* The same with all of a frame and the first k bytes of the following one.
ReceiveAcross ==
  /\ ~busy /\ Merge /\ Len(wire) > 1
  /\ \E k \in 1..(Len(wire[2]) - 1) :
       /\ Receive(Head(wire) \o SubSeq(wire[2], 1, k))
       /\ wire' = <<SubSeq(wire[2], k + 1, Len(wire[2]))>> \o Tail(Tail(wire))

-----------------------------------------------------------------------------
(* lunix_protocol_parse_state *)

\* The states parsed with use_specials = 1.
UseSpecials == state \in DEST..CRC

\* The loop goes on, and its debug counter lets it.
InLoop == busy /\ i <= Len(buf) /\ bytes_read < bytes_to_read

\* Mutant of Turn: the test of the packet buffer's end is missing.
Turn_Unguarded == InLoop /\ ~(LUNIX_DEBUG /\ iter + 1 = MAX_TURNS)

Turn == InLoop /\ ~(LUNIX_DEBUG /\ iter + 1 = MAX_TURNS) /\ pos # MAX_PACKET_LEN
CountTurn == iter' = IF LUNIX_DEBUG THEN iter + 1 ELSE iter

\* Every return of less than 1 ends lunix_protocol_received_buf as well: no
\* later state test matches.  What is left in the buffer is gone.
Return == busy' = FALSE /\ buf' = <<>> /\ i' = 1 /\ iter' = 0

\* "if (++iter == 50)": OOPS!
Oops ==
  /\ InLoop /\ LUNIX_DEBUG /\ iter + 1 = MAX_TURNS
  /\ Return
  /\ UNCHANGED <<lineVars, countVars, pos, next_is_special, packet, updates>>

\* "packet buffer would overflow!"
Overflow ==
  /\ InLoop /\ ~(LUNIX_DEBUG /\ iter + 1 = MAX_TURNS) /\ pos = MAX_PACKET_LEN
  /\ pos' = 0
  /\ Return
  /\ UNCHANGED <<lineVars, countVars, next_is_special, packet, updates>>

\* b ^ 0x20
Xor20(b) == IF (b \div 32) % 2 = 1 THEN b - 32 ELSE b + 32

Store(b) ==
  /\ packet' = [packet EXCEPT ![pos] = b]
  /\ pos' = pos + 1
  /\ bytes_read' = bytes_read + 1
  /\ i' = i + 1
  /\ CountTurn
  /\ UNCHANGED <<lineVars, busy, buf, state, bytes_to_read, updates>>

\* Mutant of Escape: the index is not advanced.
Escape_Stuck ==
  /\ Turn /\ UseSpecials /\ next_is_special = 0 /\ buf[i] \in {125, 126}
  /\ CountTurn
  /\ UNCHANGED <<lineVars, busy, buf, i, countVars, pos, next_is_special, packet, updates>>

Escape ==
  /\ Turn /\ UseSpecials /\ next_is_special = 0 /\ buf[i] \in {125, 126}
  /\ next_is_special' = buf[i]
  /\ i' = i + 1
  /\ CountTurn
  /\ UNCHANGED <<lineVars, busy, buf, countVars, pos, packet, updates>>

Escaped ==
  /\ Turn /\ UseSpecials /\ next_is_special # 0
  /\ Store(IF next_is_special = 126 THEN buf[i] ELSE Xor20(buf[i]))
  /\ next_is_special' = 0

Plain ==
  /\ Turn
  /\ UseSpecials => next_is_special = 0 /\ buf[i] \notin {125, 126}
  /\ Store(buf[i])
  /\ UNCHANGED next_is_special

\* The buffer is used up before the state has its bytes.
ReturnShort ==
  /\ busy /\ i > Len(buf) /\ bytes_read # bytes_to_read
  /\ Return
  /\ UNCHANGED <<lineVars, countVars, pos, next_is_special, packet, updates>>

-----------------------------------------------------------------------------
(* lunix_protocol_received_buf: lunix_protocol_parse_state has returned 1 *)

set_state(s, btr) == state' = s /\ bytes_to_read' = btr /\ bytes_read' = 0

\* Mutant of BytesOf: the last byte of the payload is taken for the checksum.
BytesOf_Short(s) == IF s = PAYLOAD THEN packet[pos - 1] - 1
                    ELSE IF s \in {DEST, CRC} THEN 2 ELSE 1

\* How many bytes a state waits for.
BytesOf(s) == IF s = PAYLOAD THEN packet[pos - 1]
              ELSE IF s \in {DEST, CRC} THEN 2 ELSE 1

StateDone ==
  /\ busy /\ bytes_read = bytes_to_read /\ state # END
  /\ set_state(state + 1, BytesOf(state + 1))
  /\ iter' = 0
  /\ UNCHANGED <<lineVars, busy, buf, i, pos, next_is_special, packet, updates>>

uint16_from_packet(o) == packet[o] + 256 * packet[o + 1]

Reading == [node  |-> uint16_from_packet(NODE_OFFSET),
            batt  |-> uint16_from_packet(VREF_OFFSET),
            temp  |-> uint16_from_packet(TEMPERATURE_OFFSET),
            light |-> uint16_from_packet(LIGHT_OFFSET)]

lunix_protocol_update_sensors ==
  updates' = IF packet[PACKET_SIGNATURE_OFFSET] = 11 /\ Reading.node \in 1..SensorCnt
             THEN Append(updates, Reading)
             ELSE updates

\* Mutant of PacketDone: the position in the packet is not reset.
PacketDone_KeepPos ==
  /\ busy /\ bytes_read = bytes_to_read /\ state = END
  /\ lunix_protocol_update_sensors
  /\ next_is_special' = 0
  /\ set_state(START, 1)
  /\ Return
  /\ UNCHANGED <<lineVars, pos, packet>>

\* The end byte is in: the rest of the buffer is not looked at.
PacketDone ==
  /\ busy /\ bytes_read = bytes_to_read /\ state = END
  /\ lunix_protocol_update_sensors
  /\ pos' = 0 /\ next_is_special' = 0
  /\ set_state(START, 1)
  /\ Return
  /\ UNCHANGED <<lineVars, packet>>

Next ==
  \/ LoseByte \/ ReceivePart \/ ReceiveAcross
  \/ Oops \/ Overflow \/ Escape \/ Escaped \/ Plain \/ ReturnShort
  \/ StateDone \/ PacketDone

Spec == Init /\ [][Next]_vars

\* A call of lunix_protocol_received_buf runs to its end.
FairSpec ==
  Spec /\ WF_vars(Oops \/ Overflow \/ Escape \/ Escaped \/ Plain \/ ReturnShort
                  \/ StateDone \/ PacketDone)

-----------------------------------------------------------------------------
(* Properties *)

\* Where in the packet the bytes of each state begin (the table of the packet
\* structure in lunix-protocol.c, lines 86-98).
Offset(s) == IF s <= DEST THEN s - 1
             ELSE IF s <= PAYLOAD THEN s
             ELSE IF s = CRC THEN 7 + packet[6] ELSE 9 + packet[6]

\* How many bytes that table gives each state.
Size(s) == IF s = PAYLOAD THEN packet[6] ELSE IF s \in {DEST, CRC} THEN 2 ELSE 1

\* The three counters of lunix_protocol_parse_state agree with each other and
\* with the table of the packet structure, wherever buffers are cut, whatever
\* bytes are lost and however bytes are escaped: pos is where the table puts the
\* next byte.  An escape is pending only while a byte is still missing.
InStep ==
  /\ bytes_to_read = Size(state)
  /\ bytes_read <= bytes_to_read
  /\ pos = Offset(state) + bytes_read
  /\ next_is_special # 0 => UseSpecials /\ bytes_read < bytes_to_read

\* The test "packet buffer would overflow!" in lunix_protocol_parse_state, after
\* which the parser has lost its place, never strikes.
NeverOverflows == InLoop => pos # MAX_PACKET_LEN

\* Whatever the size of the packet buffer, lunix_protocol_parse_state stores
\* inside of it, and the payload length is read from inside of it.
IndexInBounds ==
  /\ Turn => pos \in DOMAIN packet
  /\ (busy /\ state = PAYLOAD_LEN /\ bytes_read = bytes_to_read) => pos - 1 \in DOMAIN packet

\* lunix_protocol_received_buf never loops for ever on a buffer.
BufferDone == busy ~> ~busy
=============================================================================
