------------------------ MODULE LunixProtocolProofs -------------------------
(***************************************************************************)
(* Proofs about LunixProtocol, for every stream of bytes, every way to cut *)
(* it into buffers and every loss of bytes.                                *)
(***************************************************************************)
EXTENDS LunixProtocol, SequenceTheorems, TLAPS

\* What keeps the index of the payload length inside the packet, also after an
\* overflow has set pos back to 0.
LengthInv ==
  state = PAYLOAD_LEN => bytes_to_read = 1 /\ (bytes_read > 0 => pos > 0)

TInv == TypeOK /\ LengthInv

\* The exclusive or that lunix_protocol_parse_state applies after 0x7D keeps a
\* byte a byte.
LEMMA Xor20Type == \A b \in Byte : Xor20(b) \in Byte
<1> SUFFICES ASSUME NEW b \in 0..255 PROVE Xor20(b) \in 0..255
  BY ZenonT(60) DEF Byte
<1>1. PICK q \in 0..7 : b \div 32 = q /\ 32 * q <= b /\ b < 32 * q + 32
  OBVIOUS
<1>2. q % 2 = 1 => q >= 1
  BY <1>1
<1>3. q % 2 # 1 => q <= 6
  BY <1>1
<1> QED BY <1>1, <1>2, <1>3 DEF Xor20

\* A part of a buffer that lunix_protocol_received_buf is given is a buffer.
LEMMA PartType ==
  ASSUME NEW s \in Seq(Byte), NEW m \in Nat, NEW n \in Nat, m >= 1, n <= Len(s)
  PROVE  SubSeq(s, m, n) \in Seq(Byte)
OBVIOUS

\* Taking bytes off the line leaves frames of bytes.
LEMMA AfterType ==
  ASSUME wire \in Seq(Seq(Byte)), wire # <<>>, NEW k \in 1..Len(Head(wire))
  PROVE  SubSeq(Head(wire), 1, k) \in Seq(Byte) /\ After(k) \in Seq(Seq(Byte))
<1>1. Head(wire) \in Seq(Byte) /\ Tail(wire) \in Seq(Seq(Byte))
  OBVIOUS
<1>2. /\ Len(Head(wire)) \in Nat /\ k \in Nat /\ k + 1 \in Nat /\ k + 1 >= 1
      /\ k <= Len(Head(wire)) /\ Len(Head(wire)) <= Len(Head(wire))
  BY <1>1
<1>3. SubSeq(Head(wire), 1, k) \in Seq(Byte)
  BY <1>1, <1>2, PartType
<1>4. SubSeq(Head(wire), k + 1, Len(Head(wire))) \in Seq(Byte)
  BY <1>1, <1>2, PartType
<1> QED BY <1>1, <1>3, <1>4 DEF After

\* The debug limit, taken out of the assumption on the constants.
LEMMA Turns == MAX_TURNS \in Nat /\ MAX_TURNS >= 1
<1>1. MAX_TURNS \in Nat \ {0}
  BY ProtocolAssumption
<1> QED BY <1>1

\* The ranges of the parser's counters, taken out of the type invariant.
LEMMA Ranges ==
  ASSUME TypeOK
  PROVE  /\ state \in 1..9
         /\ pos \in Nat /\ pos <= MAX_PACKET_LEN /\ MAX_PACKET_LEN \in Nat /\ MAX_PACKET_LEN > 23
         /\ bytes_read \in 0..255 /\ bytes_to_read \in 0..255
         /\ bytes_read \in Nat /\ bytes_to_read \in Nat
         /\ iter \in 0..(MAX_TURNS - 1) /\ i \in Nat /\ i >= 1
<1>1. MAX_PACKET_LEN \in Nat /\ MAX_PACKET_LEN > 23
  BY ProtocolAssumption DEF LIGHT_OFFSET
<1>2. state \in 1..9 /\ bytes_read \in 0..255 /\ bytes_to_read \in 0..255 /\ iter \in 0..(MAX_TURNS - 1)
  BY DEF TypeOK, START, END, Byte
<1>3. pos \in 0..MAX_PACKET_LEN /\ i \in Nat \ {0}
  BY DEF TypeOK
<1> QED BY <1>1, <1>2, <1>3

\* The packet buffer holds bytes.
LEMMA PacketByte ==
  ASSUME TypeOK
  PROVE  /\ \A k \in 0..(MAX_PACKET_LEN - 1) : packet[k] \in 0..255
         /\ packet[6] \in 0..255
<1>1. 6 \in 0..(MAX_PACKET_LEN - 1)
  BY ProtocolAssumption DEF LIGHT_OFFSET
<1>2. packet \in [0..(MAX_PACKET_LEN - 1) -> 0..255]
  BY DEF TypeOK, Byte
<1> QED BY ZenonT(60), <1>1, <1>2

\* The empty buffer of an idle parser is a sequence of bytes.
LEMMA EmptyBuf ==
  /\ <<>> \in Seq(Byte) /\ 0 \in 0..(MAX_TURNS - 1)
  /\ 1 \in Nat \ {0} /\ 0 \in Byte /\ 1 \in Byte
BY Turns DEF Byte

\* Every step keeps types and the index of the payload length.
LEMMA TypeStep == TInv /\ [Next]_vars => TInv'
<1> SUFFICES ASSUME TInv, [Next]_vars PROVE TInv'
  OBVIOUS
<1> USE DEF TInv
<1>0. /\ state \in 1..9
      /\ pos \in Nat /\ pos <= MAX_PACKET_LEN /\ MAX_PACKET_LEN \in Nat /\ MAX_PACKET_LEN > 23
      /\ bytes_read \in 0..255 /\ bytes_to_read \in 0..255
      /\ iter \in 0..(MAX_TURNS - 1) /\ i \in Nat /\ i >= 1
  BY Ranges
<1>1. CASE LoseByte
  <2>1. wire' \in Seq(Seq(Byte))
    <3>1. CASE Len(Head(wire)) > 0
      <4>1. 1 \in 1..Len(Head(wire))
        BY <1>1, <3>1 DEF LoseByte, TypeOK
      <4> QED BY <1>1, <4>1, AfterType DEF LoseByte, TypeOK
    <3>2. CASE Len(Head(wire)) = 0
      BY <1>1, <3>2 DEF LoseByte, After, TypeOK
    <3>3. Len(Head(wire)) \in Nat
      BY <1>1 DEF LoseByte, TypeOK
    <3> QED BY <3>1, <3>2, <3>3
  <2>2. lost' \in 0..MaxLost
    <3>1. lost \in 0..MaxLost /\ lost < MaxLost /\ MaxLost \in Nat /\ lost' = lost + 1
      BY <1>1, ProtocolAssumption DEF LoseByte, TypeOK
    <3> QED BY <3>1
  <2> QED BY <1>1, <2>1, <2>2 DEF LoseByte, TypeOK, LengthInv, countVars
<1>2. CASE ReceivePart
  <2>1. PICK k \in 1..Len(Head(wire)) : Receive(SubSeq(Head(wire), 1, k)) /\ wire' = After(k)
    BY <1>2 DEF ReceivePart
  <2>2. SubSeq(Head(wire), 1, k) \in Seq(Byte) /\ After(k) \in Seq(Seq(Byte))
    BY <1>2, AfterType DEF ReceivePart, TypeOK
  <2>3. buf' \in Seq(Byte) /\ wire' \in Seq(Seq(Byte))
    BY <2>1, <2>2 DEF Receive
  <2>4. iter' \in 0..(MAX_TURNS - 1) /\ i' \in Nat \ {0} /\ busy' \in BOOLEAN
    BY <2>1, EmptyBuf DEF Receive
  <2> QED BY <2>1, <2>3, <2>4 DEF Receive, TypeOK, LengthInv, countVars
<1>3. CASE ReceiveAcross
  <2>1. PICK k \in 1..(Len(wire[2]) - 1) :
          /\ Receive(Head(wire) \o SubSeq(wire[2], 1, k))
          /\ wire' = <<SubSeq(wire[2], k + 1, Len(wire[2]))>> \o Tail(Tail(wire))
    BY <1>3 DEF ReceiveAcross
  <2>0. wire \in Seq(Seq(Byte)) /\ Len(wire) > 1 /\ Len(wire) \in Nat /\ wire # <<>>
    BY <1>3 DEF ReceiveAcross, TypeOK
  <2>2. /\ Head(wire) \in Seq(Byte) /\ wire[2] \in Seq(Byte)
        /\ Tail(wire) \in Seq(Seq(Byte)) /\ Len(Tail(wire)) = Len(wire) - 1
    <3>1. 2 \in 1..Len(wire)
      BY <2>0
    <3>2. wire[2] \in Seq(Byte)
      BY <2>0, <3>1
    <3>3. Head(wire) \in Seq(Byte) /\ Tail(wire) \in Seq(Seq(Byte))
      BY <2>0, HeadTailProperties
    <3>4. Len(Tail(wire)) = Len(wire) - 1
      BY <2>0, HeadTailProperties
    <3> QED BY <3>2, <3>3, <3>4
  <2>3. Tail(Tail(wire)) \in Seq(Seq(Byte))
    <3>1. Tail(wire) # <<>>
      <4>1. Len(wire) > 1 /\ Len(wire) \in Nat /\ Len(Tail(wire)) = Len(wire) - 1
        BY <2>0, <2>2
      <4>2. Len(Tail(wire)) # 0
        BY <4>1
      <4> QED BY <4>2, EmptySeq
    <3> QED BY <2>2, <3>1
  <2>4. /\ k \in Nat /\ k + 1 \in Nat /\ k + 1 >= 1 /\ Len(wire[2]) \in Nat
        /\ k <= Len(wire[2]) /\ Len(wire[2]) <= Len(wire[2])
    <3>1. Len(wire[2]) \in Nat
      BY <2>2
    <3> QED BY <3>1
  <2>5. SubSeq(wire[2], 1, k) \in Seq(Byte) /\ SubSeq(wire[2], k + 1, Len(wire[2])) \in Seq(Byte)
    <3>1. SubSeq(wire[2], 1, k) \in Seq(Byte)
      BY <2>2, <2>4, PartType
    <3>2. SubSeq(wire[2], k + 1, Len(wire[2])) \in Seq(Byte)
      BY <2>2, <2>4, PartType
    <3> QED BY <3>1, <3>2
  <2>6. Head(wire) \o SubSeq(wire[2], 1, k) \in Seq(Byte)
    BY <2>2, <2>5
  <2>7. wire' \in Seq(Seq(Byte))
    <3>1. <<SubSeq(wire[2], k + 1, Len(wire[2]))>> \in Seq(Seq(Byte))
      BY <2>5
    <3>2. <<SubSeq(wire[2], k + 1, Len(wire[2]))>> \o Tail(Tail(wire)) \in Seq(Seq(Byte))
      BY <2>3, <3>1, ConcatProperties
    <3> QED BY <2>1, <3>2
  <2> QED BY <2>1, <2>6, <2>7, EmptyBuf DEF Receive, TypeOK, LengthInv, countVars
<1>4. CASE Oops
  BY <1>4, EmptyBuf DEF Oops, Return, TypeOK, LengthInv, lineVars, countVars
<1>5. CASE Overflow
  <2>1. bytes_read < bytes_to_read
    BY <1>5 DEF Overflow, InLoop
  <2>2. state = PAYLOAD_LEN => bytes_read = 0
    BY <1>0, <2>1 DEF LengthInv
  <2>3. 0 \in 0..MAX_PACKET_LEN /\ ~(0 > 0)
    BY <1>0
  <2>4. TypeOK'
    BY <1>5, <2>3, EmptyBuf DEF Overflow, Return, TypeOK, lineVars, countVars
  <2>5. LengthInv'
    <3>1. UNCHANGED <<state, bytes_to_read, bytes_read>>
      BY <1>5 DEF Overflow, countVars
    <3> QED BY <2>2, <2>3, <3>1 DEF LengthInv
  <2> QED BY <2>4, <2>5
<1>6. ASSUME NEW b \in Byte, Turn, Store(b), next_is_special' \in {0, 125, 126} PROVE TInv'
  <2>1. /\ bytes_read + 1 \in Byte /\ bytes_read + 1 > 0
        /\ pos \in 0..(MAX_PACKET_LEN - 1) /\ pos + 1 \in 0..MAX_PACKET_LEN /\ pos + 1 > 0
        /\ i + 1 \in Nat \ {0}
    <3>1. bytes_read < bytes_to_read /\ pos # MAX_PACKET_LEN
      BY <1>6 DEF Turn, InLoop
    <3> QED BY <1>0, <3>1 DEF Byte
  <2>2. iter' \in 0..(MAX_TURNS - 1)
    BY <1>0, <1>6, Turns DEF Store, CountTurn, Turn
  <2>3. packet' \in [0..(MAX_PACKET_LEN - 1) -> Byte]
    BY <1>6, <2>1 DEF Store, TypeOK
  <2>4. TypeOK'
    BY <1>6, <2>1, <2>2, <2>3 DEF Store, TypeOK, lineVars
  <2>5. LengthInv'
    BY <1>6, <2>1 DEF Store, LengthInv
  <2> QED BY <2>4, <2>5
<1>7. CASE Escape
  <2>1. iter' \in 0..(MAX_TURNS - 1)
    BY <1>0, <1>7, Turns DEF Escape, CountTurn, Turn
  <2> QED BY <1>7, <2>1 DEF Escape, TypeOK, LengthInv, lineVars, countVars
<1>8. CASE Escaped
  <2>1. buf[i] \in Byte
    BY <1>8 DEF Escaped, Turn, InLoop, TypeOK
  <2>2. Xor20(buf[i]) \in Byte
    BY <2>1, Xor20Type
  <2> QED BY <1>6, <1>8, <2>1, <2>2 DEF Escaped
<1>9. CASE Plain
  <2>1. buf[i] \in Byte
    BY <1>9 DEF Plain, Turn, InLoop, TypeOK
  <2>2. next_is_special' \in {0, 125, 126}
    BY <1>9 DEF Plain, TypeOK
  <2> QED BY <1>6, <1>9, <2>1, <2>2 DEF Plain
<1>10. CASE ReturnShort
  BY <1>10, EmptyBuf DEF ReturnShort, Return, TypeOK, LengthInv, lineVars, countVars
<1>11. CASE StateDone
  <2>1. state \in 1..8 /\ state + 1 \in 2..9
    BY <1>0, <1>11 DEF StateDone, END
  <2>2. state = PAYLOAD_LEN => pos - 1 \in 0..(MAX_PACKET_LEN - 1)
    BY <1>0, <1>11 DEF StateDone, LengthInv
  <2>3. state = PAYLOAD_LEN => packet[pos - 1] \in Byte
    BY <2>2, PacketByte DEF Byte
  <2>4. /\ BytesOf(state + 1) \in Byte
        /\ state + 1 = PAYLOAD_LEN => BytesOf(state + 1) = 1
    BY <2>1, <2>3 DEF BytesOf, DEST, PAYLOAD_LEN, PAYLOAD, CRC, Byte
  <2>5. TypeOK'
    <3>1. state' \in START..END
      BY <1>11, <2>1 DEF StateDone, set_state, START, END
    <3> QED BY <1>11, <2>4, <3>1, EmptyBuf DEF StateDone, set_state, TypeOK, lineVars
  <2>6. LengthInv'
    BY <1>11, <2>4 DEF StateDone, set_state, LengthInv
  <2> QED BY <2>5, <2>6
<1>12. CASE PacketDone
  <2>1. \A o \in 0..22 : uint16_from_packet(o) \in Nat
    <3> SUFFICES ASSUME NEW o \in 0..22 PROVE uint16_from_packet(o) \in Nat
      OBVIOUS
    <3>1. o \in 0..(MAX_PACKET_LEN - 1) /\ o + 1 \in 0..(MAX_PACKET_LEN - 1)
      BY <1>0
    <3>2. packet[o] \in 0..255 /\ packet[o + 1] \in 0..255
      BY <3>1, PacketByte
    <3>3. packet[o] \in Nat /\ packet[o + 1] \in Nat
      BY <3>2
    <3> QED BY <3>3 DEF uint16_from_packet
  <2>2. /\ Reading.batt \in Nat /\ Reading.temp \in Nat /\ Reading.light \in Nat
        /\ Reading = [node |-> Reading.node, batt |-> Reading.batt, temp |-> Reading.temp,
                      light |-> Reading.light]
    BY <2>1 DEF Reading, VREF_OFFSET, TEMPERATURE_OFFSET, LIGHT_OFFSET
  <2>3. Reading.node \in 1..SensorCnt =>
          Reading \in [node : 1..SensorCnt, batt : Nat, temp : Nat, light : Nat]
    BY <2>2
  <2>4. updates' \in Seq([node : 1..SensorCnt, batt : Nat, temp : Nat, light : Nat])
    <3> DEFINE R == [node : 1..SensorCnt, batt : Nat, temp : Nat, light : Nat]
    <3>1. updates \in Seq(R)
      BY DEF TypeOK
    <3>2. ASSUME NEW rd \in R PROVE Append(updates, rd) \in Seq(R)
      BY <3>1
    <3> HIDE DEF R
    <3>3. CASE updates' = updates
      BY <3>1, <3>3 DEF R
    <3>4. CASE updates' = Append(updates, Reading) /\ Reading \in R
      BY <3>2, <3>4 DEF R
    <3> QED BY <1>12, <2>3, <3>3, <3>4 DEF PacketDone, lunix_protocol_update_sensors, R
  <2>5. TypeOK'
    <3>1. 0 \in 0..MAX_PACKET_LEN /\ START \in START..END
      BY <1>0 DEF START, END
    <3> QED BY <1>12, <2>4, <3>1, EmptyBuf DEF PacketDone, set_state, Return, TypeOK, lineVars
  <2>6. LengthInv'
    BY <1>12 DEF PacketDone, set_state, LengthInv, START, PAYLOAD_LEN
  <2> QED BY <2>5, <2>6
<1>13. CASE UNCHANGED vars
  BY <1>13 DEF vars, lineVars, countVars, TypeOK, LengthInv
<1> QED BY <1>1, <1>2, <1>3, <1>4, <1>5, <1>7, <1>8, <1>9, <1>10, <1>11, <1>12, <1>13 DEF Next

\* lunix_protocol_init establishes the types.
LEMMA TypeInit == Init => TInv
<1> SUFFICES ASSUME Init PROVE TInv
  OBVIOUS
<1>1. START \in START..END /\ 0 \in 0..MAX_PACKET_LEN /\ 0 \in 0..MaxLost
  BY ProtocolAssumption DEF START, END, LIGHT_OFFSET
<1>2. packet \in [0..(MAX_PACKET_LEN - 1) -> Byte]
  BY EmptyBuf DEF Init
<1>3. wire \in Seq(Seq(Byte)) /\ lost \in 0..MaxLost
  BY <1>1, ProtocolAssumption DEF Init
<1>4. updates \in Seq([node : 1..SensorCnt, batt : Nat, temp : Nat, light : Nat])
  BY EmptySeq DEF Init
<1>5. TypeOK
  BY <1>1, <1>2, <1>3, <1>4, EmptyBuf DEF Init, TypeOK
<1>6. LengthInv
  BY DEF Init, LengthInv, START, PAYLOAD_LEN
<1> QED BY <1>5, <1>6 DEF TInv

\* Types and the payload index hold in every reachable state.
LEMMA TypeAlways == Spec => []TInv
BY TypeInit, TypeStep, PTL DEF Spec

\* The parser's variables keep their types, among them the bounds of the packet
\* position, of the byte counters and of the debug counter.
THEOREM TypeCorrect == Spec => []TypeOK
BY TypeAlways, PTL DEF TInv

\* lunix_protocol_parse_state and lunix_protocol_received_buf access the packet
\* buffer within its bounds, whatever its size.
THEOREM BoundsCorrect == Spec => []IndexInBounds
<1>1. TInv => IndexInBounds
  <2> SUFFICES ASSUME TInv PROVE IndexInBounds
    OBVIOUS
  <2>1. DOMAIN packet = 0..(MAX_PACKET_LEN - 1)
    BY DEF TInv, TypeOK
  <2>2. Turn => pos \in 0..(MAX_PACKET_LEN - 1)
    BY ProtocolAssumption DEF TInv, TypeOK, Turn
  <2>3. (state = PAYLOAD_LEN /\ bytes_read = bytes_to_read) => pos - 1 \in 0..(MAX_PACKET_LEN - 1)
    BY ProtocolAssumption DEF TInv, TypeOK, LengthInv
  <2> QED BY <2>1, <2>2, <2>3 DEF IndexInBounds
<1> QED BY <1>1, TypeAlways, PTL

-----------------------------------------------------------------------------
(* With room for the longest packet - 7 bytes of header, 255 of payload, 2 of *)
(* checksum, the end byte - the counters stay in step.                        *)

\* A byte stored at pos leaves the bytes before it alone, and with them the
\* payload length that the table of the packet structure depends on.
LEMMA StoreStep ==
  ASSUME MAX_PACKET_LEN >= 265, TInv, InStep, NEW b \in Byte, Turn, Store(b),
         next_is_special' = 0
  PROVE  InStep'
<1> USE DEF START, PTYPE, DEST, AM_TYPE, AM_GROUP, PAYLOAD_LEN, PAYLOAD, CRC, END
<1>1. /\ state \in 1..9 /\ pos \in Nat /\ pos < MAX_PACKET_LEN
      /\ bytes_read \in Nat /\ bytes_to_read \in Nat /\ bytes_read < bytes_to_read
  BY Ranges DEF TInv, Turn, InLoop
<1>2. /\ state' = state /\ bytes_to_read' = bytes_to_read
      /\ bytes_read' = bytes_read + 1 /\ pos' = pos + 1
      /\ packet' = [packet EXCEPT ![pos] = b]
  BY DEF Store
<1>3. packet[6] \in 0..255
  BY PacketByte DEF TInv
<1>4. pos = Offset(state) + bytes_read /\ bytes_to_read = Size(state)
  BY DEF InStep
<1>5. state \in 7..9 => pos # 6
  BY <1>1, <1>3, <1>4 DEF Offset
<1>6. state \in 7..9 => packet'[6] = packet[6]
  <2>1. 6 \in 0..(MAX_PACKET_LEN - 1) /\ packet \in [0..(MAX_PACKET_LEN - 1) -> Byte]
    BY ProtocolAssumption DEF TInv, TypeOK
  <2> QED BY <1>2, <1>5, <2>1
<1>7. Size(state)' = Size(state)
  BY <1>1, <1>2, <1>6 DEF Size
<1>8. Offset(state)' = Offset(state)
  BY <1>1, <1>2, <1>6 DEF Offset
<1>9. Offset(state) \in Nat
  BY <1>1, <1>3 DEF Offset
<1>10. pos + 1 = Offset(state) + (bytes_read + 1) /\ bytes_read + 1 <= bytes_to_read
  BY <1>1, <1>4, <1>9
<1> QED BY <1>2, <1>4, <1>7, <1>8, <1>10 DEF InStep

\* The states follow one another as the parts of a packet do.
LEMMA DoneStep ==
  ASSUME MAX_PACKET_LEN >= 265, TInv, InStep, StateDone
  PROVE  InStep'
<1> USE DEF START, PTYPE, DEST, AM_TYPE, AM_GROUP, PAYLOAD_LEN, PAYLOAD, CRC, END
<1>0. state \in 1..9 /\ bytes_read \in Nat
  BY Ranges DEF TInv
<1>1. state \in 1..8 /\ bytes_read = bytes_to_read /\ next_is_special = 0 /\ bytes_read \in Nat
  BY <1>0 DEF StateDone, InStep
<1>2. /\ state' = state + 1 /\ bytes_to_read' = BytesOf(state + 1) /\ bytes_read' = 0
      /\ UNCHANGED <<pos, next_is_special, packet>>
  BY DEF StateDone, set_state
<1>3. packet[6] \in 0..255
  BY PacketByte DEF TInv
<1>4. pos = Offset(state) + Size(state)
  BY <1>1 DEF InStep
<1>5. Offset(state) + Size(state) = Offset(state + 1)
  BY <1>1, <1>3 DEF Offset, Size
<1>6. BytesOf(state + 1) = Size(state + 1)
  <2>1. state = 6 => pos - 1 = 6
    BY <1>4 DEF Offset, Size
  <2> QED BY <1>1, <2>1 DEF BytesOf, Size
<1>7. /\ Offset(state)' = Offset(state + 1) /\ Size(state)' = Size(state + 1)
      /\ Size(state + 1) \in Nat /\ Offset(state + 1) \in Nat
  <2>1. Offset(state)' = Offset(state + 1)
    BY <1>2 DEF Offset
  <2>2. Size(state)' = Size(state + 1)
    BY <1>2 DEF Size
  <2>3. Size(state + 1) \in Nat
    BY <1>1, <1>3 DEF Size
  <2>4. Offset(state + 1) \in Nat
    BY SMTT(30), <1>1, <1>3 DEF Offset
  <2> QED BY <2>1, <2>2, <2>3, <2>4
<1> QED BY <1>1, <1>2, <1>4, <1>5, <1>6, <1>7 DEF InStep

\* In step, the position of a byte still to come lies before the 265th.
LEMMA InStepBound ==
  ASSUME MAX_PACKET_LEN >= 265, TInv, InStep PROVE NeverOverflows
<1> USE DEF START, PTYPE, DEST, AM_TYPE, AM_GROUP, PAYLOAD_LEN, PAYLOAD, CRC, END
<1>1. state \in 1..9 /\ bytes_read \in Nat /\ bytes_to_read \in Nat /\ MAX_PACKET_LEN \in Nat
  BY Ranges DEF TInv
<1>2. packet[6] \in 0..255
  BY PacketByte DEF TInv
<1>3. bytes_read < bytes_to_read => pos < 265
  BY <1>1, <1>2 DEF InStep, Offset, Size
<1>4. bytes_read < bytes_to_read => pos # MAX_PACKET_LEN
  BY <1>1, <1>3
<1> QED BY <1>4 DEF NeverOverflows, InLoop

\* Every step keeps the counters of the parser in step with the packet table.
LEMMA InStepStep ==
  ASSUME MAX_PACKET_LEN >= 265, TInv, InStep, [Next]_vars PROVE InStep'
<1>1. ASSUME UNCHANGED <<countVars, pos, next_is_special, packet>> PROVE InStep'
  BY <1>1 DEF InStep, Offset, Size, UseSpecials, countVars
<1>2. CASE LoseByte \/ Oops \/ ReturnShort
  BY <1>1, <1>2 DEF LoseByte, Oops, ReturnShort
<1>3. CASE ReceivePart \/ ReceiveAcross
  BY <1>1, <1>3 DEF ReceivePart, ReceiveAcross, Receive
<1>4. CASE Overflow
  BY <1>4, InStepBound DEF NeverOverflows, Overflow
<1>5. CASE Escape
  BY <1>5 DEF Escape, Turn, InLoop, InStep, Offset, Size, UseSpecials, countVars
<1>6. CASE Escaped
  <2>1. buf[i] \in Byte
    BY <1>6 DEF Escaped, Turn, InLoop, TInv, TypeOK
  <2>2. Xor20(buf[i]) \in Byte
    BY <2>1, Xor20Type
  <2> QED BY <1>6, <2>1, <2>2, StoreStep DEF Escaped
<1>7. CASE Plain
  <2>1. buf[i] \in Byte
    BY <1>7 DEF Plain, Turn, InLoop, TInv, TypeOK
  <2>2. next_is_special' = 0
    BY <1>7 DEF Plain, InStep
  <2> QED BY <1>7, <2>1, <2>2, StoreStep DEF Plain
<1>8. CASE StateDone
  BY <1>8, DoneStep
<1>9. CASE PacketDone
  <2>1. /\ state' = 1 /\ bytes_to_read' = 1 /\ bytes_read' = 0 /\ pos' = 0
        /\ next_is_special' = 0
    BY <1>9 DEF PacketDone, set_state, START
  <2> QED BY <2>1 DEF InStep, Offset, Size, START, DEST, CRC, PAYLOAD
<1>10. CASE UNCHANGED vars
  BY <1>1, <1>10 DEF vars
<1> QED BY <1>2, <1>3, <1>4, <1>5, <1>6, <1>7, <1>8, <1>9, <1>10 DEF Next

\* pos, bytes_read and bytes_to_read follow the table of the packet structure
\* for every input, when the packet buffer has room for the longest packet.
THEOREM InStepCorrect == ASSUME MAX_PACKET_LEN >= 265 PROVE Spec => []InStep
<1>1. Init => InStep
  BY DEF Init, InStep, Offset, Size, START, DEST, CRC, PAYLOAD
<1> QED BY <1>1, InStepStep, TypeAlways, PTL DEF Spec

\* A packet buffer of 265 bytes is enough; with the 300 of lunix-protocol.h the
\* overflow test of lunix_protocol_parse_state is dead code.
THEOREM NeverOverflowsCorrect == ASSUME MAX_PACKET_LEN >= 265 PROVE Spec => []NeverOverflows
BY InStepBound, InStepCorrect, TypeAlways, PTL
=============================================================================
