----------------------------- MODULE PacketFramer -----------------------------
(***************************************************************************)
(* The wire format and the framer of pkg/packet/packet.go: packets become  *)
(* bytes, a TCP stream delivers them in arbitrary pieces, FrameWithReader  *)
(* reads at most ChunkSize of them at a time, and the PacketFramer puts    *)
(* them together again and sends the packets to its channel C.  A byte is  *)
(* a number below Base, and the header's length field has two of them; the *)
(* byte with type and encoding is carried and not looked into.             *)
(***************************************************************************)
EXTENDS Naturals, Sequences

CONSTANTS Base,         \* values of a byte (256 in the code)
          PayloadSize,  \* PACKET_PAYLOAD_SIZE (1020)
          ChunkSize,    \* size of FrameWithReader's buffer (100)
          FrameCap,     \* capacity of C (10)
          MaxPackets,   \* bound: how many packets are sent
          Writable      \* the packets that may be written as the n-th

VERSION == 1
HEADER_SIZE == 4

Byte == 0..(Base - 1)
RawPacket == [version : Byte, type : Byte, data : Seq(Byte)]

ASSUME PFAssumption ==
  /\ Base \in Nat /\ VERSION < Base
  /\ PayloadSize \in Nat \ {0} /\ PayloadSize + HEADER_SIZE + ChunkSize <= Base * Base
  /\ ChunkSize \in Nat \ {0} /\ FrameCap \in Nat \ {0}
  /\ MaxPackets \in Nat
  /\ \A n \in 1..MaxPackets : \A p \in Writable[n] :
       p \in RawPacket /\ Len(p.data) < PayloadSize  \* the encoders assert it

VARIABLES
  packets,   \* those written so far
  stream,    \* bytes in the connection
  buf, idx,  \* PacketFramer: its buffer, and how much of it is filled
  step,      \* FrameWithReader: reading, or in the loop of Push
  C,         \* the channel
  received   \* what the consumer took from it

framerVars == <<packets, stream, buf, idx, step, C, received>>

PutUint16(n)  == <<(n \div Base) % Base, n % Base>>
Uint16(hi, lo) == hi * Base + lo

\* PacketFromParts and NewPacket: header, then data.
Encode(p) == <<p.version, p.type>> \o PutUint16(Len(p.data)) \o p.data

\* PacketFromBytes
Decode(bytes) == [version |-> bytes[1], type |-> bytes[2],
                  data |-> SubSeq(bytes, HEADER_SIZE + 1, Len(bytes))]

FramerTypeOK ==
  /\ packets \in Seq(RawPacket) /\ C \in Seq(RawPacket) /\ received \in Seq(RawPacket)
  /\ stream \in Seq(Byte) /\ buf \in Seq(Byte)
  /\ idx \in 0..Len(buf)
  /\ step \in {"read", "push"}
  /\ Len(C) <= FrameCap

FramerInit ==
  /\ packets = <<>> /\ stream = <<>>
  /\ buf = [i \in 1..PayloadSize |-> 0] /\ idx = 0
  /\ step = "read" /\ C = <<>> /\ received = <<>>

\* The peer writes a packet.
Into == /\ Len(packets) < MaxPackets
        /\ \E p \in Writable[Len(packets) + 1] :
             /\ packets' = Append(packets, p)
             /\ stream' = stream \o Encode(p)
        /\ UNCHANGED <<buf, idx, step, C, received>>

\* A read, and the first half of Push: the bytes go to the buffer from idx on,
\* over what was there, and the buffer grows when they pass its end.
Read == /\ step = "read"
        /\ \E n \in 1..ChunkSize :
             /\ n <= Len(stream)
             /\ stream' = SubSeq(stream, n + 1, Len(stream))
             /\ buf' = SubSeq(buf, 1, idx) \o SubSeq(stream, 1, n)
                                           \o SubSeq(buf, idx + n + 1, Len(buf))
             /\ idx' = idx + n
        /\ step' = "push"
        /\ UNCHANGED <<packets, C, received>>

packetLen == Uint16(buf[3], buf[4])
fullLen   == (packetLen + HEADER_SIZE) % (Base * Base)  \* uint16 arithmetic

\* Seeded bug: a packet that ends where the buffer does is not seen.
PulledOffByOne == /\ idx >= HEADER_SIZE
                  /\ buf[1] = VERSION /\ packetLen # PayloadSize
                  /\ fullLen < idx % (Base * Base)

\* pull finds a packet: a whole one, of this version and not too long.
Pulled == /\ idx >= HEADER_SIZE
          /\ buf[1] = VERSION /\ packetLen # PayloadSize
          /\ fullLen <= idx % (Base * Base)

\* The packet is copied out, the rest of the buffer moves to its beginning, and
\* the packet goes to the channel, when there is room.
Pull == /\ step = "push" /\ Pulled /\ Len(C) < FrameCap
        /\ C' = Append(C, Decode(SubSeq(buf, 1, fullLen)))
        /\ buf' = SubSeq(buf, fullLen + 1, Len(buf))
                    \o SubSeq(buf, Len(buf) - fullLen + 1, Len(buf))
        /\ idx' = idx - fullLen
        /\ UNCHANGED <<packets, stream, step, received>>

\* No packet, or an error, which FrameWithReader ignores: it reads on.
NoPacket == /\ step = "push" /\ ~Pulled
            /\ step' = "read"
            /\ UNCHANGED <<packets, stream, buf, idx, C, received>>

Receive == /\ C # <<>>
           /\ received' = Append(received, Head(C))
           /\ C' = Tail(C)
           /\ UNCHANGED <<packets, stream, buf, idx, step>>

FramerNext == Into \/ Read \/ Pull \/ NoPacket \/ Receive

\* The reading goroutine runs and the consumer takes what is there.
FramerSpec == /\ FramerInit /\ [][FramerNext]_framerVars
              /\ WF_framerVars(Read \/ Pull \/ NoPacket) /\ WF_framerVars(Receive)
-----------------------------------------------------------------------------
(* Properties *)

\* The packets before the first one of another version.
Usable == LET bad == {i \in DOMAIN packets : packets[i].version # VERSION}
          IN IF bad = {} THEN packets
             ELSE SubSeq(packets, 1, (CHOOSE i \in bad : \A j \in bad : i <= j) - 1)

\* The buffer never grows beyond one packet, less a byte, and one read, as long
\* as the versions agree: Push leaves less than a packet behind.
BufferBounded ==
  Usable = packets => Len(buf) <= PayloadSize + HEADER_SIZE + ChunkSize - 2
=============================================================================
