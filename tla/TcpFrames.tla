------------------------------ MODULE TcpFrames ------------------------------
(***************************************************************************)
(* The commands that a TCP server of vim-mate writes to its clients and    *)
(* what a client reads (pkg/tcp, pkg/commands and the cell encodings of    *)
(* pkg/window).  A byte is a number below Base.  A colour's three bytes    *)
(* are one here.                                                           *)
(***************************************************************************)
EXTENDS Naturals, Sequences

CONSTANTS Base,         \* values of a byte (256 in the code)
          MaxLength,    \* MAX_PACKET_LENGTH (10000)
          ScratchSize,  \* what FrameReader reads at once (1024)
          ChanCap,      \* capacity of FromSockets (10)
          MaxCells,     \* bound: cells in a render
          MaxCommands   \* bound: commands written

VERSION == 1
HEADER_SIZE == 4
PARTIAL_RENDER == 2
OPEN_WINDOW == 6

VARIABLES
  sent,         \* the commands written
  wire,         \* bytes in the connection
  previous,     \* FrameReader: bytes read and not yet used
  pc,           \* the reading goroutine: "read", or "broken" after an error
  FromSockets,  \* commands read
  received      \* commands that were taken and decoded

vars == <<sent, wire, previous, pc, FromSockets, received>>

Byte == 0 .. (Base - 1)
Color == [front : BOOLEAN, shade : Byte]
Cell == [row : Byte, col : Byte, value : Byte, fg : Color, bg : Color]
Partial == [command : {PARTIAL_RENDER}, cells : Seq(Cell)]
OpenWindow == [command : {OPEN_WINDOW}, rows : Byte, cols : Byte]
RawCommand == [command : Byte, data : Seq(Byte)]

(***************************************************************************)
(* Cells as bytes.  Color.UnmarshalBinary reads the foreground flag        *)
(* inverted; nothing that draws looks at it.                               *)
(***************************************************************************)
ColorBytes(c) == <<IF c.front THEN 1 ELSE 0, c.shade>>
ColorOf(b) == [front |-> b[1] = 0, shade |-> b[2]]
CellBytes(c) == <<c.row, c.col, c.value>> \o ColorBytes(c.fg) \o ColorBytes(c.bg)
CELL_LENGTH == 7
CellOf(b) == [row |-> b[1], col |-> b[2], value |-> b[3],
              fg |-> ColorOf(SubSeq(b, 4, 5)), bg |-> ColorOf(SubSeq(b, 6, 7))]

\* A command's data, and the command that data is read as.
PartialRender(cells) ==
  [k \in 1 .. CELL_LENGTH * Len(cells) |->
     CellBytes(cells[(k - 1) \div CELL_LENGTH + 1])[((k - 1) % CELL_LENGTH) + 1]]
PartialRenders(data) ==
  [i \in 1 .. Len(data) \div CELL_LENGTH |->
     CellOf(SubSeq(data, (i - 1) * CELL_LENGTH + 1, i * CELL_LENGTH))]
DataOf(cmd) == IF cmd.command = OPEN_WINDOW THEN <<cmd.rows, cmd.cols>>
               ELSE PartialRender(cmd.cells)
Decoded(raw) ==
  IF raw.command = OPEN_WINDOW
  THEN [command |-> OPEN_WINDOW, rows |-> raw.data[1], cols |-> raw.data[2]]
  ELSE [command |-> raw.command, cells |-> PartialRenders(raw.data)]

\* MarshalBinary: the length is cut to two bytes, the data is not.
Marshal(cmd) ==
  LET data == DataOf(cmd)
  IN <<VERSION, cmd.command, (Len(data) \div Base) % Base, Len(data) % Base>> \o data

LengthField == previous[3] * Base + previous[4]
packetLen == IF Len(previous) < HEADER_SIZE THEN 0 ELSE LengthField + HEADER_SIZE

canParse == Len(previous) >= HEADER_SIZE /\ Len(previous) >= packetLen

TypeOK ==
  /\ sent \in Seq(Partial \cup OpenWindow) /\ received \in Seq(Partial \cup OpenWindow)
  /\ FromSockets \in Seq(RawCommand) /\ Len(FromSockets) <= ChanCap
  /\ wire \in Seq(Byte) /\ previous \in Seq(Byte)
  /\ pc \in {"read", "broken"}

Init == /\ sent = <<>> /\ wire = <<>> /\ previous = <<>> /\ pc = "read"
        /\ FromSockets = <<>> /\ received = <<>>

\* Cells that differ in every field.
CellNo(n, i) == LET byte(k) == (n + i + k) % Base
                IN [row |-> byte(0), col |-> byte(1), value |-> byte(2),
                    fg |-> [front |-> TRUE, shade |-> byte(3)],
                    bg |-> [front |-> FALSE, shade |-> byte(4)]]

\* The server writes a command, whole: a window's size or some cells of it.
Write == /\ Len(sent) < MaxCommands
         /\ \E cmd \in {[command |-> OPEN_WINDOW, rows |-> 2, cols |-> VERSION]}
                    \cup {[command |-> PARTIAL_RENDER,
                           cells |-> [i \in 1 .. k |-> CellNo(Len(sent), i)]] :
                             k \in 0 .. MaxCells} :
              /\ sent' = Append(sent, cmd)
              /\ wire' = wire \o Marshal(cmd)
         /\ UNCHANGED <<previous, pc, FromSockets, received>>

\* FrameReader.Read has no packet yet and reads on.
ReadMore == /\ pc = "read" /\ packetLen <= MaxLength /\ ~canParse
            /\ \E n \in 1 .. ScratchSize :
                 /\ n <= Len(wire)
                 /\ wire' = SubSeq(wire, n + 1, Len(wire))
                 /\ previous' = previous \o SubSeq(wire, 1, n)
            /\ UNCHANGED <<sent, pc, FromSockets, received>>

\* Connection.Next: the packet is cut off and handed over when there is room.
NextCommand == /\ pc = "read" /\ packetLen <= MaxLength /\ canParse
               /\ previous[1] = VERSION
               /\ Len(FromSockets) < ChanCap
               /\ FromSockets' = Append(FromSockets,
                    [command |-> previous[2],
                     data |-> SubSeq(previous, HEADER_SIZE + 1, packetLen)])
               /\ previous' = SubSeq(previous, packetLen + 1, Len(previous))
               /\ UNCHANGED <<sent, wire, pc, received>>

\* The announced packet is too long, or of another version: readConnection and
\* the client's loop end at the error.  The bytes of one too long stay.
Break == /\ pc = "read"
         /\ \/ packetLen > MaxLength /\ UNCHANGED previous
            \/ /\ packetLen <= MaxLength /\ canParse /\ previous[1] # VERSION
               /\ previous' = SubSeq(previous, packetLen + 1, Len(previous))
         /\ pc' = "broken"
         /\ UNCHANGED <<sent, wire, FromSockets, received>>

Receive == /\ FromSockets # <<>>
           /\ received' = Append(received, Decoded(Head(FromSockets)))
           /\ FromSockets' = Tail(FromSockets)
           /\ UNCHANGED <<sent, wire, previous, pc>>

Next == Write \/ ReadMore \/ NextCommand \/ Break \/ Receive

\* What a reader can use: the commands before the first that is too long.
Usable == LET long == {i \in DOMAIN sent : Len(DataOf(sent[i])) + HEADER_SIZE > MaxLength}
          IN IF long = {} THEN sent
             ELSE SubSeq(sent, 1, (CHOOSE i \in long : \A j \in long : i <= j) - 1)

\* What is drawn of a command: everything but the flags of its colours.
Visible(cmd) ==
  IF cmd.command = OPEN_WINDOW THEN <<cmd.rows, cmd.cols>>
  ELSE [i \in DOMAIN cmd.cells |->
         LET c == cmd.cells[i] IN <<c.row, c.col, c.value, c.fg.shade, c.bg.shade>>]
=============================================================================
