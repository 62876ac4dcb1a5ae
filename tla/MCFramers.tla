------------------------------- MODULE MCFramers -------------------------------
(***************************************************************************)
(* What goes over the wire.  The three framers of the repository against   *)
(* one promise: packets of arcadevim through a PacketFramer, commands of a *)
(* TCP server of vim-mate through a FrameReader, text of doom through an   *)
(* AnsiFramer.  And doom's frames, encoded, on their way to the page, and  *)
(* the boxes of their quadtree.  A behaviour is one of these.              *)
(***************************************************************************)
EXTENDS PacketFramer, FiniteSets

CONSTANTS Versions, Lengths, \* of the packets that are sent
          ChanCap, MaxLength, MaxCells, MaxCommands, MaxFrames,
          Size, HUFFMAN_ENCODE_LENGTH, ByteBits, MaxRun, U16, MaxMissed, NoShape

VARIABLES kind,
          row, image, ink, lastStyle, starts, crash,
          prev, message, page, view, missed, sure,
          shape, box, it, read

ansi == <<row, image, ink, lastStyle, starts>>
frames == <<prev, message, page, view, missed, sure>>
tree == <<shape, box, it, read>>
allVars == <<framerVars, kind, ansi, crash, frames, tree>>

\* The type tells a packet from the others, and its payload looks like headers.
TheWritable == [n \in 1..MaxPackets |->
  {[version |-> v, type |-> (n - 1) % Base, data |-> [i \in 1..m |-> VERSION]] : v \in Versions, m \in Lengths}]

Commands == INSTANCE TcpFrames WITH
  sent <- packets, wire <- stream, pc <- step, previous <- buf, FromSockets <- C, Base <- 8, ScratchSize <- ChunkSize

Home == <<"ESC", "H">>
Ansi == INSTANCE AnsiFramer WITH
  sent <- packets, wire <- stream, pc <- step, scratch <- buf, CurrentRow <- row, buffer <- image, ch <- C,
  Rows <- 2, Pixels <- 2, Inks <- {"red", "green"},
  FirstLines <- {Home \o <<"ESC", "red", "a", "a", "ESC", "green", "b", "b">>,
                 Home \o <<"H", "H", "H", "H">>, Home \o <<"a", "a">>},
  Lines <- {<<>>, <<"b", "b", "ESC", "red", "a", "a">>, <<"H", "H">>}

Edges(f) == Cardinality({i \in 2 .. Len(f) : f[i] # f[i - 1]})
\* Frames of one colour and of two halves; two and three colours that runs do not compress, of
\* few and of many bits; and four colours, which nothing compresses.
Drawn == {f \in [1 .. Size -> 0 .. 1] : Edges(f) <= 2 /\ f[1] = 0 /\ f[2] = 0}
         \cup {[i \in 1 .. Size |-> i % n] : n \in 2 .. 4}
         \cup {[i \in 1 .. Size |-> IF i <= 4 THEN i % 2 ELSE 1 - (i % 2)],
               [i \in 1 .. Size |-> (i \div 2) % 2], [i \in 1 .. Size |-> (i % 2) + 1],
               [i \in 1 .. Size |-> CASE i = 2 -> 1 [] i = 4 -> 2 [] OTHER -> 0]}
Stream == INSTANCE FrameStream WITH Frames <- Drawn, wire <- message

\* Frames cut up to twice, of one-byte values and of two-byte values, odd sizes and boxes that
\* are too narrow included.
Cut == {p \in [Depth : 0 .. 2, Rows : {2, 4, 5, 7}, Cols : {4, 5, 7, 8, 10, 14}, Stride : 1 .. 2] :
          /\ p.Rows >= 2 ^ p.Depth /\ p.Cols >= p.Stride * 2 ^ p.Depth
          /\ p.Cols % p.Stride = 0}
Tree == INSTANCE Quadtree WITH Shapes <- Cut

NoAnsi == row = 0 /\ image = <<>> /\ ink = "none" /\ lastStyle = "none" /\ starts = FALSE
NoTree == shape = NoShape /\ box = 0 /\ it = <<>> /\ read = <<>>

AllInit ==
  /\ Stream!Init
  /\ \/ kind = "packets" /\ FramerInit /\ NoAnsi /\ NoTree
     \/ kind = "commands" /\ Commands!Init /\ idx = 0 /\ NoAnsi /\ NoTree
     \/ kind = "text" /\ Ansi!Init /\ idx = 0 /\ NoTree
     \/ kind = "frames" /\ FramerInit /\ NoAnsi /\ NoTree
     \/ kind = "boxes" /\ FramerInit /\ NoAnsi /\ Tree!TreeInit

Packets == kind = "packets" /\ FramerNext /\ UNCHANGED <<kind, ansi, crash, frames, tree>>
TcpCommands == kind = "commands" /\ Commands!Next /\ UNCHANGED <<kind, idx, ansi, crash, frames, tree>>
Text == kind = "text" /\ Ansi!Next /\ UNCHANGED <<kind, idx, frames, tree>>
Frames == kind = "frames" /\ Stream!Next /\ UNCHANGED <<framerVars, kind, ansi, tree>>
Boxes == kind = "boxes" /\ Tree!TreeNext /\ UNCHANGED <<framerVars, kind, ansi, crash, frames>>

\* Every reading goroutine runs, and every consumer takes what is there.
PacketsRun == kind = "packets" /\ (Read \/ Pull \/ NoPacket) /\ UNCHANGED <<kind, ansi, crash, frames, tree>>
PacketsTaken == kind = "packets" /\ Receive /\ UNCHANGED <<kind, ansi, crash, frames, tree>>
CommandsRun == /\ kind = "commands"
               /\ Commands!ReadMore \/ Commands!NextCommand \/ Commands!Break
               /\ UNCHANGED <<kind, idx, ansi, crash, frames, tree>>
CommandsTaken == kind = "commands" /\ Commands!Receive /\ UNCHANGED <<kind, idx, ansi, crash, frames, tree>>
TextRun == /\ kind = "text"
           /\ Ansi!WriteHead \/ Ansi!Write \/ Ansi!Line \/ Ansi!NoLine
           /\ UNCHANGED <<kind, idx, frames, tree>>
TextTaken == kind = "text" /\ Ansi!TakeFrame /\ UNCHANGED <<kind, idx, frames, tree>>

AllSpec == /\ AllInit /\ [][Packets \/ TcpCommands \/ Text \/ Frames \/ Boxes]_allVars
           /\ WF_allVars(PacketsRun) /\ WF_allVars(PacketsTaken)
           /\ WF_allVars(CommandsRun) /\ WF_allVars(CommandsTaken)
           /\ WF_allVars(TextRun) /\ WF_allVars(TextTaken)
-----------------------------------------------------------------------------
\* Types and capacities of the part that runs, and no assertion of the
\* AnsiFramer fails.
TypesOK == /\ kind = "packets" => FramerTypeOK
           /\ kind = "commands" => Commands!TypeOK
           /\ kind = "text" => Ansi!TypeOK
           /\ kind = "frames" => Stream!TypeOK

\* PacketFramer's buffer stays bounded.
BuffersBounded == kind = "packets" => BufferBounded

\* The page shows what doom drew last, once it has decoded a Huffman frame.
PageInStep == kind = "frames" => Stream!PageInStep
\* The page's decoder reads a frame back from its bits and its tree.
HuffmanReadsBack == kind = "frames" => Stream!HuffmanReadsBack
\* No code without a common beginning is shorter.
HuffmanIsShortest == kind = "frames" => Stream!HuffmanIsShortest
\* The boxes of a quadtree read every value of a frame once.
EveryValueOnce == kind = "boxes" => Tree!EveryValueOnce

\* What is encoded can be decoded: codes are read back, and are no longer than they need to
\* be, and the boxes of a quadtree have all of a frame between them.
EncodingsRight == HuffmanReadsBack /\ HuffmanIsShortest /\ EveryValueOnce

\* What encodeInto is asked to write it knows (encoder.go:48, "unknown encoding type").
EncodingKnown == kind = "frames" => ~crash

Visible(cmds) == [i \in DOMAIN cmds |-> Commands!Visible(cmds[i])]
Due == CASE kind \in {"packets", "frames", "boxes"} -> Usable
         [] kind = "commands" -> Visible(Commands!Usable)
         [] kind = "text" -> Ansi!Usable
Came == IF kind = "commands" THEN Visible(received) ELSE received

\* Every framer keeps the promise of PacketPipe: whatever the pieces in which the
\* bytes arrive, the packets, commands or pictures come out whole, in order and
\* all of them, in the end.  Nothing is promised of what follows a packet of
\* another version or a command that is too long, and nothing of the picture
\* drawn last when frames are told by their beginning.  Buffers stay in their bounds
\* meanwhile.
Pipe == INSTANCE PacketPipe WITH Most <- MaxPackets, sent <- Due, received <- Came
KeepsPipe == Pipe!Spec /\ [](TypesOK /\ BuffersBounded)
=============================================================================
