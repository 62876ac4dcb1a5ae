------------------------------ MODULE AnsiFramer ------------------------------
(***************************************************************************)
(* How examples/v2/doom turns what its program prints into frames: Doom    *)
(* reads the window's size from the text before the first escape and gives *)
(* the rest to the AnsiFramer of pkg/v2/ansi_parser, which is written to   *)
(* in pieces that know nothing of lines; the driver takes every other      *)
(* colour of a frame, for a pixel is printed as two equal characters.      *)
(*                                                                         *)
(* The text is a sequence of tokens: "ESC" and after it "H" (the code      *)
(* ESC[;H that starts a frame) or a colour; "CR" and "LF"; characters,     *)
(* "H" among them; and "head", the text before the first escape.           *)
(***************************************************************************)
EXTENDS Naturals, SequencesExt

CONSTANTS Rows, Pixels, \* the size that the head announces, pixels per row
          Inks,
          ChunkSize,    \* most that one write brings
          ChanCap,      \* capacity of ch (10)
          FirstLines, Lines, \* bounds: what is drawn as the first and as another row
          MaxFrames     \* bound: frames drawn

VARIABLES
  sent,        \* the pictures drawn: the colours of their pixels
  ink,         \* the colour that the program's last one was
  wire,        \* text that was printed and not yet read
  pc,          \* Write: waiting for a "chunk", or going through the "lines"; "head" before
  starts,      \* frames are told by a frame start, not by their number of rows
  scratch,     \* the text that is left of earlier writes
  CurrentRow,
  buffer,      \* the colours of the characters placed so far
  lastStyle,   \* the colour of the last style that had one
  ch, received,
  crash        \* an assertion has failed

vars == <<sent, ink, wire, pc, starts, scratch, CurrentRow, buffer, lastStyle, ch, received, crash>>

Cols == 2 * Pixels
black == "black"
None == "none"
newline == <<"CR", "LF">>
home == <<"ESC", "H">>

\* ansi.Parse of a piece that has at most one escape, at its beginning: the
\* colour it sets and the text it shows.  It cannot read the frame start.
Parses(piece) == ~IsPrefix(home, piece)
Styled(piece) ==
  IF piece[1] = "ESC" THEN [fg |-> piece[2], label |-> SubSeq(piece, 3, Len(piece))]
                      ELSE [fg |-> None, label |-> piece]

\* The text at the end of a piece that is one character again and again, less
\* one when their number is odd: that one belongs to the frame start.
Trailing(piece) ==
  LET same == {i \in DOMAIN piece : \A j \in i .. Len(piece) : piece[j] = piece[Len(piece)]}
      n == Cardinality(same)
  IN SubSeq(piece, Len(piece) - (n \div 2) * 2 + 1, Len(piece))

\* The line cut before each of its escapes.
Pieces(line) ==
  LET cuts == {1} \cup {i \in DOMAIN line : line[i] = "ESC"}
      start == SetToSortSeq(cuts, <)
      end(k) == IF k = Len(start) THEN Len(line) ELSE start[k + 1] - 1
  IN IF line = <<>> THEN <<>> ELSE [k \in DOMAIN start |-> SubSeq(line, start[k], end(k))]

parseAnsiRow(line) ==
  [k \in DOMAIN Pieces(line) |->
     LET piece == Pieces(line)[k]
     IN IF Parses(piece) THEN Styled(piece) ELSE [fg |-> None, label |-> Trailing(piece)]]

\* Write's loops over the styles and their text: the colour that is current with
\* the n-th style, beginning with the colour of the rows before, and the row.
Colour(styles, n, colour) ==
  LET set == {k \in 1 .. n : styles[k].fg # None}
  IN IF set = {} THEN colour ELSE styles[Max(set)].fg
Drawn(styles, colour) ==
  FlattenSeq([n \in DOMAIN styles |-> [i \in DOMAIN styles[n].label |-> Colour(styles, n, colour)]])

fillRemainingRow(row) == row \o [i \in 1 .. Cols - Len(row) |-> black]

RemoveAsciiStyledPixels(frame) == [i \in 1 .. Len(frame) \div 2 |-> frame[2 * i - 1]]

Has(line, code) ==
  \E i \in 1 .. Len(line) - Len(code) + 1 : SubSeq(line, i, i + Len(code) - 1) = code

LineEnd(data) == CHOOSE i \in 1 .. Len(data) :
  /\ i < Len(data) /\ SubSeq(data, i, i + 1) = newline
  /\ \A j \in 1 .. i - 1 : SubSeq(data, j, j + 1) # newline

Picture == [1 .. Rows * Pixels -> Inks \cup {black}]
TypeOK ==
  /\ sent \in Seq(Picture) /\ received \in Seq(Picture) /\ Len(ch) <= ChanCap
  /\ CurrentRow \in 0 .. Rows /\ Len(buffer) = CurrentRow * Cols
  /\ lastStyle \in Inks \cup {None} /\ pc \in {"head", "chunk", "lines"}
  /\ ~crash

Init == /\ sent = <<>> /\ ink = None /\ wire = <<"head", "head">> /\ pc = "head"
        /\ starts \in BOOLEAN /\ scratch = <<>>
        /\ CurrentRow = 0 /\ buffer = <<>> /\ lastStyle = None
        /\ ch = <<>> /\ received = <<>> /\ crash = FALSE

\* What a row is meant to show: its characters in the colour set last.
IsCode(line, i) == line[i] \in Inks \/ (i > 1 /\ line[i - 1] = "ESC")
Before(line, n, colour) ==
  LET set == {i \in 1 .. n : line[i] \in Inks}
  IN IF set = {} THEN colour ELSE line[Max(set)]
Shown(line, colour) ==
  LET chars == SetToSortSeq({i \in DOMAIN line : line[i] # "ESC" /\ ~IsCode(line, i)}, <)
  IN [k \in DOMAIN chars |-> Before(line, chars[k], colour)]

\* The program draws a picture.  The first row of its first begins with a colour.
Paint ==
  /\ Len(sent) < MaxFrames
  /\ \E first \in FirstLines, others \in [2 .. Rows -> Lines] :
       LET line == <<first>> \o [r \in 1 .. Rows - 1 |-> others[r + 1]]
           text == FlattenSeq([r \in 1 .. Rows |-> line[r] \o newline])
           ended(r) == Before(FlattenSeq(SubSeq(line, 1, r)), Len(FlattenSeq(SubSeq(line, 1, r))), ink)
           shown == [r \in 1 .. Rows |->
                       fillRemainingRow(Shown(line[r], IF r = 1 THEN ink ELSE ended(r - 1)))]
       IN /\ (ink # None \/ first[4] \in Inks)
          /\ sent' = Append(sent, RemoveAsciiStyledPixels(FlattenSeq(shown)))
          /\ ink' = ended(Rows)
          /\ wire' = wire \o text
  /\ UNCHANGED <<pc, starts, scratch, CurrentRow, buffer, lastStyle, ch, received, crash>>

\* Doom.Write before it has a framer: the head is collected, and from the first
\* escape on the text is the framer's.
WriteHead ==
  /\ pc = "head"
  /\ \E n \in 1 .. ChunkSize :
       /\ n <= Len(wire)
       /\ LET data == SubSeq(wire, 1, n)
              escapes == {i \in DOMAIN data : data[i] = "ESC"}
          IN IF escapes = {} THEN UNCHANGED <<scratch, pc>>
             ELSE /\ scratch' = SubSeq(data, CHOOSE i \in escapes : \A j \in escapes : i <= j, n)
                  /\ pc' = "lines"
       /\ wire' = SubSeq(wire, n + 1, Len(wire))
  /\ UNCHANGED <<sent, ink, starts, CurrentRow, buffer, lastStyle, ch, received, crash>>

\* Seeded bug: a write begins with an empty scratch.
WriteForgets ==
  /\ pc = "chunk" /\ ~crash
  /\ \E n \in 1 .. ChunkSize :
       /\ n <= Len(wire)
       /\ scratch' = SubSeq(wire, 1, n)
       /\ wire' = SubSeq(wire, n + 1, Len(wire))
  /\ pc' = "lines"
  /\ UNCHANGED <<sent, ink, starts, CurrentRow, buffer, lastStyle, ch, received, crash>>

\* AnsiFramer.Write: what was left of earlier writes comes first.
Write ==
  /\ pc = "chunk" /\ ~crash
  /\ \E n \in 1 .. ChunkSize :
       /\ n <= Len(wire)
       /\ scratch' = scratch \o SubSeq(wire, 1, n)
       /\ wire' = SubSeq(wire, n + 1, Len(wire))
  /\ pc' = "lines"
  /\ UNCHANGED <<sent, ink, starts, CurrentRow, buffer, lastStyle, ch, received, crash>>

\* produceFrame: with all rows there, the frame goes to ch, when it has room.
produceFrame(frame) == /\ Len(ch) < ChanCap
                       /\ ch' = Append(ch, frame)

\* A line is complete: it may end the frame before it, or its own.  A row too
\* many, too long or without a colour, and a frame too short, end the program.
Line ==
  /\ pc = "lines" /\ ~crash /\ Has(scratch, newline)
  /\ \E end \in {LineEnd(scratch)} : \E styles \in {parseAnsiRow(SubSeq(scratch, 1, end - 1))} :
     \E row \in {Drawn(styles, lastStyle)} :
     LET begins == starts /\ Has(SubSeq(scratch, 1, end - 1), home) /\ CurrentRow > 0
         rows == IF begins THEN 1 ELSE CurrentRow + 1
         image == (IF begins THEN <<>> ELSE buffer) \o fillRemainingRow(row)
         full == ~starts /\ rows = Rows
     IN /\ scratch' = SubSeq(scratch, end + 2, Len(scratch))
        /\ lastStyle' = Colour(styles, Len(styles), lastStyle)
        /\ crash' = (\/ (begins /\ CurrentRow # Rows)
                     \/ Len(row) > Cols \/ rows > Rows
                     \/ None \in Range(row))
        /\ IF begins THEN produceFrame(buffer)
           ELSE IF full THEN produceFrame(image) ELSE UNCHANGED ch
        /\ buffer' = IF full THEN <<>> ELSE image
        /\ CurrentRow' = IF full THEN 0 ELSE rows
  /\ UNCHANGED <<sent, ink, wire, pc, starts, received>>

NoLine == /\ pc = "lines" /\ ~crash /\ ~Has(scratch, newline)
          /\ pc' = "chunk"
          /\ UNCHANGED <<sent, ink, wire, starts, scratch, CurrentRow, buffer, lastStyle, ch,
                         received, crash>>

\* The driver's loop takes a frame.
TakeFrame == /\ ch # <<>>
             /\ received' = Append(received, RemoveAsciiStyledPixels(Head(ch)))
             /\ ch' = Tail(ch)
             /\ UNCHANGED <<sent, ink, wire, pc, starts, scratch, CurrentRow, buffer, lastStyle,
                            crash>>

Next == Paint \/ WriteHead \/ Write \/ Line \/ NoLine \/ TakeFrame

\* With frame starts a frame is known to be whole when the next one begins.
Usable == IF starts /\ sent # <<>> THEN Front(sent) ELSE sent
=============================================================================
