------------------------------ MODULE Quadtree -------------------------------
(***************************************************************************)
(* The quadtree over a frame (pkg/v2/ascii_buffer/virtual_box.go): Params  *)
(* are [Depth, Rows, Cols, Stride], a box is [row, col, rows, cols] in     *)
(* bytes, and an iterator of it reads a value of Stride bytes at a time.   *)
(***************************************************************************)
EXTENDS Naturals, SequencesExt

CONSTANT Shapes \* the parameters that are used

LOCAL Box(row, col, rows, cols) == [row |-> row, col |-> col, rows |-> rows, cols |-> cols]

newVirtualBox(p) == Box(0, 0, p.Rows, p.Cols)
Translate(row, col, cols) == row * cols + col

\* quad's assertions: its lower right corner is in the buffer.
CanQuad(p, b) ==
    /\ b.rows >= 2 /\ b.cols >= 2
    /\ Translate(b.row + b.rows - 1, b.col + b.cols - 1, p.Cols) < p.Rows * p.Cols

QuadHalves(p, b) == \* Seeded bug: both halves are as wide, and as high.
    LET rows == b.rows \div 2
        half == b.cols \div 2
        cols == half - (half % p.Stride)
    IN <<Box(b.row, b.col, rows, cols), Box(b.row, b.col + cols, rows, cols),
         Box(b.row + rows, b.col, rows, cols), Box(b.row + rows, b.col + cols, rows, cols)>>
\* What halving leaves over goes to the right and to the bottom; no value is cut in two.
quad(p, b) ==
    LET rows == b.rows \div 2
        half == b.cols \div 2
        cols == half - (half % p.Stride)
    IN <<Box(b.row, b.col, rows, cols), Box(b.row, b.col + cols, rows, b.cols - cols),
         Box(b.row + rows, b.col, b.rows - rows, cols),
         Box(b.row + rows, b.col + cols, b.rows - rows, b.cols - cols)>>

\* The boxes of each depth.
partition(p) ==
    LET boxes[d \in 0 .. p.Depth] ==
          IF d = 0 THEN <<newVirtualBox(p)>>
          ELSE FlattenSeq([i \in DOMAIN boxes[d - 1] |-> quad(p, boxes[d - 1][i])])
    IN boxes
Partition(p) == partition(p)[p.Depth]

VARIABLES shape, \* the parameters
          box,   \* the number of the box whose iterator runs
          it,    \* its iterRow, iterCol and res.Done; has an assertion of Next failed?
          read   \* history: the indexes that were read

Reset == [row |-> 0, col |-> 0, done |-> FALSE, failed |-> FALSE]
Current == Partition(shape)[box]
idx == Translate(Current.row + it.row, Current.col + it.col, shape.Cols)

TreeInit == shape \in Shapes /\ box = 1 /\ it = Reset /\ read = <<>>

\* Next reads a value, and asserts that its number of the row is no greater than the
\* number of columns.
NextValue ==
    /\ ~it.done /\ ~it.failed
    /\ idx < shape.Rows * shape.Cols /\ it.row <= Current.cols
    /\ read' = Append(read, idx)
    /\ it' = IF it.col + shape.Stride = Current.cols
             THEN [it EXCEPT !.row = @ + 1, !.col = 0, !.done = it.row + 1 = Current.rows]
             ELSE [it EXCEPT !.col = @ + shape.Stride]
    /\ UNCHANGED <<shape, box>>

\* An assertion of Next ends the process.
NextFails ==
    /\ ~it.done /\ ~it.failed
    /\ idx >= shape.Rows * shape.Cols \/ it.row > Current.cols
    /\ it' = [it EXCEPT !.failed = TRUE]
    /\ UNCHANGED <<shape, box, read>>

NextBox ==
    /\ it.done /\ box < Len(Partition(shape))
    /\ box' = box + 1 /\ it' = Reset
    /\ UNCHANGED <<shape, read>>

TreeNext == NextValue \/ NextFails \/ NextBox
-----------------------------------------------------------------------------
Narrow(b) == b.rows > b.cols + 1

\* A frame of whole values, of at least one in each direction for every box, is cut without an
\* assertion of quad, and the iterators of its boxes, one after the other, never leave the
\* buffer and read every value of the frame once; an assertion of Next fails in a box that has
\* more rows than columns, by two or more, and in no other.
EveryValueOnce ==
    /\ \A d \in 0 .. shape.Depth - 1 : \A i \in DOMAIN partition(shape)[d] :
         CanQuad(shape, partition(shape)[d][i])
    /\ IsInjective(read)
    /\ ~it.done => idx < shape.Rows * shape.Cols
    /\ it.failed => Narrow(Current)
    /\ it.done => ~Narrow(Current)
    /\ it.done /\ box = Len(Partition(shape)) =>
         Range(read) = {n \in 0 .. shape.Rows * shape.Cols - 1 : n % shape.Stride = 0}
=============================================================================
