------------------------------ MODULE Renderer ------------------------------
(***************************************************************************)
(* vim-mate/pkg/window/renderer.go: things with a height are drawn over    *)
(* each other into a buffer, and the buffer is compared with what was sent *)
(* before.  A cell is [v, bg]: its value (with the colour it is drawn in)  *)
(* and its background.                                                     *)
(***************************************************************************)
EXTENDS Integers, Sequences, SequencesExt

CONSTANTS Rows, Cols

ASSUME WindowAssumption == Rows \in 1 .. 255 /\ Cols \in 1 .. 255

Idxs == 0 .. Rows * Cols - 1

\* CELL_VALUE_NO_PLACE and CELL_VALUE_BACKGROUND_COLOR_ONLY are values of their own.
Blank == [v |-> " ", bg |-> "default"]
EmptyCell == [v |-> "no place", bg |-> "default"]
BackgroundCellOnly(color) == [v |-> "background", bg |-> color]
IsEmpty(cell) == cell.v = "no place"

\* What cell becomes when new is put over it.
Merge(cell, new) ==
    CASE IsEmpty(new) -> cell
      [] new.v = "background" -> [cell EXCEPT !.bg = new.bg]
      [] OTHER -> new

\* Where the cell at offset o of a thing at loc lies; off the window it is left out.
exceeds(loc, o) ==
    \/ loc[1] + o[1] >= Rows \/ loc[2] + o[2] >= Cols
    \/ loc[1] + o[1] < 0 \/ loc[2] + o[2] < 0
translate(loc, o) == (loc[1] + o[1]) * Cols + loc[2] + o[2]
translateFromIdx(i) == <<i \div Cols, i % Cols>>

(***************************************************************************)
(* A thing is [z, loc, cells], cells a function of offsets, empty for nil. *)
(* place draws it.                                                         *)
(***************************************************************************)
place(buffer, thing) ==
    LET over == {o \in DOMAIN thing.cells : ~exceeds(thing.loc, o)}
    IN [i \in Idxs |->
          IF \E o \in over : translate(thing.loc, o) = i
          THEN Merge(buffer[i],
                     thing.cells[CHOOSE o \in over : translate(thing.loc, o) = i])
          ELSE buffer[i]]

SpotFromTop(zs, z) == \* Seeded bug: the two halves are swapped.
    LET search[lo \in 0 .. Len(zs), hi \in 0 .. Len(zs)] ==
          LET mid == lo + (hi - lo) \div 2 IN
          CASE lo >= hi -> lo
            [] zs[mid + 1] = z -> mid
            [] zs[mid + 1] > z -> search[mid + 1, hi]
            [] OTHER -> search[lo, mid]
    IN search[0, Len(zs)]
\* The index at which Add inserts a thing of height z: a binary search between lo and hi.
Spot(zs, z) ==
    LET search[at \in (0 .. Len(zs)) \X (0 .. Len(zs))] ==
          LET lo == at[1]
              hi == at[2]
              mid == lo + (hi - lo) \div 2
          IN IF lo >= hi THEN lo
             ELSE CASE zs[mid + 1] = z -> mid
                    [] zs[mid + 1] < z -> search[<<mid + 1, hi>>]
                    [] OTHER -> search[<<lo, mid>>]
    IN search[<<0, Len(zs)>>]
Add(zs, z) == InsertAt(zs, Spot(zs, z) + 1, z)

\* The first half of Render: everything is placed, the lowest first.
Placed(buffer, things) == FoldLeft(place, buffer, things)

ChangesOfColor(buffer, previous) == \* Seeded bug: the same background is taken for the same cell.
    [i \in {j \in Idxs : buffer[j].bg # previous[j].bg /\ ~IsEmpty(buffer[j])} |-> buffer[i]]
\* The second half: the cells that differ from what was sent, which previous takes over.
Changes(buffer, previous) ==
    [i \in {j \in Idxs : buffer[j] # previous[j] /\ ~IsEmpty(buffer[j])} |-> buffer[i]]
Merged(picture, cells) ==
    [i \in Idxs |-> IF i \in DOMAIN cells THEN Merge(picture[i], cells[i]) ELSE picture[i]]

\* FullRender sends what was sent before; the windows of both ends start blank.
FullRender(previous) == previous
NewRender == [i \in Idxs |-> Blank]
clean == [i \in Idxs |-> EmptyCell]
=============================================================================
