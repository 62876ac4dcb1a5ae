------------------------------- MODULE Sweeper -------------------------------
(***************************************************************************)
(* memesweeper (vim-mate/examples/memesweeper): a minesweeper that a chat  *)
(* plays.  The goroutine of main opens and ends rounds, picks what the     *)
(* chat voted for, and resets a game that is over; a second goroutine adds *)
(* the chat's votes.  They share the board and the ChatAggregator, and no  *)
(* lock: the steps below are the assignments between which the other       *)
(* goroutine may run.  What the second one draws is modelled in Screen.    *)
(*                                                                         *)
(* A cell is a pair <<row, col>> from zero.  A chat message is a sequence  *)
(* of characters in upper case, a character <<"digit", n>>, <<"letter", n>> *)
(* with 0 for A, or <<"other", b>> with its first byte: what parsing tells *)
(* apart.                                                                  *)
(***************************************************************************)
EXTENDS Integers, Sequences, FiniteSetsExt, Functions

CONSTANTS Height, Width, Bombs,
          Messages,   \* what the chat may write
          MaxVotes    \* bound: votes that one round may count

\* init draws until a cell is neither the first pick nor a bomb already: its loop ends only if
\* enough cells are left.
ASSUME BoardAssumption ==
    /\ Height \in Nat \ {0} /\ Width \in Nat \ {0}
    /\ Bombs \in 1 .. Height * Width - 1
    /\ MaxVotes \in Nat

VARIABLES
    state,     \* of the board: INIT, PLAYING, LOSE or WIN
    bombs,     \* the cells with a bomb
    revealed,  \* the revealed cells
    revealCount,
    points,    \* the votes of the round: voted cells to counts
    max,       \* the point that leads
    active,    \* whether votes count
    main,      \* where the goroutine of main is
    tick,      \* where the goroutine of the votes is
    hold,      \* the point that Add has in hand
    point,     \* what Reset returned to EndRound
    panicked,  \* an index out of range has ended the program
    picked,    \* history: the cells picked in this game
    due,       \* history: the cells in the lead when Reset began
    raced      \* history: a vote was being added while Reset ran

board == <<state, bombs, revealed, revealCount>>
chat == <<points, max, active, hold>>
past == <<picked, due, raced>>
sweeper == <<board, chat, main, tick, point, panicked, past>>

Cells == (0 .. Height - 1) \X (0 .. Width - 1)
dirs == {<<-1, 0>>, <<1, 0>>, <<-1, 1>>, <<0, 1>>, <<1, 1>>, <<-1, -1>>, <<0, -1>>, <<1, -1>>}
AdjacentWithoutCorners(c) == \* Seeded bug: cells that touch at a corner are no neighbours.
    {<<c[1] + d[1], c[2] + d[2]>> : d \in {e \in dirs : 0 \in {e[1], e[2]}}} \cap Cells
Adjacent(c) == {<<c[1] + d[1], c[2] + d[2]>> : d \in dirs} \cap Cells

\* adjacentCount of a cell, the bombs given.  A bomb's own stays zero.
count(c, B) == IF c \in B THEN 0 ELSE Quantify(Adjacent(c), LAMBDA d : d \in B)

(***************************************************************************)
(* What is revealed when revealSpot(c) returns, R being revealed before: c *)
(* and, from a cell with no bomb about it, what its neighbours reveal in   *)
(* turn.  The recursion ends at cells that are revealed already.           *)
(***************************************************************************)
revealSpot(B) ==
    LET spot[at \in (SUBSET Cells) \X Cells] ==
          LET R == at[1]
              c == at[2]
          IN IF c \in R THEN R
             ELSE IF count(c, B) # 0 \/ c \in B THEN R \cup {c}
             ELSE FoldSet(LAMBDA d, acc : spot[<<acc, d>>], R \cup {c}, Adjacent(c))
    IN spot

DrawnAnywhere(c) == \* Seeded bug: the first pick may hold a bomb.
    {B \in SUBSET Cells : Cardinality(B) = Bombs}
\* The boards that init may draw for a first pick.
Drawn(c) == {B \in SUBSET (Cells \ {c}) : Cardinality(B) = Bombs}

GameOver == state \in {"LOSE", "WIN"}
ClearedEarly(n) == n >= Height * Width - Bombs - 1 \* Seeded bug: off by one.
Cleared(n) == n = Height * Width - Bombs

(***************************************************************************)
(* The chat.  FromA is col[0] - 'A', of bytes: what comes before A wraps.  *)
(***************************************************************************)
isCol(ch) == ch[1] = "letter"
FromA(ch) == CASE ch[1] = "letter" -> ch[2]
               [] ch[1] = "digit" -> (48 + ch[2] - 65) % 256
               [] OTHER -> (ch[2] - 65) % 256
Ordered(m) == IF isCol(m[1]) THEN <<m[2], m[1]>> ELSE m
ParseChatMessage(m) == Len(m) = 2 /\ Ordered(m)[1][1] = "digit"
Vote(m) == <<Ordered(m)[1][2] - 1, FromA(Ordered(m)[2])>>
Accepted(m) == ParseChatMessage(m) /\ Vote(m)[1] < Height /\ Vote(m)[2] < Width

\* The votes that parsing lets through, those off the board included.
Votes == {Vote(m) : m \in {n \in Messages : Accepted(n)}}

(***************************************************************************)
(* A Point is reached through pointers: while it is one of points, its     *)
(* count goes on counting ("live"); Reset drops the list, and those who    *)
(* still hold a point keep it with the count that it had.                  *)
(***************************************************************************)
NoPoint == [at |-> <<0, 0>>, n |-> 0, live |-> FALSE]
Count(p) == IF p.live THEN points[p.at] ELSE p.n
Dropped(p) == [at |-> p.at, n |-> Count(p), live |-> FALSE]
NoVotes == [c \in {} |-> 0]
Voted == FoldFunction(LAMBDA n, sum : n + sum, 0, points)
Leaders == {c \in DOMAIN points : \A d \in DOMAIN points : points[d] <= points[c]}

SweeperInit ==
    /\ state = "INIT" /\ bombs = {} /\ revealed = {} /\ revealCount = 0
    /\ points = NoVotes /\ max = NoPoint /\ active = FALSE /\ hold = NoPoint
    /\ main = "waiting" /\ tick = "select" /\ point = <<0, 0>> /\ panicked = FALSE
    /\ picked = {} /\ due = {} /\ raced = FALSE
-----------------------------------------------------------------------------
(* The goroutine that reads the chat. *)

\* A message arrives, and the game is not over.  What Chat refuses is dropped.
Receive(m) ==
    /\ tick = "select" /\ ~GameOver
    /\ Accepted(m) /\ Voted < MaxVotes
    /\ tick' = "voting" /\ hold' = [NoPoint EXCEPT !.at = Vote(m)]
    /\ UNCHANGED <<board, points, max, active, main, point, panicked, past>>

\* Add looks at active once.
AddVote ==
    /\ tick = "voting"
    /\ IF active THEN tick' = "adding" /\ UNCHANGED hold
                 ELSE tick' = "select" /\ hold' = NoPoint
    /\ UNCHANGED <<board, points, max, active, main, point, panicked, past>>

AddPoint ==
    /\ tick = "adding"
    /\ tick' = "added"
    /\ points' = [c \in DOMAIN points \cup {hold.at} |->
                    (IF c \in DOMAIN points THEN points[c] ELSE 0)
                    + (IF c = hold.at THEN 1 ELSE 0)]
    /\ hold' = [hold EXCEPT !.live = TRUE]
    /\ UNCHANGED <<board, max, active, main, point, panicked, past>>

Exceeds(p, q) == Count(p) < Count(q)

AddMax ==
    /\ tick = "added"
    /\ tick' = "select" /\ hold' = NoPoint
    /\ max' = IF Exceeds(max, hold) THEN hold ELSE max
    /\ UNCHANGED <<board, points, active, main, point, panicked, past>>
-----------------------------------------------------------------------------
(* The goroutine of main. *)

StartRound ==
    /\ main = "waiting"
    /\ main' = "round" /\ active' = TRUE
    /\ UNCHANGED <<board, points, max, hold, tick, point, panicked, past>>

\* EndRound closes the votes ...
CloseVotes ==
    /\ main = "round"
    /\ main' = "closed" /\ active' = FALSE
    /\ UNCHANGED <<board, points, max, hold, tick, point, panicked, past>>

\* ... drops the points: the first half of ChatAggregator.Reset, which Reset of the game calls
\* too ...
Races == raced \/ tick \in {"adding", "added"}
DropPoints(from, to) ==
    /\ main = from
    /\ main' = to
    /\ points' = NoVotes /\ max' = Dropped(max) /\ hold' = Dropped(hold)
    /\ due' = IF points = NoVotes THEN {<<0, 0>>} ELSE Leaders
    /\ raced' = Races
    /\ UNCHANGED <<board, active, tick, point, panicked, picked>>

TakeMaxStale(from, to) == \* Seeded bug: the leader stays for the next round.
    /\ main = from
    /\ main' = to
    /\ point' = max.at
    /\ raced' = Races
    /\ UNCHANGED <<board, points, max, active, hold, tick, panicked, picked, due>>
\* ... takes the point in the lead and starts with an empty one ...
TakeMax(from, to) ==
    /\ main = from
    /\ main' = to
    /\ point' = max.at /\ max' = NoPoint
    /\ raced' = Races
    /\ UNCHANGED <<board, points, active, hold, tick, panicked, picked, due>>

\* ... and picks the spot.  The first pick of a game draws the bombs.
PickSpot ==
    /\ main = "pick" /\ point \in Cells
    /\ \E B \in IF state = "INIT" THEN Drawn(point) ELSE {bombs} :
         LET R == revealSpot(B)[<<revealed, point>>]
             n == revealCount + Cardinality(R) - Cardinality(revealed)
         IN /\ bombs' = B /\ revealed' = R /\ revealCount' = n
            /\ state' = IF point \in B THEN "LOSE" ELSE IF Cleared(n) THEN "WIN" ELSE "PLAYING"
            /\ main' = IF state' = "PLAYING" THEN "waiting" ELSE "over"
    /\ picked' = picked \cup {point}
    /\ UNCHANGED <<chat, tick, point, panicked, due, raced>>

\* r.cells[row][col] with a row or column that is not there ends the process.
PickOffBoard ==
    /\ main = "pick" /\ point \notin Cells
    /\ main' = "crashed" /\ panicked' = TRUE
    /\ UNCHANGED <<board, chat, tick, point, past>>

RevealBombs ==
    /\ main = "over"
    /\ main' = "shown" /\ revealed' = revealed \cup bombs
    /\ UNCHANGED <<state, bombs, revealCount, chat, tick, point, panicked, past>>

\* The rest of Reset, after the chat's.
Reset ==
    /\ main = "reset"
    /\ main' = "waiting"
    /\ active' = FALSE
    /\ state' = "INIT" /\ bombs' = {} /\ revealed' = {} /\ revealCount' = 0
    /\ picked' = {}
    /\ UNCHANGED <<points, max, hold, tick, point, panicked, due, raced>>

EndRound ==
    \/ CloseVotes
    \/ DropPoints("closed", "dropped")
    \/ TakeMax("dropped", "pick")
    \/ PickSpot
    \/ PickOffBoard

ResetGame ==
    \/ DropPoints("shown", "resetting")
    \/ TakeMax("resetting", "reset")
    \/ Reset

Chat == (\E m \in Messages : Receive(m)) \/ AddVote \/ AddPoint \/ AddMax
Main == StartRound \/ EndRound \/ RevealBombs \/ ResetGame

\* A panic in one goroutine ends them all.
SweeperNext == ~panicked /\ (Chat \/ Main)

\* main waits for nothing but its clocks.  The chat may be silent.
SweeperSpec == SweeperInit /\ [][SweeperNext]_sweeper /\ WF_sweeper(~panicked /\ Main)
-----------------------------------------------------------------------------
Points == [at : Votes \cup {<<0, 0>>}, n : 0 .. 2 * MaxVotes, live : BOOLEAN]

\* Every variable stays in its type; a live point is one of the list.
GameTypeOK ==
    /\ state \in {"INIT", "PLAYING", "LOSE", "WIN"}
    /\ bombs \in SUBSET Cells /\ revealed \in SUBSET Cells
    /\ revealCount \in 0 .. Height * Width
    /\ DOMAIN points \in SUBSET Votes /\ \A c \in DOMAIN points : points[c] \in 1 .. MaxVotes
    /\ max \in Points /\ hold \in Points
    /\ \A p \in {max, hold} : p.live => p.at \in DOMAIN points
    /\ active \in BOOLEAN /\ panicked \in BOOLEAN /\ raced \in BOOLEAN
    /\ main \in {"waiting", "round", "closed", "dropped", "pick", "over", "shown",
                 "resetting", "reset", "crashed"}
    /\ tick \in {"select", "voting", "adding", "added"}

\* The game is won when, and only when, all that is hidden is bombs: PickSpot compares a count
\* that revealSpot has kept through every recursion and that a game must start from zero.
WonIsCleared ==
    /\ main \notin {"shown", "resetting", "reset"} => revealCount = Cardinality(revealed)
    /\ state = "PLAYING" => bombs \cap revealed = {} /\ Cells \ revealed # bombs
    /\ state = "WIN" /\ main = "over" => Cells \ revealed = bombs

\* What is revealed is exactly what the picks reveal by the rules: a picked cell, or one next to
\* a revealed cell that has no bomb about it; and all of those (revealSpot).
Touching(c) == {d \in Cells \ {c} : (d[1] - c[1]) \in -1 .. 1 /\ (d[2] - c[2]) \in -1 .. 1}
Open(c) == c \in revealed \ bombs /\ Touching(c) \cap bombs = {}
RevealedByRules ==
    state = "PLAYING" =>
        \A c \in Cells : c \in revealed <=> c \in picked \/ \E d \in Touching(c) : Open(d)

\* The first pick of a game never loses it, and finds all its bombs laid (init).
FirstPickIsSafe ==
    [][state = "INIT" /\ state' # "INIT" => state' # "LOSE" /\ Cardinality(bombs') = Bombs]_sweeper

\* max leads whenever no vote is half added: nobody has more votes, and without votes it is the
\* empty point (ChatAggregator.Add; its max is a pointer into the points, moved only when passed).
MaxLeads ==
    ~raced /\ tick # "added" /\ main # "dropped" =>
        /\ \A c \in DOMAIN points : points[c] <= Count(max)
        /\ Count(max) = 0 => max.at = <<0, 0>>

\* EndRound picks a cell that led the votes of its own round, or the first cell if there were
\* none: no vote of an earlier round decides.  That holds as long as no vote is being added
\* while Reset runs: nothing orders the two goroutines, and a vote that slips in leads the next
\* round from the start, or is lost.
PicksTheLeader ==
    [][(PickSpot \/ PickOffBoard) /\ ~raced => point \in due]_sweeper

\* A game that is over is followed by another one, unless the process has ended.
GamesRestart == GameOver ~> (state = "INIT" \/ panicked)

\* A game goes by the rules of the board, and its votes by the count.
GameByRules == GameTypeOK /\ WonIsCleared /\ RevealedByRules /\ MaxLeads

\* Every pick is the votes', the first one is safe, and the one that ends a game starts another.
PicksByRules == FirstPickIsSafe /\ PicksTheLeader /\ GamesRestart
=============================================================================
