------------------------------ MODULE TowerVotes ------------------------------
(***************************************************************************)
(* The older tower defense (pkg/tower_defense, cmd/tower_defense): one     *)
(* goroutine adds the chat's votes for places, and the main one builds a   *)
(* tower at the most voted place every ten seconds.  They share the points *)
(* and max, a struct that is copied field by field, without a lock.        *)
(*                                                                         *)
(* A place is <<row, col>>; a pointer to a point is its index in allPoints. *)
(***************************************************************************)
EXTENDS Naturals, SequencesExt

CONSTANTS Voted,         \* what the chat writes: places, and <<>>
          BoardRows, BoardCols,
          MaxPlaceVotes, \* bound: votes
          MaxTicks       \* bound: ticks

ASSUME PlacesAssumption ==
  /\ Voted \subseteq (Nat \X Nat) \cup {<<>>}
  /\ {BoardRows, BoardCols, MaxPlaceVotes, MaxTicks} \subseteq Nat

VARIABLES
  allPoints,           \* every point there was: its place and count
  points, top,         \* ChatAggregator: points, and max as <<row, col, count>>
  voting, place, point, seen, \* the chat's goroutine: where Add is, its place and point, and
                       \* the points that append has read
  ticking, tile,       \* the main goroutine: where Tick is, and what it has read of max
  towers,              \* each tower's Count, by its place
  heard, ticks,
  ballots,             \* history: votes for each place in this round
  before, now,         \* history: places voted for in the last round, and in this one
  crossed, met         \* history: this Reset, this round met an Add

aggregator == <<allPoints, points, top>>
adder == <<voting, place, point, seen>>
ticker == <<ticking, tile, towers, ticks>>
noted == <<ballots, before, now, crossed, met>>
tvars == <<aggregator, adder, ticker, heard, noted>>

Corner == <<0, 0>>
NoMax == <<0, 0, 0>>

TowersTypeOK ==
  /\ \A i \in DOMAIN allPoints : allPoints[i].place \in Voted /\ allPoints[i].count \in 1 .. MaxPlaceVotes
  /\ Range(points) \subseteq DOMAIN allPoints /\ top[3] \in 0 .. MaxPlaceVotes
  /\ voting \in {"idle", "add", "append", "compare", "row", "col", "count"}
  /\ ticking \in {"idle", "row", "col", "clearRow", "clearCol", "clearCount", "build"}

\* NewTD.
TowersInit ==
  /\ allPoints = <<>> /\ points = <<>> /\ top = NoMax
  /\ voting = "idle" /\ place = Corner /\ point = 0 /\ seen = <<>>
  /\ ticking = "idle" /\ tile = Corner /\ towers = <<>> /\ ticks = 0
  /\ heard = 0
  /\ ballots = [p \in Voted |-> 0] /\ before = {} /\ now = {} /\ crossed = FALSE /\ met = FALSE
-----------------------------------------------------------------------------
(* LinkChatToTowerDefense and Add *)

\* The channel of NewTwitchChat has no room: the goroutine takes a message when it is idle.
TakeMessage == voting = "idle" /\ heard < MaxPlaceVotes /\ heard' = heard + 1

\* ParseChatMessage fails for what is no place, <<>>.
IsPlace(p) == p # <<>>
\* The row and the column behind the end of the board pass for places.
InBoard(p) == p[1] <= BoardRows /\ p[2] <= BoardCols

NewChatMsg(p) ==
  /\ TakeMessage
  /\ IF IsPlace(p) /\ InBoard(p)
     THEN /\ voting' = "add" /\ place' = p
          /\ now' = now \cup {p} /\ crossed' = (crossed \/ ticking # "idle")
     ELSE UNCHANGED <<voting, place, now, crossed>>
  /\ UNCHANGED <<aggregator, point, seen, ticker, ballots, before, met>>

\* A point that is there gets one more vote; a new one is made, with its first.
FindPoint ==
  /\ voting = "add"
  /\ ballots' = [ballots EXCEPT ![place] = @ + 1]
  /\ LET found == {i \in Range(points) : allPoints[i].place = place}
     IN IF found = {}
        THEN /\ allPoints' = Append(allPoints, [place |-> place, count |-> 1])
             /\ point' = Len(allPoints') /\ seen' = points /\ voting' = "append"
        ELSE /\ point' = CHOOSE i \in found : TRUE
             /\ allPoints' = [allPoints EXCEPT ![point'].count = @ + 1]
             /\ voting' = "compare" /\ UNCHANGED seen
  /\ UNCHANGED <<points, top, place, ticker, heard, before, now, crossed, met>>

\* Seeded bug: a new place is the most voted one.
AppendPointMax ==
  /\ voting = "append"
  /\ points' = Append(seen, point)
  /\ voting' = "row" /\ seen' = <<>> /\ UNCHANGED <<place, point>>
  /\ UNCHANGED <<allPoints, top, ticker, heard, noted>>
\* It is not compared with max.
AppendPoint ==
  /\ voting = "append"
  /\ points' = Append(seen, point)
  /\ voting' = "idle" /\ place' = Corner /\ point' = 0 /\ seen' = <<>>
  /\ UNCHANGED <<allPoints, top, ticker, heard, noted>>

ComparePoint ==
  /\ voting = "compare"
  /\ IF top[3] < allPoints[point].count
     THEN voting' = "row" /\ UNCHANGED <<place, point>>
     ELSE voting' = "idle" /\ place' = Corner /\ point' = 0
  /\ UNCHANGED <<aggregator, seen, ticker, heard, noted>>

\* max = *p, a field at a time.
CopyPoint ==
  /\ \/ voting = "row" /\ top' = [top EXCEPT ![1] = place[1]] /\ voting' = "col"
        /\ UNCHANGED <<place, point>>
     \/ voting = "col" /\ top' = [top EXCEPT ![2] = place[2]] /\ voting' = "count"
        /\ UNCHANGED <<place, point>>
     \/ /\ voting = "count" /\ top' = [top EXCEPT ![3] = allPoints[point].count]
        /\ voting' = "idle" /\ place' = Corner /\ point' = 0
  /\ UNCHANGED <<allPoints, points, seen, ticker, heard, noted>>
-----------------------------------------------------------------------------
(* Tick, with Reset *)

ResetPoints ==
  /\ ticking = "idle" /\ ticks < MaxTicks
  /\ points' = <<>> /\ ticks' = ticks + 1
  /\ ticking' = "row" /\ crossed' = (voting # "idle")
  /\ UNCHANGED <<allPoints, top, adder, tile, towers, heard, ballots, before, now, met>>

ReadTop ==
  /\ \/ ticking = "row" /\ tile' = <<top[1], 0>> /\ ticking' = "col"
     \/ ticking = "col" /\ tile' = <<tile[1], top[2]>> /\ ticking' = "clearRow"
  /\ UNCHANGED <<aggregator, adder, towers, ticks, heard, noted>>

\* Seeded bug: max is not forgotten.
ClearTopNot ==
  /\ ticking = "clearRow" /\ ticking' = "build"
  /\ UNCHANGED <<aggregator, adder, tile, towers, ticks, heard, noted>>
ClearTop ==
  /\ \/ ticking = "clearRow" /\ top' = [top EXCEPT ![1] = 0] /\ ticking' = "clearCol"
     \/ ticking = "clearCol" /\ top' = [top EXCEPT ![2] = 0] /\ ticking' = "clearCount"
     \/ ticking = "clearCount" /\ top' = [top EXCEPT ![3] = 0] /\ ticking' = "build"
  /\ UNCHANGED <<allPoints, points, adder, tile, towers, ticks, heard, noted>>

Raise(counts, t) == [counts EXCEPT ![t] = @ + 1]
\* A tower that is there is counted up; otherwise a new one is built, and drawn.
BuildTower(t) ==
  towers' = IF t \in DOMAIN towers THEN Raise(towers, t)
            ELSE [p \in DOMAIN towers \cup {t} |-> IF p = t THEN 1 ELSE towers[p]]

\* What nobody points to is garbage.
Build ==
  /\ ticking = "build" /\ ticking' = "idle" /\ tile' = Corner
  /\ BuildTower(tile)
  /\ allPoints' = IF voting = "idle" /\ points = <<>> THEN <<>> ELSE allPoints
  /\ ballots' = [p \in Voted |-> 0]
  /\ before' = now /\ now' = IF voting = "idle" THEN {} ELSE {place}
  /\ met' = crossed /\ crossed' = FALSE
  /\ UNCHANGED <<points, top, adder, ticks, heard>>
-----------------------------------------------------------------------------
AddVote == FindPoint \/ AppendPoint \/ ComparePoint \/ CopyPoint
Tick == ResetPoints \/ ReadTop \/ ClearTop \/ Build
TowersNext == (\E p \in Voted : NewChatMsg(p)) \/ AddVote \/ Tick
-----------------------------------------------------------------------------
(* Properties *)

\* Every tick builds one tower, or counts one up.
EveryTickBuilds == FoldFunction(+, 0, towers) + (IF ticking = "idle" THEN 0 ELSE 1) = ticks

\* Unless an Add was under way during this Reset or the last one, the tower of a round is built
\* where most votes of the round went, if a place had two, and at the corner if none had.
TowerWhereVoted ==
  [][Build /\ ~crossed /\ ~met =>
       IF \E p \in Voted : ballots[p] >= 2
       THEN tile \in Voted /\ \A p \in Voted : ballots[p] <= ballots[tile]
       ELSE tile = Corner]_tvars

\* Whatever the goroutines do to each other, the row of a tower and its column were voted for
\* since the round before, or are zero; they may be those of two places.
NoOldTower ==
  [][Build => \A i \in 1 .. 2 : tile[i] \in {0} \cup {p[i] : p \in before \cup now}]_tvars
=============================================================================
