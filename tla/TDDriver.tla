------------------------------- MODULE TDDriver -------------------------------
(***************************************************************************)
(* The program that plays the tower-defense engine (examples/v2/td):       *)
(* main's loop, a player per team, each with a goroutine that finds        *)
(* positions and a mover that writes them, and the engine at the other end *)
(* of two pipes.  Of the engine it uses what TDRounds promises.            *)
(*                                                                         *)
(* A list of positions is the number of the round it was made for, and     *)
(* NoList when it is empty.  A line is written as its text and its end,    *)
(* and three goroutines write lines without a lock.                        *)
(***************************************************************************)
EXTENDS TDRounds, SequencesExt

CONSTANTS Pairings,   \* the two players' kinds: "box", "rand", "ai", "twitch"
          OutCap,     \* capacity of out (10)
          MaxPolls,   \* bound: lists that a twitch player sends in a round
          MaxRounds   \* bound: rounds

Teams == {1, 2}
Writers == {0, 1, 2}   \* main and the movers
NoList == 0

ASSUME DriverAssumption ==
  /\ Pairings \subseteq [Teams -> {"box", "rand", "ai", "twitch"}]
  /\ OutCap \in Nat \ {0} /\ MaxRounds \in Nat \ {0}

VARIABLES
  kind,
  known,      \* engine: onePositions, twoPositions
  lines, open,  \* to the engine: whole lines of texts, and the line without an end
  stderr,     \* from it: reports
  Gs,         \* reports that the parser understood
  pc,         \* main
  cancelled,  \* the round's context is
  unended,    \* of each writer: its line has no end yet
  asked,      \* of each player: where its goroutine is
  polls,      \* of each player: lists sent in this round
  created,    \* of each AI player: towersCreatedThisRound is what it may be
  out, done,  \* of each mover: its channels
  moving,     \* of each mover: it selects
  torn,       \* history: in this round two texts came to stand in one line
  dropped,    \* history: a report came in a read with something else
  late        \* history: a mover has written after its round was cancelled

engine == <<stage, round, owed, known>>
player == <<asked, polls, created>>
move == <<out, done, moving>>
history == <<torn, dropped, late>>
dvars == <<vars, kind, known, lines, open, stderr, Gs, pc, cancelled, unended, player, move, history>>

Lists == 0 .. MaxRounds
Positions(t, made) == [c |-> "positions", team |-> t, made |-> made]
Countdown == [c |-> "countdown"]
Play == [c |-> "play"]

DriverTypeOK ==
  /\ stage \in {"waiting", "playing", "finished", "failed"} /\ round \in 1 .. MaxRounds
  /\ known \in [Teams -> Lists] /\ Len(Gs) <= 1
  /\ pc \in {"report", "countdown", "select", "end1", "end2", "play", "over"}
  /\ asked \in [Teams -> {"off", "thinking", "checked", "sent", "polling"}]
  /\ moving \in [Teams -> BOOLEAN]
  /\ \A t \in Teams : Len(out[t]) <= OutCap

DriverInit ==
  /\ Init
  /\ kind \in Pairings
  /\ known = [t \in Teams |-> NoList] /\ lines = <<>> /\ open = <<>> /\ stderr = <<"waiting">>
  /\ Gs = <<>> /\ pc = "report" /\ cancelled = FALSE /\ unended = [w \in Writers |-> FALSE]
  /\ asked = [t \in Teams |-> "off"] /\ polls = [t \in Teams |-> 0]
  /\ created = [t \in Teams |-> FALSE]
  /\ out = [t \in Teams |-> <<>>] /\ done = [t \in Teams |-> FALSE]
  /\ moving = [t \in Teams |-> FALSE]
  /\ torn = FALSE /\ dropped = FALSE /\ late = FALSE

\* Cmder.WriteLine: the text, and in a second write the line's end.
WriteText(w, text) ==
  /\ ~unended[w]
  /\ open' = Append(open, text)
  /\ unended' = [unended EXCEPT ![w] = TRUE]
  /\ torn' = (torn \/ open # <<>>)
  /\ UNCHANGED lines
WriteEnd(w) ==
  /\ unended[w]
  /\ lines' = (IF open = <<>> THEN lines ELSE Append(lines, open)) /\ open' = <<>>
  /\ unended' = [unended EXCEPT ![w] = FALSE]
  /\ UNCHANGED <<engine, kind, stderr, Gs, pc, cancelled, player, move, history>>
-----------------------------------------------------------------------------
(* The engine, and the parser of what it reports *)

\* Seeded bug: the positions of the round stay.
ReadPlayKeeps ==
  \/ /\ round = 1 \/ \A t \in Teams : known[t] # NoList
     /\ Placed
     /\ UNCHANGED known
  \/ /\ \E t \in Teams : known[t] = NoList
     /\ Fail
     /\ UNCHANGED known

\* The towers are placed where the players said; where one has said nothing it is
\* an undefined value, which the engine may get away with in its first round.
ReadPlay ==
  \/ /\ round = 1 \/ \A t \in Teams : known[t] # NoList
     /\ Placed
     /\ known' = [t \in Teams |-> NoList]
  \/ /\ \E t \in Teams : known[t] = NoList
     /\ Fail
     /\ UNCHANGED known

\* The list that a line of positions brings, if any: an empty list is no message.
ReadPositions(line) ==
  LET lists == {x.made : x \in {y \in Range(line) : y.c = "positions"}} \ {NoList}
  IN /\ known' = IF lists = {} THEN known
                 ELSE [known EXCEPT ![line[1].team] = Max(lists)]
     /\ UNCHANGED vars

\* Its input thread and a frame that does not play: a line is taken.  A countdown that
\* is no number ends the engine, and "p" with anything behind it is no message.
EngineReads ==
  /\ stage = "waiting" /\ owed /\ lines # <<>>
  /\ lines' = Tail(lines)
  /\ LET line == Head(lines)
     IN \/ line[1].c = "positions" /\ ReadPositions(line)
        \/ line = <<Play>> /\ ReadPlay
        \/ line[1].c = "countdown" /\ Len(line) > 1 /\ Fail /\ UNCHANGED known
        \/ line = <<Countdown>> /\ UNCHANGED <<vars, known>>
        \/ line[1].c = "play" /\ Len(line) > 1 /\ UNCHANGED <<vars, known>>
  /\ UNCHANGED <<open, kind, stderr, Gs, pc, cancelled, unended, player, move, history>>

\* The engine starts a round, ends it, or ends, and reports it.
EngineGoesOn ==
  /\ \/ Start /\ stderr' = Append(stderr, "playing")
     \/ End /\ round < MaxRounds /\ stderr' = Append(stderr, "waiting")
     \/ Finish /\ stage = "playing" /\ stderr' = Append(stderr, "finished")
  /\ UNCHANGED <<known, kind, lines, open, Gs, pc, cancelled, unended, player, move, history>>

\* Seeded bug: a report that the driver has not taken yet is overwritten.
ParseOverwrites ==
  /\ stderr # <<>> /\ stderr' = Tail(stderr)
  /\ \/ Gs' = <<Head(stderr)>> /\ UNCHANGED dropped
     \/ dropped' = (dropped \/ Head(stderr) # "playing") /\ UNCHANGED Gs
  /\ UNCHANGED <<engine, kind, lines, open, pc, cancelled, unended, player, move, torn, late>>

\* CmdErrParser.Parse: a read that brings just a report, and it is passed on, or the
\* report with what the engine wrote before or after it, and that is only logged.
Parse ==
  /\ stderr # <<>> /\ stderr' = Tail(stderr)
  /\ \/ Gs = <<>> /\ Gs' = <<Head(stderr)>> /\ UNCHANGED dropped
     \/ dropped' = (dropped \/ Head(stderr) # "playing") /\ UNCHANGED Gs
  /\ UNCHANGED <<engine, kind, lines, open, pc, cancelled, unended, player, move, torn, late>>
-----------------------------------------------------------------------------
(* Players *)

\* StreamResults of each kind, which StreamMoves calls: the box player has put
\* everything into the channels when it returns, the others start a goroutine.
StreamResults(t) == CASE kind[t] = "box" -> "off"
                      [] kind[t] = "rand" -> "checked"
                      [] kind[t] = "ai" -> "thinking"
                      [] kind[t] = "twitch" -> "polling"

\* An AI player has its positions and finds the context not done; until then it
\* asks again and again.
Answer(t) ==
  /\ asked[t] = "thinking" /\ ~cancelled
  /\ asked' = [asked EXCEPT ![t] = "checked"]
  /\ UNCHANGED <<engine, kind, lines, open, stderr, Gs, pc, cancelled, unended, polls, created, move,
                 history>>

\* It sends them, then counts the towers (EndRound may look in between) and is
\* done.  A random player sends and is done.
SendAnswer(t) ==
  /\ \/ /\ asked[t] = "checked" /\ Len(out[t]) < OutCap
        /\ out' = [out EXCEPT ![t] = Append(@, round)]
        /\ asked' = [asked EXCEPT ![t] = "sent"]
        /\ UNCHANGED <<created, done>>
     \/ /\ asked[t] = "sent"
        /\ created' = [created EXCEPT ![t] = TRUE]
        /\ done' = [done EXCEPT ![t] = TRUE]
        /\ asked' = [asked EXCEPT ![t] = "off"]
        /\ UNCHANGED out
  /\ UNCHANGED <<engine, kind, lines, open, stderr, Gs, pc, cancelled, unended, polls, moving, history>>

\* Every second a twitch player sends the places with the most votes, if any.
Poll(t) ==
  /\ asked[t] = "polling" /\ ~cancelled /\ polls[t] < MaxPolls /\ Len(out[t]) < OutCap
  /\ \E made \in {NoList, round} : out' = [out EXCEPT ![t] = Append(@, made)]
  /\ polls' = [polls EXCEPT ![t] = @ + 1]
  /\ UNCHANGED <<engine, kind, lines, open, stderr, Gs, pc, cancelled, unended, asked, created, done,
                 moving, history>>

\* A goroutine that waited sees that the round is over.
GiveUp(t) ==
  /\ cancelled
  /\ asked[t] \in {"polling", "thinking"}
  /\ asked' = [asked EXCEPT ![t] = "off"] /\ polls' = [polls EXCEPT ![t] = 0]
  /\ UNCHANGED <<engine, kind, lines, open, stderr, Gs, pc, cancelled, unended, created, move, history>>

\* StreamMoves takes a list and writes it, or leaves: done, or cancelled.
WritePositions(t) ==
  /\ moving[t] /\ out[t] # <<>>
  /\ WriteText(t, Positions(t, Head(out[t])))
  /\ out' = [out EXCEPT ![t] = Tail(@)]
  /\ late' = (late \/ cancelled)
  /\ UNCHANGED <<engine, kind, stderr, Gs, pc, cancelled, player, done, moving, dropped>>

Leave(t) ==
  /\ moving[t] /\ ~unended[t] /\ (done[t] \/ cancelled)
  /\ moving' = [moving EXCEPT ![t] = FALSE]
  /\ out' = [out EXCEPT ![t] = <<>>] /\ done' = [done EXCEPT ![t] = FALSE]
  /\ UNCHANGED <<engine, kind, lines, open, stderr, Gs, pc, cancelled, unended, player, history>>
-----------------------------------------------------------------------------
(* main *)

\* Seeded bug: the players are asked while a round is played.
SkippedNever(report) == FALSE

\* The report that a round has started.
Skipped(report) == report = "playing"

\* A report: the game is over, a round plays, or the players are asked.
Report ==
  /\ pc = "report" /\ Gs # <<>> /\ ~unended[0]
  /\ Gs' = Tail(Gs)
  /\ CASE Head(Gs) = "finished" -> pc' = "over" /\ UNCHANGED <<cancelled, player, move, torn>>
       [] Skipped(Head(Gs)) -> UNCHANGED <<pc, cancelled, player, move, torn>>
       [] OTHER ->
            /\ \A t \in Teams : ~moving[t] /\ asked[t] = "off"  \* a round takes longer
            /\ pc' = "countdown" /\ cancelled' = FALSE
            /\ created' = [t \in Teams |-> FALSE] /\ torn' = FALSE
            /\ asked' = [t \in Teams |-> StreamResults(t)]
            /\ moving' = [t \in Teams |-> TRUE]
            /\ out' = [t \in Teams |-> IF kind[t] = "box" THEN <<round>> ELSE <<>>]
            /\ done' = [t \in Teams |-> kind[t] = "box"]
            /\ UNCHANGED polls
  /\ UNCHANGED <<engine, kind, lines, open, stderr, unended, dropped, late>>

StartCountdown ==
  /\ pc = "countdown" /\ WriteText(0, Countdown)
  /\ pc' = "select"
  /\ UNCHANGED <<engine, kind, stderr, Gs, cancelled, player, move, dropped, late>>

\* EndRound has something to do for AI players only.
EndOf(t) == IF t = 1 THEN "end1" ELSE "end2"
Ending(from) == LET still == {t \in Teams : t >= from /\ kind[t] = "ai"}
                IN IF still = {} THEN "play" ELSE EndOf(Min(still))

\* Seeded bug: there is no time limit.
EndMovesUntimed ==
  /\ pc = "select" /\ ~unended[0] /\ \A t \in Teams : ~moving[t]
  /\ cancelled' = TRUE /\ pc' = Ending(1)
  /\ UNCHANGED <<engine, kind, lines, open, stderr, Gs, unended, player, move, history>>

\* The time is up, or both movers have ended.
EndMoves ==
  /\ pc = "select" /\ ~unended[0]
  /\ cancelled' = TRUE /\ pc' = Ending(1)
  /\ UNCHANGED <<engine, kind, lines, open, stderr, Gs, unended, player, move, history>>

\* Seeded bug: a player that has not answered is not made up for.
EndRoundTrusts(t) ==
  /\ pc = EndOf(t) /\ ~unended[0]
  /\ pc' = Ending(t + 1)
  /\ IF created[t] \/ asked[t] = "thinking" THEN UNCHANGED <<lines, open, unended, torn>>
     ELSE WriteText(0, Positions(t, round))
  /\ UNCHANGED <<engine, kind, stderr, Gs, cancelled, player, move, dropped, late>>

\* EndRound: an AI player that has not placed its towers has random ones placed.
EndRound(t) ==
  /\ pc = EndOf(t) /\ ~unended[0]
  /\ pc' = Ending(t + 1)
  /\ IF created[t] THEN UNCHANGED <<lines, open, unended, torn>>
     ELSE WriteText(0, Positions(t, round))
  /\ UNCHANGED <<engine, kind, stderr, Gs, cancelled, player, move, dropped, late>>

PlayRound ==
  /\ pc = "play" /\ WriteText(0, Play)
  /\ pc' = "report"
  /\ UNCHANGED <<engine, kind, stderr, Gs, cancelled, player, move, dropped, late>>
-----------------------------------------------------------------------------
Main == Report \/ StartCountdown \/ EndMoves \/ (\E t \in Teams : EndRound(t)) \/ PlayRound
Mover(t) == WritePositions(t) \/ Leave(t)
Player(t) == Answer(t) \/ SendAnswer(t) \/ GiveUp(t)
EngineRuns == EngineReads \/ EngineGoesOn

DriverNext == \/ EngineRuns \/ Parse \/ Main
              \/ \E w \in Writers : WriteEnd(w)
              \/ \E t \in Teams : Mover(t) \/ Player(t) \/ Poll(t)

\* The engine's process and every goroutine of the driver run.
DriverSpec == /\ DriverInit /\ [][DriverNext]_dvars
              /\ WF_dvars(EngineRuns) /\ WF_dvars(Parse) /\ WF_dvars(Main)
              /\ \A w \in Writers : WF_dvars(WriteEnd(w))
              /\ \A t \in Teams : WF_dvars(Mover(t)) /\ WF_dvars(Player(t))
-----------------------------------------------------------------------------
(* Properties *)

\* The engine ends for want of an AI side's positions only when that player had
\* answered in time (and its mover left them in the channel, or was too slow) or
\* a line was torn: otherwise EndRound makes up for it.
NeverUndefined ==
  stage = "failed" =>
    \/ torn
    \/ \E t \in Teams : known[t] = NoList /\ (kind[t] = "ai" => created[t])

\* What the engine has of a side was made for the round it waits for, unless a
\* mover was late.
OfThisRound ==
  \A t \in Teams : known[t] # NoList => known[t] = round \/ late

\* The engine is told to play once for every time that it waits.
Plays == {i \in DOMAIN Append(lines, open) : Play \in Range(Append(lines, open)[i])}
ToldOnce == /\ Cardinality(Plays) <= 1
            /\ Plays # {} => stage = "failed" \/ (stage = "waiting" /\ owed)

\* Nothing of another round reaches the engine, nor anything twice.
ThisRoundsOnly == DriverTypeOK /\ OfThisRound /\ ToldOnce

\* The engine does not wait for ever, unless a line was torn or a report was not
\* read by itself.
RoundsGoOn == (stage = "waiting") ~> (stage # "waiting" \/ torn \/ dropped)
=============================================================================
