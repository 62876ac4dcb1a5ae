---------------------------- MODULE TDDriverProofs ----------------------------
(***************************************************************************)
(* Proofs about TDDriver, for any pairings of players, any number of       *)
(* rounds and any capacity of the movers' channels.                        *)
(*                                                                         *)
(* One token goes round while the engine waits: the report that says so,   *)
(* then main at its work, then the text that tells the engine to play.     *)
(* The rows below are the lines on their way to the engine, the one        *)
(* without an end last.  In them nothing but late positions stands behind  *)
(* the text to play, and before it stand the positions that main made up   *)
(* for an AI player without any.                                           *)
(***************************************************************************)
EXTENDS TDDriver, SequenceTheorems, FiniteSetTheorems, WellFoundedInduction, TLAPS

Kinds == {"box", "rand", "ai", "twitch"}
Reports == {"waiting", "playing", "finished"}
Text == {Positions(t, made) : t \in Teams, made \in Lists} \cup {Countdown, Play}
PCs == {"report", "countdown", "select", "end1", "end2", "play", "over"}

EngineTypes == /\ stage \in {"waiting", "playing", "finished", "failed"}
               /\ round \in 1 .. MaxRounds /\ owed \in BOOLEAN
               /\ known \in [Teams -> Lists]
PipeTypes == /\ lines \in Seq(Seq(Text)) /\ (\A i \in 1 .. Len(lines) : lines[i] # <<>>)
             /\ open \in Seq(Text) /\ unended \in [Writers -> BOOLEAN]
             /\ torn \in BOOLEAN
ReportTypes == stderr \in Seq(Reports) /\ Gs \in Seq(Reports) /\ Len(Gs) <= 1
MainTypes == pc \in PCs /\ cancelled \in BOOLEAN
PlayerTypes == /\ kind \in [Teams -> Kinds]
               /\ asked \in [Teams -> {"off", "thinking", "checked", "sent", "polling"}]
               /\ created \in [Teams -> BOOLEAN]
MoverTypes == /\ out \in [Teams -> Seq(Lists)] /\ (\A t \in Teams : Len(out[t]) <= OutCap)
              /\ moving \in [Teams -> BOOLEAN] /\ late \in BOOLEAN
Types == EngineTypes /\ PipeTypes /\ ReportTypes /\ MainTypes /\ PlayerTypes /\ MoverTypes

Rows == 1 .. Len(lines) + 1
Row(i) == IF i <= Len(lines) THEN lines[i] ELSE open
Holds(x) == \E i \in Rows : x \in Range(Row(i))

Asked == "waiting" \in Range(stderr) \cup Range(Gs)
Finished == "finished" \in Range(stderr) \cup Range(Gs)
Working == pc \in {"countdown", "select", "end1", "end2", "play"}
Owing == stage = "waiting" /\ owed

\* There is one token at most, and none but while the engine waits.
OneReport ==
  /\ \A i, j \in DOMAIN stderr : stderr[i] = "waiting" /\ stderr[j] = "waiting" => i = j
  /\ "waiting" \in Range(stderr) => "waiting" \notin Range(Gs)
Tokens ==
  /\ Asked => Owing /\ pc = "report" /\ ~Holds(Play) /\ ~Holds(Countdown)
  /\ Working => (Owing \/ stage = "failed") /\ ~Holds(Play)
  /\ pc = "countdown" => ~Holds(Countdown)
  /\ Holds(Play) => pc = "report" /\ (Owing \/ stage = "failed")
  /\ Holds(Countdown) => Working \/ Holds(Play)
  /\ Finished \/ pc = "over" => stage = "finished"

\* Behind the text to play there are positions of a mover that was late.
Order ==
  \A i, j \in Rows : i < j /\ Play \in Range(Row(i)) =>
     \A x \in Range(Row(j)) : x.c = "positions" /\ late

\* A text of main is alone in its line, unless that was torn.
Torn == \A i \in Rows : Len(Row(i)) > 1 /\ (Countdown \in Range(Row(i)) \/ Play \in Range(Row(i))) => torn

\* Until the round is cancelled the movers have lists of this round only, and they are at work
\* only while main lets them be.
Movers ==
  ~cancelled =>
    /\ \A t \in Teams : \A i \in 1 .. Len(out[t]) : out[t][i] \in {NoList, round}
    /\ \/ pc \in {"countdown", "select"}
       \/ \A t \in Teams : out[t] = <<>> /\ ~moving[t] /\ asked[t] = "off"

\* With no mover late, all positions are of this round, and none is left when the engine has
\* been told to play.
Fresh ==
  ~late =>
    /\ \A i \in Rows : \A x \in Range(Row(i)) : x.c = "positions" => x.made \in {NoList, round}
    /\ \A t \in Teams : known[t] \in {NoList, round}
    /\ (~Owing \/ Asked) /\ stage # "failed" =>
         /\ \A t \in Teams : known[t] = NoList
         /\ \A i \in Rows : \A x \in Range(Row(i)) : x.c # "positions"

\* Main has come past an AI player that has not placed its towers: the engine knows its
\* positions, or they are in a line of their own before the text to play.
After(t) == pc = "play" \/ (pc = "end2" /\ t = 1) \/ Holds(Play)
MadeUp(t) == \E i \in Rows : /\ Row(i) = <<Positions(t, round)>>
                             /\ \A k \in Rows : Play \in Range(Row(k)) => i < k
MadeUpFor ==
  \A t \in Teams : kind[t] = "ai" /\ ~created[t] /\ ~torn /\ After(t) => known[t] # NoList \/ MadeUp(t)

IInv == Types /\ OneReport /\ Tokens /\ Order /\ Torn /\ Movers /\ Fresh /\ MadeUpFor /\ NeverUndefined
-----------------------------------------------------------------------------
(* The rows *)

LEMMA TextFacts ==
  /\ \A t \in Teams, made \in Lists : /\ Positions(t, made) \in Text
                                      /\ Positions(t, made).c = "positions"
                                      /\ Positions(t, made).made = made
                                      /\ Positions(t, made).team = t
                                      /\ Positions(t, made) \notin {Countdown, Play}
  /\ Countdown \in Text /\ Play \in Text /\ Countdown # Play
  /\ Countdown.c = "countdown" /\ Play.c = "play"
  /\ \A x \in Text : \/ /\ x.c = "positions" /\ x.made \in Lists /\ x.team \in Teams
                        /\ x # Countdown /\ x # Play
                     \/ x = Countdown \/ x = Play
  BY DEF Text, Positions, Countdown, Play

LEMMA Single == \A s, x : s = <<x>> => Len(s) = 1 /\ s[1] = x
  OBVIOUS

LEMMA EmptyRange == Range(<<>>) = {}
  BY DEF Range

\* The range of a sequence, by its indices.
LEMMA InRange ==
  ASSUME NEW S, NEW s \in Seq(S)
  PROVE  /\ \A x : x \in Range(s) <=> \E k \in 1 .. Len(s) : s[k] = x
         /\ Range(s) \subseteq S
         /\ (s = <<>>) <=> (Range(s) = {})
         /\ (s = <<>>) <=> (Len(s) = 0)
         /\ Len(s) \in Nat
<1>1. DOMAIN s = 1 .. Len(s) /\ Len(s) \in Nat
  BY LenProperties
<1>2. \A k \in 1 .. Len(s) : s[k] \in S
  OBVIOUS
<1>3. (s = <<>>) <=> (Len(s) = 0)
  BY EmptySeq, <1>1
<1>4. Range(s) = {s[k] : k \in 1 .. Len(s)}
  BY <1>1 DEF Range
<1>5. Len(s) # 0 => s[1] \in Range(s)
  BY <1>1, <1>4
<1>6. Len(s) = 0 => Range(s) = {}
  BY <1>1, <1>4
<1> QED BY <1>1, <1>2, <1>3, <1>4, <1>5, <1>6

\* What the end of a sequence adds to its range.
LEMMA AppendRange ==
  ASSUME NEW S, NEW s \in Seq(S), NEW x \in S
  PROVE  /\ Append(s, x) \in Seq(S)
         /\ Len(Append(s, x)) = Len(s) + 1
         /\ Range(Append(s, x)) = Range(s) \cup {x}
<1>1. /\ Append(s, x) \in Seq(S) /\ Len(Append(s, x)) = Len(s) + 1
      /\ \A i \in 1 .. Len(s) : Append(s, x)[i] = s[i]
      /\ Append(s, x)[Len(s) + 1] = x
  BY AppendProperties
<1>2. Len(s) \in Nat
  BY LenProperties
<1>3. \A y : y \in Range(Append(s, x)) <=> \E k \in 1 .. Len(s) + 1 : Append(s, x)[k] = y
  BY <1>1, InRange
<1> QED
  BY <1>1, <1>2, <1>3, InRange

LEMMA RowFacts ==
  ASSUME Types
  PROVE  /\ Len(lines) \in Nat
         /\ \A i \in Rows : /\ i \in Nat /\ Row(i) \in Seq(Text) /\ Len(Row(i)) \in Nat
                            /\ Range(Row(i)) \subseteq Text
                            /\ (Row(i) = <<>>) <=> (Range(Row(i)) = {})
                            /\ (Row(i) = <<>>) <=> (Len(Row(i)) = 0)
                            /\ i <= Len(lines) => Row(i) # <<>>
<1>1. Len(lines) \in Nat /\ open \in Seq(Text) /\ \A i \in 1 .. Len(lines) : lines[i] \in Seq(Text)
  BY LenProperties DEF Types, PipeTypes
<1> SUFFICES ASSUME NEW i \in Rows
             PROVE  /\ i \in Nat /\ Row(i) \in Seq(Text) /\ Len(Row(i)) \in Nat
                    /\ Range(Row(i)) \subseteq Text
                    /\ (Row(i) = <<>>) <=> (Range(Row(i)) = {})
                    /\ (Row(i) = <<>>) <=> (Len(Row(i)) = 0)
                    /\ i <= Len(lines) => Row(i) # <<>>
  BY <1>1
<1>2. i \in Nat /\ i >= 1 /\ Row(i) \in Seq(Text)
  BY <1>1 DEF Rows, Row
<1>3. i <= Len(lines) => Row(i) # <<>>
  BY <1>2, <1>1 DEF Row, Types, PipeTypes
<1> QED BY <1>2, <1>3, InRange

\* A text comes to stand at the end of the last row, which is torn when it is not alone there.
LEMMA Written ==
  ASSUME Types, NEW w \in Writers, NEW x \in Text, WriteText(w, x)
  PROVE  /\ PipeTypes'
         /\ Rows' = Rows /\ Len(lines) + 1 \in Rows
         /\ \A i \in Rows : i # Len(lines) + 1 => Row(i)' = Row(i)
         /\ \A i \in Rows : i = Len(lines) + 1 =>
              /\ Range(Row(i)') = Range(Row(i)) \cup {x}
              /\ Len(Row(i)') = Len(Row(i)) + 1
              /\ Row(i) = <<>> => Row(i)' = <<x>>
              /\ torn' = (torn \/ Row(i) # <<>>)
         /\ Len(lines)' = Len(lines)
<1>1. Len(lines) \in Nat /\ open \in Seq(Text) /\ lines' = lines /\ open' = Append(open, x)
  BY RowFacts DEF WriteText, Types, PipeTypes
<1>2. /\ open' \in Seq(Text) /\ Len(open') = Len(open) + 1 /\ Range(open') = Range(open) \cup {x}
  BY <1>1, AppendRange
<1>3. open = <<>> => open' = <<x>>
  BY <1>1
<1>4. PipeTypes'
  BY <1>1, <1>2 DEF WriteText, Types, PipeTypes
<1>5. Rows' = Rows /\ Len(lines) + 1 \in Rows /\ Len(lines)' = Len(lines)
  BY <1>1 DEF Rows
<1>6. \A i \in Rows : i # Len(lines) + 1 => Row(i)' = Row(i)
  BY <1>1 DEF Rows, Row
<1>7. \A i \in Rows : i = Len(lines) + 1 => Row(i) = open /\ Row(i)' = open'
  BY <1>1 DEF Rows, Row
<1>8. torn' = (torn \/ open # <<>>)
  BY DEF WriteText
<1> QED BY <1>2, <1>3, <1>4, <1>5, <1>6, <1>7, <1>8

\* The end of a line adds a row that is empty, or nothing.
LEMMA EndedRow ==
  ASSUME Types, NEW w \in Writers, WriteEnd(w)
  PROVE  /\ PipeTypes'
         /\ Rows \subseteq Rows'
         /\ \A i \in Rows : Row(i)' = Row(i)
         /\ \A i \in Rows' \ Rows : Row(i)' = <<>>
         /\ Len(lines)' >= Len(lines)
<1>0. Len(lines) \in Nat /\ lines \in Seq(Seq(Text)) /\ open \in Seq(Text)
  BY RowFacts DEF Types, PipeTypes
<1>1. CASE open = <<>>
  <2>1. lines' = lines /\ open' = open
    BY <1>1 DEF WriteEnd
  <2> QED BY <1>0, <2>1 DEF WriteEnd, Types, PipeTypes, Rows, Row, history
<1>2. CASE open # <<>>
  <2>1. lines' = Append(lines, open) /\ open' = <<>>
    BY <1>2 DEF WriteEnd
  <2>2. /\ lines' \in Seq(Seq(Text)) /\ Len(lines') = Len(lines) + 1
        /\ \A i \in 1 .. Len(lines) : lines'[i] = lines[i]
        /\ lines'[Len(lines) + 1] = open
    BY <1>0, <2>1, AppendProperties
  <2>3. PipeTypes'
    <3>1. ASSUME NEW i \in 1 .. Len(lines') PROVE lines'[i] # <<>>
      <4>1. CASE i = Len(lines) + 1
        BY <4>1, <2>2, <1>2
      <4>2. CASE i # Len(lines) + 1
        <5>1. i \in 1 .. Len(lines)
          BY <4>2, <1>0, <2>2
        <5>2. \A j \in 1 .. Len(lines) : lines[j] # <<>>
          BY DEF Types, PipeTypes
        <5> QED BY <5>1, <5>2, <2>2
      <4> QED BY <4>1, <4>2
    <3>2. open' \in Seq(Text) /\ torn' \in BOOLEAN /\ unended' \in [Writers -> BOOLEAN]
      BY <2>1 DEF Types, PipeTypes, WriteEnd, history
    <3> QED BY <2>2, <3>1, <3>2 DEF PipeTypes
  <2>4. Rows' = 1 .. Len(lines) + 2 /\ Rows = 1 .. Len(lines) + 1
    BY <1>0, <2>2 DEF Rows
  <2>5. \A i \in Rows : Row(i)' = Row(i)
    BY <1>0, <2>2, <2>4 DEF Row
  <2>6. \A i \in Rows' \ Rows : Row(i)' = <<>>
    BY <1>0, <2>1, <2>2, <2>4 DEF Row
  <2> QED BY <1>0, <2>2, <2>3, <2>4, <2>5, <2>6
<1> QED BY <1>1, <1>2

\* The engine takes the first row, and it was a whole line.
LEMMA TakenRow ==
  ASSUME Types, lines # <<>>, lines' = Tail(lines), UNCHANGED <<open, unended, torn>>
  PROVE  /\ PipeTypes'
         /\ 1 \in Rows /\ Row(1) = Head(lines) /\ Row(1) # <<>> /\ Row(1)[1] \in Range(Row(1))
         /\ Len(lines) >= 1 /\ Len(lines)' = Len(lines) - 1
         /\ Rows' = 1 .. Len(lines)
         /\ \A i \in Rows' : i + 1 \in Rows /\ Row(i)' = Row(i + 1)
<1>1. /\ lines \in Seq(Seq(Text)) /\ Len(lines) \in Nat /\ Len(lines) # 0
      /\ lines' \in Seq(Seq(Text)) /\ Len(lines') = Len(lines) - 1
      /\ \A i \in 1 .. Len(lines') : lines'[i] = lines[i + 1]
  BY EmptySeq, HeadTailProperties DEF Types, PipeTypes
<1>2. Rows' = 1 .. Len(lines) /\ Rows = 1 .. Len(lines) + 1
  BY <1>1 DEF Rows
<1>3. \A i \in Rows' : i + 1 \in Rows /\ Row(i)' = Row(i + 1)
  BY <1>1, <1>2 DEF Row
<1>4. Row(1) = Head(lines) /\ Row(1) # <<>> /\ Row(1) \in Seq(Text)
  BY <1>1, <1>2, RowFacts DEF Row
<1>5. Row(1)[1] \in Range(Row(1))
  BY <1>4, InRange
<1>6. PipeTypes'
  BY <1>1 DEF Types, PipeTypes
<1> QED BY <1>1, <1>2, <1>3, <1>4, <1>5, <1>6

LEMMA SameRows ==
  ASSUME UNCHANGED <<lines, open>>
  PROVE  Rows' = Rows /\ \A i : Row(i)' = Row(i)
  BY DEF Rows, Row
-----------------------------------------------------------------------------
(* What the engine reads *)

Less == {p \in Nat \X Nat : p[1] < p[2]}

LEMMA LeastNat ==
  ASSUME NEW T \in SUBSET Nat, T # {}
  PROVE  \E x \in T : \A y \in T : x <= y
<1>1. Less = OpToRel(<, Nat)
  BY DEF Less, OpToRel
<1>2. IsWellFoundedOn(Less, Nat)
  BY <1>1, NatLessThanWellFounded
<1>3. PICK x \in T : \A y \in T : ~(<<y, x>> \in Less)
  BY <1>2, WFMin
<1>4. ASSUME NEW y \in T PROVE x <= y
  <2>1. x \in Nat /\ y \in Nat /\ <<y, x>> \notin Less
    BY <1>3
  <2> QED BY <2>1 DEF Less
<1> QED BY <1>4

\* A set of lists that is not empty has a latest one.
LEMMA MaxIsOne ==
  ASSUME NEW T \in SUBSET Lists, T # {}
  PROVE  Max(T) \in T
<1>1. MaxRounds \in Nat /\ \A y \in T : y \in 0 .. MaxRounds
  BY DriverAssumption DEF Lists
<1> DEFINE D == {d \in Nat : MaxRounds - d \in T}
<1>2. D # {}
  <2>1. PICK y \in T : TRUE
    OBVIOUS
  <2>2. MaxRounds - y \in Nat /\ MaxRounds - (MaxRounds - y) = y
    BY <1>1, <2>1
  <2> QED BY <2>1, <2>2
<1>3. PICK d \in D : \A e \in D : d <= e
  BY <1>2, LeastNat
<1>4. MaxRounds - d \in T
  OBVIOUS
<1>5. ASSUME NEW y \in T PROVE MaxRounds - d >= y
  <2>1. MaxRounds - y \in Nat /\ MaxRounds - (MaxRounds - y) = y
    BY <1>1
  <2>2. d <= MaxRounds - y
    BY <2>1, <1>3
  <2> QED BY <2>1, <2>2, <1>1
<1>6. \E x \in T : \A y \in T : x >= y
  BY <1>4, <1>5
<1> QED BY <1>6 DEF Max

\* A line of positions: the engine knows them, or what it knew.
LEMMA ReadsPositions ==
  ASSUME Types, EngineReads, Row(1)[1].c = "positions"
  PROVE  /\ UNCHANGED vars /\ known' \in [Teams -> Lists]
         /\ \A t \in Teams :
              \/ known'[t] = known[t]
              \/ /\ known'[t] # NoList
                 /\ \E x \in Range(Row(1)) : x.c = "positions" /\ x.made = known'[t]
         /\ \A t \in Teams, m \in Lists :
              Row(1) = <<Positions(t, m)>> /\ m # NoList => known'[t] = m
<1> DEFINE line == Row(1)
           Those == {y \in Range(line) : y.c = "positions"}
           lists == {x.made : x \in Those} \ {NoList}
<1>1. /\ line = Head(lines) /\ line \in Seq(Text) /\ line[1] \in Range(line) /\ Range(line) \subseteq Text
  BY TakenRow, RowFacts DEF EngineReads, history
<1>2. /\ UNCHANGED vars
      /\ known' = IF lists = {} THEN known ELSE [known EXCEPT ![line[1].team] = Max(lists)]
  <2>1. Head(lines)[1].c = "positions"
    BY <1>1
  <2>2. ReadPositions(Head(lines))
    BY <2>1, TextFacts DEF EngineReads
  <2> QED BY <1>1, <2>2 DEF ReadPositions
<1>3. lists \in SUBSET Lists /\ line[1].team \in Teams
  BY <1>1, TextFacts
<1>4. lists # {} => Max(lists) \in lists
  BY <1>3, MaxIsOne
<1>5. known \in [Teams -> Lists]
  BY DEF Types, EngineTypes
<1> HIDE DEF lists
<1>6. known' \in [Teams -> Lists]
  <2>1. CASE lists = {}
    BY <2>1, <1>2, <1>5
  <2>2. CASE lists # {}
    <3>1. Max(lists) \in Lists /\ known' = [known EXCEPT ![line[1].team] = Max(lists)]
      BY <2>2, <1>2, <1>3, <1>4
    <3> HIDE DEF line
    <3> QED BY <3>1, <1>3, <1>5
  <2> QED BY <2>1, <2>2
<1>7. ASSUME NEW t \in Teams, known'[t] # known[t]
      PROVE  known'[t] # NoList /\ \E x \in Range(line) : x.c = "positions" /\ x.made = known'[t]
  <2>1. lists # {} /\ known'[t] = Max(lists)
    BY <1>2, <1>3, <1>5, <1>7
  <2> QED BY <2>1, <1>4 DEF lists
<1>8. ASSUME NEW t \in Teams, NEW m \in Lists, line = <<Positions(t, m)>>, m # NoList
      PROVE  known'[t] = m
  <2>1. line[1] = Positions(t, m) /\ line[1].team = t /\ Positions(t, m).c = "positions"
        /\ Positions(t, m).made = m
    BY <1>8, TextFacts
  <2>2. \A x : x \in Range(line) <=> x = Positions(t, m)
    BY <1>8, <1>1, InRange
  <2>3. Those = {Positions(t, m)}
    BY <2>1, <2>2
  <2>4. lists = {m}
    BY <2>1, <2>3, <1>8 DEF lists
  <2>5. Max(lists) = m
    BY <2>4, <1>4
  <2> QED BY <2>1, <2>4, <2>5, <1>2, <1>5
<1> QED BY <1>2, <1>6, <1>7, <1>8

\* Its main thread ends at a countdown that is torn, and at the text to play without positions.
Undone == \/ Row(1)[1] = Countdown /\ Len(Row(1)) > 1
          \/ Row(1) = <<Play>> /\ \E t \in Teams : known[t] = NoList

LEMMA ReadsOther ==
  ASSUME Types, EngineReads, Row(1)[1].c # "positions"
  PROVE  /\ Row(1)[1] \in {Countdown, Play}
         /\ \/ UNCHANGED <<vars, known>> /\ Row(1) # <<Play>>
            \/ Fail /\ UNCHANGED known /\ Undone
            \/ Placed /\ Row(1) = <<Play>> /\ known' = [t \in Teams |-> NoList]
<1>1. /\ Row(1) = Head(lines) /\ Row(1) \in Seq(Text) /\ Row(1)[1] \in Text
  BY TakenRow, RowFacts DEF EngineReads, history
<1>2. Row(1)[1] \in {Countdown, Play}
  BY <1>1, TextFacts
<1>3. /\ <<Play>>[1] = Play /\ Len(<<Play>>) = 1 /\ <<Countdown>>[1] = Countdown /\ Len(<<Countdown>>) = 1
      /\ Countdown.c = "countdown" /\ Play.c = "play" /\ Countdown # Play
  BY TextFacts
<1>4. LET line == Head(lines)
      IN \/ line = <<Play>> /\ ReadPlay
         \/ line[1].c = "countdown" /\ Len(line) > 1 /\ Fail /\ UNCHANGED known
         \/ line = <<Countdown>> /\ UNCHANGED <<vars, known>>
         \/ line[1].c = "play" /\ Len(line) > 1 /\ UNCHANGED <<vars, known>>
  BY <1>1 DEF EngineReads
<1>5. CASE Head(lines) = <<Play>> /\ ReadPlay
  BY <1>1, <1>2, <1>3, <1>5 DEF ReadPlay, Undone
<1>6. CASE Head(lines)[1].c = "countdown" /\ Len(Head(lines)) > 1 /\ Fail /\ UNCHANGED known
  <2>1. Row(1)[1] = Countdown
    BY <1>1, <1>2, <1>3, <1>6
  <2>2. Len(Row(1)) > 1
    BY <1>1, <1>6
  <2> QED BY <1>6, <2>1, <2>2 DEF Undone
<1>7. CASE Head(lines) = <<Countdown>> /\ UNCHANGED <<vars, known>>
  BY <1>1, <1>2, <1>3, <1>7
<1>8. CASE Head(lines)[1].c = "play" /\ Len(Head(lines)) > 1 /\ UNCHANGED <<vars, known>>
  <2>1. Len(Row(1)) > 1
    BY <1>1, <1>8
  <2>2. Row(1) # <<Play>>
    BY <2>1, Single
  <2> QED BY <1>2, <1>8, <2>2
<1> QED BY <1>4, <1>5, <1>6, <1>7, <1>8
-----------------------------------------------------------------------------
(* Types *)

LEMMA Bounds ==
  /\ MaxRounds \in Nat /\ MaxRounds >= 1 /\ OutCap \in Nat /\ OutCap >= 1
  /\ \A r \in 1 .. MaxRounds : r \in Lists /\ r # NoList /\ r \in Nat
  /\ NoList \in Lists /\ Pairings \subseteq [Teams -> Kinds]
  BY DriverAssumption DEF Lists, NoList, Kinds

LEMMA TypesInit == DriverInit => Types
<1> SUFFICES ASSUME DriverInit PROVE Types
  OBVIOUS
<1>1. /\ \A S : <<>> \in Seq(S)
      /\ Len(<<>>) = 0
  OBVIOUS
<1>2. EngineTypes
  BY Bounds DEF DriverInit, Init, EngineTypes
<1>3. PipeTypes
  <2>1. lines \in Seq(Seq(Text)) /\ open \in Seq(Text) /\ Len(lines) = 0
    BY <1>1, Zenon DEF DriverInit
  <2>2. \A i \in 1 .. Len(lines) : lines[i] # <<>>
    BY <2>1
  <2> QED BY <2>1, <2>2 DEF DriverInit, PipeTypes
<1>4. ReportTypes
  <2>1. stderr = <<"waiting">> /\ <<"waiting">> \in Seq(Reports)
    BY DEF DriverInit, Reports
  <2> QED BY <1>1, <2>1 DEF DriverInit, ReportTypes
<1>5. MainTypes /\ PlayerTypes
  BY Bounds DEF DriverInit, MainTypes, PlayerTypes, PCs
<1>6. MoverTypes
  <2>1. out = [t \in Teams |-> <<>>] /\ <<>> \in Seq(Lists)
    BY <1>1, Zenon DEF DriverInit
  <2>2. out \in [Teams -> Seq(Lists)]
    BY <2>1
  <2>3. \A t \in Teams : Len(out[t]) = 0
    BY <2>1
  <2>4. \A t \in Teams : Len(out[t]) <= OutCap
    BY <2>3, Bounds
  <2>5. moving \in [Teams -> BOOLEAN] /\ late \in BOOLEAN
    BY DEF DriverInit
  <2> QED BY <2>2, <2>4, <2>5 DEF MoverTypes
<1> QED BY <1>2, <1>3, <1>4, <1>5, <1>6 DEF Types

\* Where main goes after a player.
LEMMA EndingIn ==
  ASSUME NEW from \in {1, 2, 3}
  PROVE  /\ Ending(from) \in {"end1", "end2", "play"}
         /\ from = 1 /\ kind[1] = "ai" => Ending(from) = "end1"
         /\ from = 1 /\ kind[1] # "ai" /\ kind[2] = "ai" => Ending(from) = "end2"
         /\ from = 2 /\ kind[2] = "ai" => Ending(from) = "end2"
         /\ from = 2 => Ending(from) # "end1"
         /\ from = 3 => Ending(from) = "play"
<1> DEFINE still == {t \in Teams : t >= from /\ kind[t] = "ai"}
<1>1. Ending(from) = IF still = {} THEN "play" ELSE EndOf(Min(still))
  BY DEF Ending
<1>2. \A t : t \in still <=> t \in {1, 2} /\ t >= from /\ kind[t] = "ai"
  BY DEF Teams
<1>3. still # {} => Min(still) \in still /\ \A t \in still : Min(still) <= t
  <2> SUFFICES ASSUME still # {} PROVE Min(still) \in still /\ \A t \in still : Min(still) <= t
    OBVIOUS
  <2>1. \E x \in still : \A y \in still : x <= y
    BY <1>2
  <2> HIDE DEF still
  <2> QED BY <2>1 DEF Min
<1> HIDE DEF still
<1> QED BY <1>1, <1>2, <1>3 DEF EndOf

LEMMA TypesReads == ASSUME Types, EngineReads PROVE Types'
<1>1. PipeTypes'
  BY TakenRow DEF EngineReads, history
<1>2. EngineTypes'
  <2>1. CASE Row(1)[1].c = "positions"
    BY <2>1, ReadsPositions DEF Types, EngineTypes, vars
  <2>2. CASE Row(1)[1].c # "positions"
    BY <2>2, ReadsOther, Bounds DEF Types, EngineTypes, vars, Fail, Placed
  <2> QED BY <2>1, <2>2
<1>3. ReportTypes' /\ MainTypes' /\ PlayerTypes' /\ MoverTypes'
  BY DEF EngineReads, Types, ReportTypes, MainTypes, PlayerTypes, MoverTypes, player, move, history
<1> QED BY <1>1, <1>2, <1>3 DEF Types

LEMMA TypesReports == ASSUME Types, EngineGoesOn \/ Parse PROVE Types'
<1>1. CASE EngineGoesOn
  <2>1. EngineTypes'
    <3>1. EngineTypes /\ UNCHANGED known
      BY <1>1 DEF EngineGoesOn, Types
    <3>2. CASE Start
      BY <3>1, <3>2 DEF EngineTypes, Start
    <3>3. CASE End /\ round < MaxRounds
      BY <3>1, <3>3, Bounds DEF EngineTypes, End
    <3>4. CASE Finish
      BY <3>1, <3>4 DEF EngineTypes, Finish
    <3> QED BY <1>1, <3>2, <3>3, <3>4 DEF EngineGoesOn
  <2>2. ReportTypes'
    <3>1. \A r \in Reports : Append(stderr, r) \in Seq(Reports)
      BY AppendProperties DEF Types, ReportTypes
    <3>2. \E r \in Reports : stderr' = Append(stderr, r)
      BY <1>1 DEF EngineGoesOn, Reports
    <3> QED BY <1>1, <3>1, <3>2 DEF EngineGoesOn, Types, ReportTypes
  <2>3. PipeTypes' /\ MainTypes' /\ PlayerTypes' /\ MoverTypes'
    BY <1>1 DEF EngineGoesOn, Types, PipeTypes, MainTypes, PlayerTypes, MoverTypes, player, move, history
  <2> QED BY <2>1, <2>2, <2>3 DEF Types
<1>2. CASE Parse
  <2>1. stderr \in Seq(Reports) /\ stderr # <<>>
    BY <1>2 DEF Parse, Types, ReportTypes
  <2>2. Tail(stderr) \in Seq(Reports) /\ Head(stderr) \in Reports
    BY <2>1, HeadTailProperties
  <2>3. ReportTypes'
    <3>1. <<Head(stderr)>> \in Seq(Reports) /\ Len(<<Head(stderr)>>) <= 1
      BY <2>2
    <3>2. ReportTypes
      BY DEF Types
    <3>3. stderr' = Tail(stderr) /\ (Gs' = <<Head(stderr)>> \/ Gs' = Gs)
      BY <1>2 DEF Parse
    <3> QED BY <2>2, <3>1, <3>2, <3>3 DEF ReportTypes
  <2>4. EngineTypes' /\ PipeTypes' /\ MainTypes' /\ PlayerTypes' /\ MoverTypes'
    BY <1>2 DEF Parse, Types, EngineTypes, PipeTypes, MainTypes, PlayerTypes, MoverTypes, engine, player,
         move, history
  <2> QED BY <2>3, <2>4 DEF Types
<1> QED BY <1>1, <1>2

LEMMA TypesPlayers ==
  ASSUME Types, NEW t \in Teams, Answer(t) \/ SendAnswer(t) \/ Poll(t) \/ GiveUp(t)
  PROVE  Types'
<1>1. /\ EngineTypes' /\ PipeTypes' /\ ReportTypes' /\ MainTypes'
      /\ UNCHANGED <<kind, moving, late>>
  BY DEF Answer, SendAnswer, Poll, GiveUp, Types, EngineTypes, PipeTypes, ReportTypes, MainTypes, engine,
     move, history
<1>2. PlayerTypes'
  BY DEF Answer, SendAnswer, Poll, GiveUp, Types, PlayerTypes
<1>3. UNCHANGED out \/ \E made \in Lists : Len(out[t]) < OutCap /\ out' = [out EXCEPT ![t] = Append(@, made)]
  BY Bounds DEF Answer, SendAnswer, Poll, GiveUp, move, Types, EngineTypes
<1>4. MoverTypes'
  <2>1. CASE UNCHANGED out
    BY <1>1, <2>1 DEF Types, MoverTypes
  <2>2. ASSUME NEW made \in Lists, Len(out[t]) < OutCap, out' = [out EXCEPT ![t] = Append(@, made)]
        PROVE  MoverTypes'
    <3>1. out[t] \in Seq(Lists)
      BY DEF Types, MoverTypes
    <3>2. Append(out[t], made) \in Seq(Lists) /\ Len(Append(out[t], made)) = Len(out[t]) + 1
          /\ Len(out[t]) \in Nat
      BY <3>1, AppendProperties, LenProperties
    <3>3. out' \in [Teams -> Seq(Lists)] /\ \A u \in Teams : Len(out'[u]) <= OutCap
      BY <2>2, <3>2, Bounds DEF Types, MoverTypes
    <3> QED BY <1>1, <3>3 DEF Types, MoverTypes
  <2> QED BY <1>3, <2>1, <2>2
<1> QED BY <1>1, <1>2, <1>4 DEF Types

LEMMA TypesMovers == ASSUME Types, NEW t \in Teams, Mover(t) PROVE Types'
<1>1. CASE WritePositions(t)
  <2>1. out[t] \in Seq(Lists) /\ out[t] # <<>> /\ t \in Writers /\ Len(out[t]) <= OutCap
    BY <1>1 DEF WritePositions, Types, MoverTypes, Writers, Teams
  <2>2. /\ Head(out[t]) \in Lists /\ Tail(out[t]) \in Seq(Lists) /\ Len(Tail(out[t])) = Len(out[t]) - 1
        /\ Len(out[t]) \in Nat
    BY <2>1, HeadTailProperties, LenProperties
  <2>3. PipeTypes'
    BY <1>1, <2>1, <2>2, Written, TextFacts DEF WritePositions
  <2>4. MoverTypes'
    <3>1. out' \in [Teams -> Seq(Lists)] /\ \A u \in Teams : Len(out'[u]) <= OutCap
      BY <1>1, <2>1, <2>2, Bounds DEF Types, MoverTypes, WritePositions
    <3> QED BY <1>1, <3>1 DEF Types, MoverTypes, MainTypes, WritePositions
  <2>5. EngineTypes' /\ ReportTypes' /\ MainTypes' /\ PlayerTypes'
    BY <1>1 DEF WritePositions, Types, EngineTypes, ReportTypes, MainTypes, PlayerTypes, engine, player
  <2> QED BY <2>3, <2>4, <2>5 DEF Types
<1>2. CASE Leave(t)
  <2>1. /\ EngineTypes' /\ ReportTypes' /\ MainTypes' /\ PlayerTypes' /\ PipeTypes'
    BY <1>2 DEF Leave, Types, EngineTypes, ReportTypes, MainTypes, PlayerTypes, PipeTypes, engine, player,
       history
  <2>2. <<>> \in Seq(Lists) /\ Len(<<>>) = 0
    OBVIOUS
  <2>3. out' \in [Teams -> Seq(Lists)] /\ \A u \in Teams : Len(out'[u]) <= OutCap
    BY <1>2, <2>2, Bounds DEF Types, MoverTypes, Leave
  <2>4. MoverTypes'
    BY <1>2, <2>3 DEF Leave, Types, MoverTypes, history
  <2> QED BY <2>1, <2>4 DEF Types
<1> QED BY <1>1, <1>2 DEF Mover

\* The text that a step of main writes, if it writes one.
LEMMA MainWrites ==
  ASSUME Types, NEW x \in Text, WriteText(0, x)
  PROVE  PipeTypes'
  BY Written DEF Writers

LEMMA ReportFacts ==
  ASSUME Types, Report
  PROVE  /\ Gs \in Seq(Reports) /\ Gs # <<>> /\ Head(Gs) \in Reports /\ Gs' = <<>>
         /\ Range(Gs) = {Head(Gs)}
<1>1. Gs \in Seq(Reports) /\ Len(Gs) <= 1 /\ Gs # <<>> /\ Gs' = Tail(Gs)
  BY DEF Report, Types, ReportTypes
<1>2. Head(Gs) \in Reports /\ Len(Tail(Gs)) = Len(Gs) - 1 /\ Tail(Gs) \in Seq(Reports) /\ Len(Gs) = 1
  BY <1>1, HeadTailProperties, EmptySeq
<1>3. Gs' = <<>>
  BY <1>1, <1>2, EmptySeq
<1>4. Head(Gs) = Gs[1] /\ Range(Gs) = {Gs[1]}
  BY <1>1, <1>2, InRange
<1> QED BY <1>1, <1>2, <1>3, <1>4

\* What the players are asked with.
LEMMA AskedFor ==
  ASSUME Types, Report, Head(Gs) = "waiting"
  PROVE  /\ \A t \in Teams : ~moving[t] /\ asked[t] = "off"
         /\ pc' = "countdown" /\ cancelled' = FALSE /\ torn' = FALSE
         /\ created' = [t \in Teams |-> FALSE] /\ moving' = [t \in Teams |-> TRUE]
         /\ asked' \in [Teams -> {"off", "thinking", "checked", "sent", "polling"}]
         /\ out' \in [Teams -> Seq(Lists)]
         /\ \A t \in Teams : Len(out'[t]) <= 1 /\ \A i \in 1 .. Len(out'[t]) : out'[t][i] = round
<1>1. /\ \A t \in Teams : ~moving[t] /\ asked[t] = "off"
      /\ pc' = "countdown" /\ cancelled' = FALSE
      /\ created' = [t \in Teams |-> FALSE] /\ torn' = FALSE
      /\ asked' = [t \in Teams |-> StreamResults(t)]
      /\ moving' = [t \in Teams |-> TRUE]
      /\ out' = [t \in Teams |-> IF kind[t] = "box" THEN <<round>> ELSE <<>>]
  BY DEF Report, Skipped
<1>2. asked' \in [Teams -> {"off", "thinking", "checked", "sent", "polling"}]
  BY <1>1 DEF StreamResults, Types, PlayerTypes, Kinds
<1>3. /\ <<>> \in Seq(Lists) /\ Len(<<>>) = 0 /\ <<round>> \in Seq(Lists) /\ Len(<<round>>) = 1
      /\ <<round>>[1] = round
  BY Bounds DEF Types, EngineTypes
<1>4. ASSUME NEW t \in Teams
      PROVE  /\ out'[t] \in Seq(Lists) /\ Len(out'[t]) <= 1
             /\ \A i \in 1 .. Len(out'[t]) : out'[t][i] = round
  <2>1. CASE kind[t] = "box"
    <3>1. out'[t] = <<round>>
      BY <1>1, <2>1
    <3> QED BY <1>3, <3>1
  <2>2. CASE kind[t] # "box"
    <3>1. out'[t] = <<>>
      BY <1>1, <2>2
    <3> QED BY <1>3, <3>1
  <2> QED BY <2>1, <2>2
<1>5. out' \in [Teams -> Seq(Lists)]
  <2>1. out' = [t \in Teams |-> out'[t]]
    BY <1>1, Zenon
  <2> QED BY <2>1, <1>4
<1> QED BY <1>1, <1>2, <1>4, <1>5

\* The other reports leave the players alone.
LEMMA NotAsked ==
  ASSUME Types, Report, Head(Gs) # "waiting"
  PROVE  /\ UNCHANGED <<cancelled, player, move, torn>>
         /\ IF Head(Gs) = "finished" THEN pc' = "over" ELSE pc' = pc
<1>1. Head(Gs) \in {"playing", "finished"}
  BY ReportFacts DEF Reports
<1> QED BY <1>1 DEF Report, Skipped

LEMMA TypesReport == ASSUME Types, Report PROVE Types'
<1>1. EngineTypes' /\ ReportTypes'
  <2>1. <<>> \in Seq(Reports) /\ Len(<<>>) <= 1
    OBVIOUS
  <2>2. Gs' = <<>> /\ stderr' = stderr
    BY ReportFacts DEF Report
  <2> QED BY <2>1, <2>2 DEF Report, Types, EngineTypes, ReportTypes, engine
<1>2. CASE Head(Gs) = "waiting"
  <2>1. PipeTypes' /\ MainTypes' /\ PlayerTypes'
    BY <1>2, AskedFor DEF Report, Types, PipeTypes, MainTypes, PCs, PlayerTypes
  <2>2. MoverTypes'
    <3>1. out' \in [Teams -> Seq(Lists)] /\ moving' \in [Teams -> BOOLEAN]
      BY <1>2, AskedFor
    <3>2. \A t \in Teams : Len(out'[t]) \in Nat /\ Len(out'[t]) <= 1
      BY <1>2, <3>1, AskedFor, LenProperties
    <3>3. late' \in BOOLEAN
      BY DEF Report, Types, MoverTypes
    <3> QED BY <3>1, <3>2, <3>3, Bounds DEF MoverTypes
  <2> QED BY <1>1, <2>1, <2>2 DEF Types
<1>3. CASE Head(Gs) # "waiting"
  <2>1. PipeTypes' /\ MainTypes' /\ PlayerTypes' /\ MoverTypes'
    BY <1>3, NotAsked DEF Report, Types, PipeTypes, MainTypes, PCs, PlayerTypes, MoverTypes, player, move
  <2> QED BY <1>1, <2>1 DEF Types
<1> QED BY <1>2, <1>3

LEMMA TypesMain == ASSUME Types, Main PROVE Types'
<1>1. CASE Report
  BY <1>1, TypesReport
<1>2. ASSUME ~Report PROVE Types'
  <2>1. EngineTypes' /\ ReportTypes' /\ PlayerTypes' /\ MoverTypes'
    BY <1>2 DEF Main, StartCountdown, EndMoves, EndRound, PlayRound, Types, EngineTypes, ReportTypes,
         PlayerTypes, MoverTypes, engine, player, move, history, vars
  <2>2. MainTypes'
    <3>1. ASSUME NEW t \in Teams, EndRound(t) PROVE pc' \in PCs
      <4>1. t + 1 \in {1, 2, 3} /\ pc' = Ending(t + 1)
        BY <3>1 DEF EndRound, Teams
      <4> QED BY <4>1, EndingIn DEF PCs
    <3>2. EndMoves => pc' \in PCs
      BY EndingIn DEF EndMoves, PCs
    <3> QED BY <1>2, <3>1, <3>2 DEF Main, StartCountdown, EndMoves, EndRound, PlayRound, Types, MainTypes, PCs
  <2>3. PipeTypes'
    <3>1. CASE StartCountdown
      BY <3>1, MainWrites, TextFacts DEF StartCountdown
    <3>2. CASE EndMoves
      BY <3>2 DEF EndMoves, Types, PipeTypes, history
    <3>3. ASSUME NEW t \in Teams, EndRound(t) PROVE PipeTypes'
      <4>1. Positions(t, round) \in Text
        BY TextFacts, Bounds DEF Types, EngineTypes
      <4>2. CASE created[t]
        BY <3>3, <4>2 DEF EndRound, Types, PipeTypes
      <4>3. CASE ~created[t]
        <5>1. WriteText(0, Positions(t, round))
          BY <3>3, <4>3 DEF EndRound
        <5> QED BY <4>1, <5>1, MainWrites
      <4> QED BY <4>2, <4>3
    <3>4. CASE PlayRound
      BY <3>4, MainWrites, TextFacts DEF PlayRound
    <3> QED BY <1>2, <3>1, <3>2, <3>3, <3>4 DEF Main
  <2> QED BY <2>1, <2>2, <2>3 DEF Types
<1> QED BY <1>1, <1>2

LEMMA TypesStep == ASSUME Types, [DriverNext]_dvars PROVE Types'
<1>1. ASSUME NEW w \in Writers, WriteEnd(w) PROVE Types'
  <2>1. EngineTypes' /\ ReportTypes' /\ MainTypes' /\ PlayerTypes' /\ MoverTypes'
    BY <1>1 DEF WriteEnd, Types, EngineTypes, ReportTypes, MainTypes, PlayerTypes, MoverTypes, engine,
         player, move, history
  <2> QED BY <1>1, <2>1, EndedRow DEF Types
<1>2. CASE UNCHANGED dvars
  BY <1>2 DEF Types, EngineTypes, PipeTypes, ReportTypes, MainTypes, PlayerTypes, MoverTypes, dvars, vars,
       player, move, history
<1>3. CASE EngineRuns \/ Parse \/ Main
  BY <1>3, TypesReads, TypesReports, TypesMain DEF EngineRuns
<1>4. ASSUME NEW t \in Teams, Mover(t) \/ Player(t) \/ Poll(t) PROVE Types'
  BY <1>4, TypesMovers, TypesPlayers DEF Player
<1> QED BY <1>1, <1>2, <1>3, <1>4 DEF DriverNext
-----------------------------------------------------------------------------
(* What the changes of the rows do to what is said of them *)

\* The engine takes a row.
Takes == lines # <<>> /\ lines' = Tail(lines) /\ UNCHANGED <<open, unended, torn>>

LEMMA HoldsWritten ==
  ASSUME Types, NEW w \in Writers, NEW x \in Text, WriteText(w, x), NEW y
  PROVE  Holds(y)' <=> Holds(y) \/ x = y
  BY Written DEF Holds

LEMMA HoldsEnded ==
  ASSUME Types, NEW w \in Writers, WriteEnd(w), NEW y
  PROVE  Holds(y)' <=> Holds(y)
<1>1. Range(<<>>) = {}
  BY EmptyRange
<1> QED BY <1>1, EndedRow DEF Holds

LEMMA HoldsTaken ==
  ASSUME Types, Takes, NEW y
  PROVE  /\ Holds(y)' => Holds(y)
         /\ Holds(y) => Holds(y)' \/ y \in Range(Row(1))
         /\ y \in Range(Row(1)) => Holds(y)
         /\ Row(1)[1] \in Range(Row(1))
         /\ Row(1)[1] \in Text
<1>1. /\ 1 \in Rows /\ Rows = 1 .. Len(lines) + 1 /\ Rows' = 1 .. Len(lines) /\ Len(lines) \in Nat
      /\ \A i \in Rows' : i + 1 \in Rows /\ Row(i)' = Row(i + 1)
  BY TakenRow, RowFacts DEF Takes, Rows
<1>2. Row(1)[1] \in Range(Row(1)) /\ Row(1)[1] \in Text
  BY TakenRow, RowFacts DEF Takes
<1>3. Holds(y)' => Holds(y)
  BY <1>1 DEF Holds
<1>4. ASSUME NEW i \in Rows, y \in Range(Row(i)), i # 1 PROVE Holds(y)'
  <2>1. i - 1 \in Rows' /\ Row(i - 1)' = Row(i)
    BY <1>1, <1>4
  <2> QED BY <1>4, <2>1 DEF Holds
<1> QED BY <1>1, <1>2, <1>3, <1>4 DEF Holds

LEMMA HoldsSame ==
  ASSUME UNCHANGED <<lines, open>>, NEW y
  PROVE  Holds(y)' <=> Holds(y)
  BY SameRows DEF Holds

LEMMA OrderWritten ==
  ASSUME Types, Order, NEW w \in Writers, NEW x \in Text, WriteText(w, x), late => late',
         Holds(Play) => x.c = "positions" /\ late'
  PROVE  Order'
<1> SUFFICES ASSUME NEW i \in Rows', NEW j \in Rows', i < j, Play \in Range(Row(i)'),
                    NEW y \in Range(Row(j)')
             PROVE  y.c = "positions" /\ late'
  BY DEF Order
<1>1. i \in Rows /\ j \in Rows /\ i \in Nat /\ j \in Nat /\ j <= Len(lines) + 1 /\ Len(lines) \in Nat
  BY Written, RowFacts DEF Rows
<1>2. i # Len(lines) + 1
  BY <1>1
<1>3. Play \in Range(Row(i))
  BY <1>1, <1>2, Written
<1>4. Holds(Play)
  BY <1>1, <1>3 DEF Holds
<1>5. y \in Range(Row(j)) \/ y = x
  BY <1>1, Written
<1> QED BY <1>1, <1>3, <1>4, <1>5 DEF Order

LEMMA OrderEnded == ASSUME Types, Order, NEW w \in Writers, WriteEnd(w) PROVE Order'
<1> SUFFICES ASSUME NEW i \in Rows', NEW j \in Rows', i < j, Play \in Range(Row(i)'),
                    NEW y \in Range(Row(j)')
             PROVE  y.c = "positions" /\ late'
  BY DEF Order
<1>1. Range(<<>>) = {}
  BY EmptyRange
<1>2. i \in Rows /\ j \in Rows /\ Row(i)' = Row(i) /\ Row(j)' = Row(j)
  BY <1>1, EndedRow
<1>3. late' = late
  BY DEF WriteEnd, history
<1> QED BY <1>2, <1>3 DEF Order

\* Behind a text to play that was in the row that is taken there are only late positions.
LEMMA OrderTaken ==
  ASSUME Types, Order, Takes, UNCHANGED late
  PROVE  /\ Order'
         /\ Play \in Range(Row(1)) =>
              \A i \in Rows' : \A y \in Range(Row(i)') : y.c = "positions" /\ late
<1>1. /\ 1 \in Rows /\ \A i \in Rows' : i + 1 \in Rows /\ Row(i)' = Row(i + 1) /\ i \in Nat /\ i >= 1
  BY TakenRow DEF Rows, Takes
<1>2. ASSUME NEW i \in Rows', NEW j \in Rows', i < j, Play \in Range(Row(i)'), NEW y \in Range(Row(j)')
      PROVE  y.c = "positions" /\ late'
  <2>1. i + 1 < j + 1 /\ i + 1 \in Rows /\ j + 1 \in Rows /\ Play \in Range(Row(i + 1))
        /\ y \in Range(Row(j + 1))
    BY <1>1, <1>2
  <2> QED BY <2>1 DEF Order
<1>3. ASSUME Play \in Range(Row(1)), NEW i \in Rows', NEW y \in Range(Row(i)')
      PROVE  y.c = "positions" /\ late
  <2>1. 1 < i + 1 /\ i + 1 \in Rows /\ y \in Range(Row(i + 1))
    BY <1>1, <1>3
  <2> QED BY <1>1, <1>3, <2>1 DEF Order
<1> QED BY <1>2, <1>3 DEF Order

LEMMA OrderSame == ASSUME Order, UNCHANGED <<lines, open>>, late => late' PROVE Order'
  BY SameRows DEF Order

LEMMA TornWritten ==
  ASSUME Types, Torn, NEW w \in Writers, NEW x \in Text, WriteText(w, x)
  PROVE  Torn'
<1> SUFFICES ASSUME NEW i \in Rows', Len(Row(i)') > 1,
                    Countdown \in Range(Row(i)') \/ Play \in Range(Row(i)')
             PROVE  torn'
  BY DEF Torn
<1>1. i \in Rows /\ Len(Row(i)) \in Nat /\ (Row(i) = <<>> <=> Len(Row(i)) = 0)
  BY Written, RowFacts
<1>2. CASE i # Len(lines) + 1
  <2>1. Row(i)' = Row(i)
    BY <1>1, <1>2, Written
  <2>2. torn => torn'
    BY DEF WriteText, Types, PipeTypes
  <2> QED BY <1>1, <2>1, <2>2 DEF Torn
<1>3. CASE i = Len(lines) + 1
  <2>1. Len(Row(i)') = Len(Row(i)) + 1 /\ torn' = (torn \/ Row(i) # <<>>)
    BY <1>1, <1>3, Written
  <2>2. Len(Row(i)) # 0
    BY <1>1, <2>1
  <2> QED BY <1>1, <2>1, <2>2
<1> QED BY <1>2, <1>3

LEMMA TornEnded == ASSUME Types, Torn, NEW w \in Writers, WriteEnd(w) PROVE Torn'
<1>1. Range(<<>>) = {}
  BY EmptyRange
<1>2. torn' = torn
  BY DEF WriteEnd, history
<1> QED BY <1>1, <1>2, EndedRow DEF Torn

LEMMA TornTaken == ASSUME Types, Torn, Takes PROVE Torn'
  BY TakenRow DEF Torn, Takes

LEMMA MadeUpWritten ==
  ASSUME Types, NEW t \in Teams, MadeUp(t), NEW w \in Writers, NEW x \in Text, WriteText(w, x), ~torn',
         UNCHANGED round
  PROVE  MadeUp(t)'
<1>1. PICK i \in Rows : /\ Row(i) = <<Positions(t, round)>>
                        /\ \A k \in Rows : Play \in Range(Row(k)) => i < k
  BY DEF MadeUp
<1>2. Row(i) # <<>>
  BY <1>1
<1>3. i # Len(lines) + 1
  BY <1>2, Written
<1>4. i \in Rows' /\ Row(i)' = <<Positions(t, round)>>' /\ i < Len(lines) + 1
  BY <1>1, <1>3, Written, RowFacts DEF Rows, Positions
<1>5. ASSUME NEW k \in Rows', Play \in Range(Row(k)') PROVE i < k
  BY <1>1, <1>4, <1>5, Written
<1> QED BY <1>4, <1>5 DEF MadeUp

LEMMA MadeUpEnded ==
  ASSUME Types, NEW t \in Teams, MadeUp(t), NEW w \in Writers, WriteEnd(w)
  PROVE  MadeUp(t)'
<1>1. Range(<<>>) = {}
  BY EmptyRange
<1>2. round' = round
  BY DEF WriteEnd, engine
<1> QED BY <1>1, <1>2, EndedRow DEF MadeUp, Positions

LEMMA MadeUpTaken ==
  ASSUME Types, NEW t \in Teams, MadeUp(t), Takes, Row(1) # <<Positions(t, round)>>, UNCHANGED round
  PROVE  MadeUp(t)' /\ Play \notin Range(Row(1))
<1>1. PICK i \in Rows : /\ Row(i) = <<Positions(t, round)>>
                        /\ \A k \in Rows : Play \in Range(Row(k)) => i < k
  BY DEF MadeUp
<1>2. i # 1 /\ i \in Nat /\ i >= 1 /\ i <= Len(lines) + 1 /\ Len(lines) \in Nat
  BY <1>1, RowFacts DEF Rows
<1>3. /\ 1 \in Rows /\ Rows' = 1 .. Len(lines)
      /\ \A k \in Rows' : k + 1 \in Rows /\ Row(k)' = Row(k + 1)
  BY TakenRow DEF Takes
<1>4. i - 1 \in Rows' /\ (i - 1) + 1 = i
  BY <1>2, <1>3
<1>5. Row(i - 1)' = Row(i)
  BY <1>3, <1>4
<1>6. ASSUME NEW k \in Rows', Play \in Range(Row(k)') PROVE i - 1 < k
  <2>1. i < k + 1
    BY <1>1, <1>3, <1>6
  <2> QED BY <2>1, <1>2, <1>3
<1>7. Play \notin Range(Row(1))
  BY <1>1, <1>2, <1>3
<1> QED BY <1>1, <1>4, <1>5, <1>6, <1>7 DEF MadeUp, Positions

LEMMA MadeUpSame ==
  ASSUME NEW t \in Teams, MadeUp(t), UNCHANGED <<lines, open, round>>
  PROVE  MadeUp(t)'
  BY SameRows DEF MadeUp, Positions
-----------------------------------------------------------------------------
(* Reports *)

LEMMA ParsedReport ==
  ASSUME stderr \in Seq(Reports), stderr # <<>>, stderr' = Tail(stderr)
  PROVE  /\ stderr' \in Seq(Reports) /\ Len(stderr') = Len(stderr) - 1 /\ Len(stderr) \in Nat
         /\ \A i \in 1 .. Len(stderr') : stderr'[i] = stderr[i + 1]
         /\ Head(stderr) = stderr[1] /\ Len(stderr) >= 1 /\ stderr[1] \in Reports
<1>1. Len(stderr) \in Nat /\ Len(stderr) # 0
  BY EmptySeq
<1>2. Head(stderr) = stderr[1] /\ stderr[1] \in Reports
  BY <1>1, ElementOfSeq
<1>3. /\ Tail(stderr) \in Seq(Reports) /\ Len(Tail(stderr)) = Len(stderr) - 1
      /\ \A i \in 1 .. Len(Tail(stderr)) : Tail(stderr)[i] = stderr[i + 1]
  BY HeadTailProperties
<1> QED BY <1>1, <1>2, <1>3

LEMMA OneReportStep ==
  ASSUME IInv, [DriverNext]_dvars
  PROVE  OneReport'
<1>1. CASE UNCHANGED <<stderr, Gs>>
  BY <1>1 DEF IInv, OneReport
<1>2. stderr \in Seq(Reports) /\ Gs \in Seq(Reports)
  BY DEF IInv, Types, ReportTypes
<1>3. CASE EngineGoesOn
  <2>1. PICK r \in Reports : /\ stderr' = Append(stderr, r) /\ UNCHANGED Gs
                             /\ r = "waiting" => stage = "playing"
    BY <1>3 DEF EngineGoesOn, Reports, End
  <2>2. /\ Len(stderr') = Len(stderr) + 1 /\ stderr' \in Seq(Reports)
        /\ \A i \in 1 .. Len(stderr) : stderr'[i] = stderr[i]
        /\ stderr'[Len(stderr) + 1] = r
        /\ Range(stderr') = Range(stderr) \cup {r} /\ Len(stderr) \in Nat
    BY <1>2, <2>1, AppendProperties, AppendRange, LenProperties
  <2>3. DOMAIN stderr = 1 .. Len(stderr) /\ DOMAIN stderr' = 1 .. Len(stderr) + 1
    BY <1>2, <2>2, LenProperties
  <2>4. CASE r # "waiting"
    BY <2>1, <2>2, <2>3, <2>4 DEF IInv, OneReport
  <2>5. CASE r = "waiting"
    <3>1. "waiting" \notin Range(stderr) \cup Range(Gs)
      BY <2>1, <2>5 DEF IInv, Tokens, Asked, Owing
    <3>2. \A i \in 1 .. Len(stderr) : stderr[i] # "waiting"
      BY <1>2, <3>1, InRange
    <3> QED BY <2>1, <2>2, <2>3, <3>1, <3>2 DEF OneReport
  <2> QED BY <2>4, <2>5
<1>4. CASE Parse
  <2>1. stderr # <<>> /\ stderr' = Tail(stderr) /\ (Gs' = <<Head(stderr)>> \/ Gs' = Gs)
    BY <1>4 DEF Parse
  <2>2. /\ stderr' \in Seq(Reports) /\ Len(stderr') = Len(stderr) - 1 /\ Len(stderr) \in Nat
        /\ \A i \in 1 .. Len(stderr') : stderr'[i] = stderr[i + 1]
        /\ Head(stderr) = stderr[1] /\ Len(stderr) >= 1 /\ stderr[1] \in Reports
    BY <1>2, <2>1, ParsedReport
  <2>3. DOMAIN stderr = 1 .. Len(stderr) /\ DOMAIN stderr' = 1 .. Len(stderr) - 1
    BY <1>2, <2>2, LenProperties
  <2>4. \A i, j \in DOMAIN stderr' : stderr'[i] = "waiting" /\ stderr'[j] = "waiting" => i = j
    <3> SUFFICES ASSUME NEW i \in DOMAIN stderr', NEW j \in DOMAIN stderr',
                        stderr'[i] = "waiting", stderr'[j] = "waiting"
                 PROVE  i = j
      OBVIOUS
    <3>1. i + 1 \in DOMAIN stderr /\ j + 1 \in DOMAIN stderr
          /\ stderr[i + 1] = "waiting" /\ stderr[j + 1] = "waiting"
      BY <2>2, <2>3
    <3>2. i + 1 = j + 1
      BY <3>1 DEF IInv, OneReport
    <3> QED BY <2>3, <3>2
  <2>5. ASSUME "waiting" \in Range(stderr') PROVE "waiting" \notin Range(Gs')
    <3>1. PICK i \in 1 .. Len(stderr') : stderr'[i] = "waiting"
      BY <2>2, <2>5, InRange
    <3>2. i + 1 \in DOMAIN stderr /\ stderr[i + 1] = "waiting" /\ i + 1 # 1 /\ 1 \in DOMAIN stderr
      BY <2>2, <2>3, <3>1
    <3>3. stderr[1] # "waiting"
      BY <3>2 DEF IInv, OneReport
    <3>4. "waiting" \in Range(stderr)
      BY <3>2 DEF Range
    <3>5. CASE Gs' = Gs
      BY <3>4, <3>5 DEF IInv, OneReport
    <3>6. CASE Gs' = <<Head(stderr)>>
      <4>1. Gs' \in Seq(Reports) /\ Len(Gs') = 1 /\ Gs'[1] = stderr[1]
        BY <2>2, <3>6
      <4> QED BY <3>3, <4>1, InRange
    <3> QED BY <2>1, <3>5, <3>6
  <2> QED BY <2>4, <2>5 DEF OneReport
<1>5. CASE Report
  <2>1. Gs' = <<>> /\ stderr' = stderr /\ Range(<<>>) = {}
    BY <1>5, ReportFacts, EmptyRange DEF Report, IInv
  <2> QED BY <2>1 DEF IInv, OneReport
<1> QED
  BY <1>1, <1>3, <1>4, <1>5 DEF DriverNext, EngineRuns, Main, Mover, Player, dvars, EngineReads, WriteEnd,
     Answer, SendAnswer, GiveUp, Poll, WritePositions, Leave, StartCountdown, EndMoves, EndRound, PlayRound

\* What the steps of the reports do to what has been reported.
LEMMA ReportsMove ==
  ASSUME Types
  PROVE  /\ UNCHANGED <<stderr, Gs>> => (Asked' <=> Asked) /\ (Finished' <=> Finished)
         /\ Parse => (Asked' => Asked) /\ (Finished' => Finished)
         /\ Report => /\ Asked' => Asked
                      /\ Finished' => Finished
                      /\ Head(Gs) = "waiting" => Asked
                      /\ Head(Gs) = "finished" => Finished
         /\ \A r \in Reports : stderr' = Append(stderr, r) /\ UNCHANGED Gs =>
              (Asked' <=> Asked \/ r = "waiting") /\ (Finished' <=> Finished \/ r = "finished")
<1>1. stderr \in Seq(Reports) /\ Gs \in Seq(Reports)
  BY DEF Types, ReportTypes
<1>2. UNCHANGED <<stderr, Gs>> => (Asked' <=> Asked) /\ (Finished' <=> Finished)
  BY DEF Asked, Finished
<1>3. ASSUME Parse PROVE (Asked' => Asked) /\ (Finished' => Finished)
  <2>1. stderr # <<>> /\ stderr' = Tail(stderr) /\ (Gs' = <<Head(stderr)>> \/ Gs' = Gs)
    BY <1>3 DEF Parse
  <2>2. /\ stderr' \in Seq(Reports) /\ Len(stderr') = Len(stderr) - 1 /\ Len(stderr) \in Nat
        /\ \A i \in 1 .. Len(stderr') : stderr'[i] = stderr[i + 1]
        /\ Head(stderr) = stderr[1] /\ Len(stderr) >= 1
    BY <1>1, <2>1, ParsedReport
  <2>3. ASSUME NEW r \in Range(stderr') PROVE r \in Range(stderr)
    <3>1. PICK i \in 1 .. Len(stderr') : stderr'[i] = r
      BY <2>2, InRange
    <3>2. i + 1 \in 1 .. Len(stderr) /\ stderr[i + 1] = r
      BY <2>2, <3>1
    <3> QED BY <1>1, <3>2, InRange
  <2>4. ASSUME NEW r \in Range(Gs') PROVE r \in Range(stderr) \cup Range(Gs)
    <3>1. CASE Gs' = Gs
      BY <2>4, <3>1
    <3>2. CASE Gs' = <<Head(stderr)>>
      <4>1. 1 \in 1 .. Len(stderr) /\ stderr[1] \in Range(stderr) /\ stderr[1] \in Reports
        BY <1>1, <2>2, InRange
      <4>2. Gs' \in Seq(Reports) /\ Len(Gs') = 1 /\ Gs'[1] = stderr[1]
        BY <2>2, <3>2, <4>1
      <4> QED BY <2>4, <4>1, <4>2, InRange
    <3> QED BY <2>1, <3>1, <3>2
  <2> QED BY <2>3, <2>4 DEF Asked, Finished
<1>4. ASSUME Report
      PROVE  /\ (Asked' => Asked) /\ (Finished' => Finished)
             /\ Head(Gs) = "waiting" => Asked
             /\ Head(Gs) = "finished" => Finished
  <2>1. Gs' = <<>> /\ stderr' = stderr /\ Range(<<>>) = {} /\ Range(Gs) = {Head(Gs)}
    BY <1>4, ReportFacts, EmptyRange DEF Report
  <2> QED BY <2>1 DEF Asked, Finished
<1>5. ASSUME NEW r \in Reports, stderr' = Append(stderr, r), UNCHANGED Gs
      PROVE  (Asked' <=> Asked \/ r = "waiting") /\ (Finished' <=> Finished \/ r = "finished")
  <2>1. Range(stderr') = Range(stderr) \cup {r}
    BY <1>1, <1>5, AppendRange
  <2> QED BY <1>5, <2>1 DEF Asked, Finished
<1> QED BY <1>2, <1>3, <1>4, <1>5
-----------------------------------------------------------------------------
(* The token *)

LEMMA ReadsTakes == ASSUME EngineReads PROVE Takes /\ Owing
  BY DEF EngineReads, Takes, Owing, history

\* What the engine reads as the text to play, or ends at, is a text of main.
LEMMA ReadsKinds ==
  ASSUME Types, EngineReads
  PROVE  /\ \/ UNCHANGED vars /\ (known' = known \/ Row(1)[1].c = "positions")
            \/ Fail /\ UNCHANGED known /\ Undone /\ (Holds(Play) \/ Holds(Countdown))
            \/ /\ Placed /\ Row(1) = <<Play>> /\ known' = [t \in Teams |-> NoList]
               /\ Holds(Play)
         /\ Row(1)[1].c # "positions" => Holds(Play) \/ Holds(Countdown)
<1>1. Row(1)[1] \in Range(Row(1)) /\ \A y : y \in Range(Row(1)) => Holds(y)
  BY ReadsTakes, HoldsTaken
<1>2. CASE Row(1)[1].c = "positions"
  BY <1>2, ReadsPositions
<1>3. CASE Row(1)[1].c # "positions"
  <2>1. Row(1)[1] \in {Countdown, Play}
    BY <1>3, ReadsOther
  <2>2. Row(1) = <<Play>> => Row(1)[1] = Play
    BY Single
  <2>3. Holds(Row(1)[1])
    BY <1>1
  <2>4. Holds(Play) \/ Holds(Countdown)
    <3>1. CASE Row(1)[1] = Play
      BY <2>3, <3>1
    <3>2. CASE Row(1)[1] = Countdown
      BY <2>3, <3>2
    <3> QED BY <2>1, <3>1, <3>2
  <2>5. Row(1) = <<Play>> => Holds(Play)
    BY <2>2, <2>3
  <2> QED BY <1>3, <2>4, <2>5, ReadsOther
<1> QED BY <1>2, <1>3

LEMMA TokensReads == ASSUME IInv, EngineReads PROVE Tokens'
<1> USE DEF IInv
<1>1. Takes /\ Owing /\ UNCHANGED <<pc, stderr, Gs, late>>
  BY ReadsTakes DEF EngineReads, history
<1>2. /\ Asked' <=> Asked
      /\ Finished' <=> Finished
  BY <1>1, ReportsMove
<1>3. \A y : (Holds(y)' => Holds(y)) /\ (Holds(y) => Holds(y)' \/ y \in Range(Row(1)))
  BY <1>1, HoldsTaken
<1>4. Play \in Range(Row(1)) => ~Holds(Play)' /\ ~Holds(Countdown)'
  BY <1>1, OrderTaken, TextFacts DEF Holds
<1>5. Owing' \/ (stage' = "failed" /\ (Holds(Play) \/ Holds(Countdown)))
      \/ (Placed /\ Row(1) = <<Play>> /\ Holds(Play) /\ Play \in Range(Row(1)))
  <2>1. Row(1)[1] \in Range(Row(1))
    BY <1>1, HoldsTaken
  <2>2. Row(1) = <<Play>> => Play \in Range(Row(1))
    BY <2>1, Single
  <2> QED BY <1>1, <2>2, ReadsKinds DEF Owing, Fail, vars
<1>6. ~Finished /\ pc # "over"
  BY <1>1 DEF Tokens, Owing
<1> QED BY <1>1, <1>2, <1>3, <1>4, <1>5, <1>6 DEF Tokens, Working

LEMMA TokensGoesOn == ASSUME IInv, EngineGoesOn PROVE Tokens'
<1> USE DEF IInv
<1>1. \A y : Holds(y)' <=> Holds(y)
  BY HoldsSame DEF EngineGoesOn
<1>2. PICK r \in Reports : /\ stderr' = Append(stderr, r)
                           /\ r = "waiting" => stage = "playing" /\ Owing'
                           /\ r = "finished" => stage = "playing" /\ stage' = "finished"
                           /\ r = "playing" => stage = "waiting" /\ ~owed /\ stage' = "playing"
  BY DEF EngineGoesOn, Reports, Start, End, Finish, Owing
<1>3. /\ Asked' <=> Asked \/ r = "waiting"
      /\ Finished' <=> Finished \/ r = "finished"
  BY <1>2, ReportsMove DEF EngineGoesOn
<1>4. ~Owing /\ stage # "failed" /\ stage # "finished" /\ pc' = pc
  BY <1>2 DEF Owing, EngineGoesOn, Reports
<1>5. ~Asked /\ ~Working /\ ~Finished /\ pc # "over" /\ ~Holds(Play) /\ ~Holds(Countdown)
  BY <1>4 DEF Tokens
<1>6. pc = "report"
  BY <1>5 DEF Types, MainTypes, PCs, Working
<1> QED BY <1>1, <1>2, <1>3, <1>4, <1>5, <1>6 DEF Tokens, Working

LEMMA TokensReport == ASSUME IInv, Report PROVE Tokens'
<1> USE DEF IInv
<1>1. (\A y : Holds(y)' <=> Holds(y)) /\ pc = "report" /\ UNCHANGED <<stage, owed>>
  BY HoldsSame DEF Report, engine
<1>2. /\ (Asked' => Asked) /\ (Finished' => Finished)
      /\ Head(Gs) = "waiting" => Asked
      /\ Head(Gs) = "finished" => Finished
  BY ReportsMove
<1>3. CASE Head(Gs) = "waiting"
  <2>1. pc' = "countdown" /\ Asked
    BY <1>2, <1>3, AskedFor
  <2>2. ~Asked'
    <3>1. "waiting" \in Range(Gs) /\ stderr' = stderr /\ Gs' = <<>> /\ Range(Gs') = {}
      BY <1>3, ReportFacts, EmptyRange DEF Report
    <3>2. "waiting" \notin Range(stderr)
      BY <3>1 DEF OneReport
    <3> QED BY <3>1, <3>2 DEF Asked
  <2> QED BY <1>1, <1>2, <2>1, <2>2 DEF Tokens, Working, Owing
<1>4. CASE Head(Gs) # "waiting"
  <2>1. IF Head(Gs) = "finished" THEN pc' = "over" ELSE pc' = pc
    BY <1>4, NotAsked
  <2>2. CASE Head(Gs) = "finished"
    <3>1. stage = "finished" /\ pc' = "over"
      BY <1>2, <2>1, <2>2 DEF Tokens
    <3>2. ~Asked /\ ~Holds(Play) /\ ~Holds(Countdown)
      BY <1>1, <3>1 DEF Tokens, Owing, Working
    <3> QED BY <1>1, <1>2, <3>1, <3>2 DEF Tokens, Working, Owing
  <2>3. CASE Head(Gs) # "finished"
    BY <1>1, <1>2, <2>1, <2>3 DEF Tokens, Working, Owing
  <2> QED BY <2>2, <2>3
<1> QED BY <1>3, <1>4

\* A step that moves no report and not the engine, and leaves main where it is, or has it go on
\* with its work.
LEMMA TokensElse ==
  ASSUME IInv, [DriverNext]_dvars, ~EngineReads, ~EngineGoesOn, ~Report
  PROVE  Tokens'
<1> USE DEF IInv
<1>1. UNCHANGED <<stage, owed>>
  BY DEF DriverNext, EngineRuns, Parse, Main, Mover, Player, WriteEnd, Answer, SendAnswer, GiveUp, Poll,
     WritePositions, Leave, StartCountdown, EndMoves, EndRound, PlayRound, engine, dvars, vars
<1>2. (Asked' => Asked) /\ (Finished' => Finished)
  <2>1. Parse \/ UNCHANGED <<stderr, Gs>>
    BY DEF DriverNext, EngineRuns, Main, Mover, Player, WriteEnd, Answer, SendAnswer, GiveUp, Poll,
       WritePositions, Leave, StartCountdown, EndMoves, EndRound, PlayRound, dvars
  <2> QED BY <2>1, ReportsMove
<1>3. CASE Main
  <2>1. CASE StartCountdown
    <3>1. WriteText(0, Countdown) /\ pc = "countdown" /\ pc' = "select" /\ 0 \in Writers
      BY <2>1 DEF StartCountdown, Writers
    <3>2. \A y : Holds(y)' <=> Holds(y) \/ y = Countdown
      BY <3>1, HoldsWritten, TextFacts
    <3> QED BY <1>1, <1>2, <3>1, <3>2, TextFacts DEF Tokens, Working, Owing
  <2>2. CASE EndMoves
    <3>1. pc = "select" /\ pc' \in {"end1", "end2", "play"} /\ \A y : Holds(y)' <=> Holds(y)
      BY <2>2, EndingIn, HoldsSame DEF EndMoves
    <3> QED BY <1>1, <1>2, <3>1 DEF Tokens, Working, Owing
  <2>3. ASSUME NEW t \in Teams, EndRound(t) PROVE Tokens'
    <3>1. pc \in {"end1", "end2"} /\ pc' \in {"end1", "end2", "play"}
      <4>1. t + 1 \in {1, 2, 3} /\ pc' = Ending(t + 1) /\ pc = EndOf(t)
        BY <2>3 DEF EndRound, Teams
      <4> QED BY <4>1, EndingIn DEF EndOf
    <3>2. (Holds(Play)' <=> Holds(Play)) /\ (Holds(Countdown)' <=> Holds(Countdown))
      <4>1. CASE created[t]
        BY <2>3, <4>1, HoldsSame DEF EndRound
      <4>2. CASE ~created[t]
        <5>1. WriteText(0, Positions(t, round)) /\ 0 \in Writers /\ round \in Lists
          BY <2>3, <4>2, Bounds DEF EndRound, Writers, Types, EngineTypes
        <5> QED BY <5>1, HoldsWritten, TextFacts
      <4> QED BY <4>1, <4>2
    <3> QED BY <1>1, <1>2, <3>1, <3>2 DEF Tokens, Working, Owing
  <2>4. CASE PlayRound
    <3>1. WriteText(0, Play) /\ pc = "play" /\ pc' = "report" /\ 0 \in Writers
      BY <2>4 DEF PlayRound, Writers
    <3>2. \A y : Holds(y)' <=> Holds(y) \/ y = Play
      BY <3>1, HoldsWritten, TextFacts
    <3> QED BY <1>1, <1>2, <3>1, <3>2, TextFacts DEF Tokens, Working, Owing
  <2> QED BY <1>3, <2>1, <2>2, <2>3, <2>4 DEF Main
<1>4. CASE ~Main
  <2>1. pc' = pc
    BY <1>4 DEF DriverNext, EngineRuns, Parse, Mover, Player, WriteEnd, Answer, SendAnswer, GiveUp, Poll,
       WritePositions, Leave, dvars
  <2>2. (Holds(Play)' <=> Holds(Play)) /\ (Holds(Countdown)' <=> Holds(Countdown))
    <3>1. ASSUME NEW w \in Writers, WriteEnd(w)
          PROVE  (Holds(Play)' <=> Holds(Play)) /\ (Holds(Countdown)' <=> Holds(Countdown))
      BY <3>1, HoldsEnded
    <3>2. ASSUME NEW t \in Teams, WritePositions(t)
          PROVE  (Holds(Play)' <=> Holds(Play)) /\ (Holds(Countdown)' <=> Holds(Countdown))
      <4>1. t \in Writers /\ Head(out[t]) \in Lists /\ WriteText(t, Positions(t, Head(out[t])))
        BY <3>2, HeadTailProperties DEF WritePositions, Types, MoverTypes, Writers, Teams
      <4> QED BY <4>1, HoldsWritten, TextFacts
    <3>3. UNCHANGED <<lines, open>> \/ (\E w \in Writers : WriteEnd(w)) \/ (\E t \in Teams : WritePositions(t))
      BY <1>4 DEF DriverNext, EngineRuns, Parse, Mover, Player, Answer, SendAnswer, GiveUp, Poll, Leave, dvars
    <3> QED BY <3>1, <3>2, <3>3, HoldsSame
  <2> QED BY <1>1, <1>2, <2>1, <2>2 DEF Tokens, Working, Owing
<1> QED BY <1>3, <1>4

LEMMA TokensStep == ASSUME IInv, [DriverNext]_dvars PROVE Tokens'
  BY TokensReads, TokensGoesOn, TokensReport, TokensElse
-----------------------------------------------------------------------------
(* The lines *)

\* What a mover writes.
LEMMA MoverWrites ==
  ASSUME IInv, NEW t \in Teams, WritePositions(t)
  PROVE  /\ t \in Writers /\ Head(out[t]) \in Lists /\ Positions(t, Head(out[t])) \in Text
         /\ WriteText(t, Positions(t, Head(out[t])))
         /\ late' = (late \/ cancelled)
         /\ Holds(Play) => cancelled
         /\ ~cancelled => /\ Head(out[t]) \in {NoList, round}
                          /\ Working
<1> USE DEF IInv
<1>1. /\ out[t] \in Seq(Lists) /\ out[t] # <<>> /\ moving[t] /\ t \in Writers
      /\ WriteText(t, Positions(t, Head(out[t]))) /\ late' = (late \/ cancelled)
  BY DEF WritePositions, Types, MoverTypes, Writers, Teams
<1>2. Head(out[t]) = out[t][1] /\ 1 \in 1 .. Len(out[t]) /\ Head(out[t]) \in Lists
  BY <1>1, EmptySeq, ElementOfSeq
<1>3. ~cancelled => pc \in {"countdown", "select"} /\ Head(out[t]) \in {NoList, round}
  BY <1>1, <1>2 DEF Movers
<1>4. Holds(Play) => pc = "report"
  BY DEF Tokens
<1> QED BY <1>1, <1>2, <1>3, <1>4, TextFacts DEF Working

\* What main writes.
MainText == {Countdown, Play} \cup {Positions(t, round) : t \in Teams}

LEMMA MainWritesOnly ==
  ASSUME IInv, Main, ~UNCHANGED <<lines, open>>
  PROVE  /\ ~Report /\ Working /\ ~Holds(Play) /\ 0 \in Writers
         /\ \E x \in MainText : x \in Text /\ WriteText(0, x)
         /\ UNCHANGED <<late, engine, stderr, Gs, cancelled, player, move>>
<1> USE DEF IInv
<1>1. 0 \in Writers /\ MainText \subseteq Text
  BY Bounds, TextFacts DEF Writers, MainText, Types, EngineTypes
<1>2. ~Report /\ ~EndMoves
  BY DEF Report, EndMoves
<1>3. CASE StartCountdown
  BY <1>1, <1>2, <1>3 DEF StartCountdown, MainText, Working, Tokens
<1>4. ASSUME NEW t \in Teams, EndRound(t)
      PROVE  /\ Working /\ \E x \in MainText : WriteText(0, x)
             /\ UNCHANGED <<late, engine, stderr, Gs, cancelled, player, move>>
  <2>1. ~created[t] /\ pc \in {"end1", "end2"}
    BY <1>4 DEF EndRound, EndOf
  <2>2. WriteText(0, Positions(t, round))
    BY <1>4, <2>1 DEF EndRound
  <2>3. Positions(t, round) \in MainText
    BY DEF MainText
  <2> QED BY <1>4, <2>1, <2>2, <2>3 DEF EndRound, Working
<1>5. CASE PlayRound
  BY <1>1, <1>2, <1>5 DEF PlayRound, MainText, Working, Tokens
<1> QED BY <1>1, <1>2, <1>3, <1>4, <1>5 DEF Main, Tokens

\* The steps, by what they do to the lines.
LEMMA LineSteps ==
  ASSUME [DriverNext]_dvars
  PROVE  \/ EngineReads
         \/ \E w \in Writers : WriteEnd(w)
         \/ \E t \in Teams : WritePositions(t)
         \/ Main
         \/ UNCHANGED <<lines, open, torn, late>>
  BY DEF DriverNext, EngineRuns, EngineGoesOn, Parse, Mover, Player, Answer, SendAnswer, GiveUp, Poll, Leave,
     dvars, history

LEMMA OrderStep == ASSUME IInv, [DriverNext]_dvars PROVE Order'
<1> USE DEF IInv
<1>1. CASE EngineReads
  BY <1>1, ReadsTakes, OrderTaken DEF EngineReads, history
<1>2. ASSUME NEW w \in Writers, WriteEnd(w) PROVE Order'
  BY <1>2, OrderEnded
<1>3. ASSUME NEW t \in Teams, WritePositions(t) PROVE Order'
  <2>1. late => late'
    BY <1>3, MoverWrites DEF Types, MoverTypes
  <2>2. Holds(Play) => late'
    BY <1>3, MoverWrites DEF Types, MainTypes
  <2> QED BY <1>3, <2>1, <2>2, MoverWrites, OrderWritten, TextFacts
<1>4. CASE Main /\ ~UNCHANGED <<lines, open>>
  <2>1. PICK x \in Text : WriteText(0, x)
    BY <1>4, MainWritesOnly
  <2>2. ~Holds(Play) /\ 0 \in Writers /\ late' = late
    BY <1>4, MainWritesOnly
  <2> QED BY <2>1, <2>2, OrderWritten
<1>5. CASE Main /\ UNCHANGED <<lines, open>>
  BY <1>5, OrderSame DEF Main, Report, StartCountdown, EndMoves, EndRound, PlayRound, history
<1>6. CASE UNCHANGED <<lines, open, torn, late>>
  BY <1>6, OrderSame
<1> QED BY <1>1, <1>2, <1>3, <1>4, <1>5, <1>6, LineSteps

LEMMA TornStep == ASSUME IInv, [DriverNext]_dvars PROVE Torn'
<1> USE DEF IInv
<1>1. CASE EngineReads
  BY <1>1, ReadsTakes, TornTaken
<1>2. ASSUME NEW w \in Writers, WriteEnd(w) PROVE Torn'
  BY <1>2, TornEnded
<1>3. ASSUME NEW t \in Teams, WritePositions(t) PROVE Torn'
  BY <1>3, MoverWrites, TornWritten
<1>4. CASE Main /\ ~UNCHANGED <<lines, open>>
  BY <1>4, MainWritesOnly, TornWritten
<1>5. CASE Main /\ UNCHANGED <<lines, open>>
  <2>1. CASE Report /\ Head(Gs) = "waiting"
    <3>1. ~Holds(Play) /\ ~Holds(Countdown)
      BY <2>1, ReportsMove DEF Tokens
    <3>2. ~Holds(Play)' /\ ~Holds(Countdown)'
      BY <1>5, <3>1, HoldsSame
    <3> QED BY <3>2 DEF Torn, Holds
  <2>2. CASE torn => torn'
    BY <1>5, <2>2, SameRows DEF Torn
  <2>3. (Report /\ Head(Gs) = "waiting") \/ (torn => torn')
    BY <1>5, NotAsked DEF Main, StartCountdown, EndMoves, EndRound, PlayRound, WriteText, history, Types, PipeTypes
  <2> QED BY <2>1, <2>2, <2>3
<1>6. CASE UNCHANGED <<lines, open, torn, late>>
  BY <1>6, SameRows DEF Torn
<1> QED BY <1>1, <1>2, <1>3, <1>4, <1>5, <1>6, LineSteps
-----------------------------------------------------------------------------
(* The movers *)

LEMMA MoversInit == DriverInit => Movers
<1> SUFFICES ASSUME DriverInit PROVE Movers
  OBVIOUS
<1>1. \A t \in Teams : out[t] = <<>> /\ ~moving[t] /\ asked[t] = "off" /\ Len(out[t]) = 0
  BY DEF DriverInit
<1> QED BY <1>1 DEF Movers

LEMMA MoversStep == ASSUME IInv, [DriverNext]_dvars PROVE Movers'
<1> USE DEF IInv
<1> SUFFICES ASSUME ~cancelled'
             PROVE  /\ \A t \in Teams : \A i \in 1 .. Len(out'[t]) : out'[t][i] \in {NoList, round'}
                    /\ \/ pc' \in {"countdown", "select"}
                       \/ \A t \in Teams : out'[t] = <<>> /\ ~moving'[t] /\ asked'[t] = "off"
  BY DEF Movers
<1>1. CASE Report /\ Head(Gs) = "waiting"
  BY <1>1, AskedFor DEF Report, engine
<1>2. CASE EndMoves
  BY <1>2 DEF EndMoves
<1>3. ASSUME ~cancelled, UNCHANGED <<out, moving, asked, round, pc>>
      PROVE  /\ \A t \in Teams : \A i \in 1 .. Len(out'[t]) : out'[t][i] \in {NoList, round'}
             /\ \/ pc' \in {"countdown", "select"}
                \/ \A t \in Teams : out'[t] = <<>> /\ ~moving'[t] /\ asked'[t] = "off"
  BY <1>3 DEF Movers
<1>4. CASE ~(Report /\ Head(Gs) = "waiting") /\ ~EndMoves
  <2>1. cancelled' = cancelled
    BY <1>4, NotAsked DEF DriverNext, EngineRuns, EngineReads, EngineGoesOn, Parse, Main, Mover, Player,
       WriteEnd, Answer, SendAnswer, GiveUp, Poll, WritePositions, Leave, StartCountdown, EndRound, PlayRound, dvars
  <2>2. ASSUME NEW t \in Teams, Mover(t) \/ Player(t) \/ Poll(t)
        PROVE  /\ \A u \in Teams : \A i \in 1 .. Len(out'[u]) : out'[u][i] \in {NoList, round'}
               /\ \/ pc' \in {"countdown", "select"}
                  \/ \A u \in Teams : out'[u] = <<>> /\ ~moving'[u] /\ asked'[u] = "off"
    <3>1. UNCHANGED <<round, pc>>
      BY <2>2 DEF Mover, Player, Answer, SendAnswer, GiveUp, Poll, WritePositions, Leave, engine
    <3>2. pc \in {"countdown", "select"}
      <4>1. moving[t] \/ asked[t] # "off"
        BY <2>2 DEF Mover, Player, Answer, SendAnswer, GiveUp, Poll, WritePositions, Leave
      <4> QED BY <4>1, <2>1 DEF Movers
    <3>3. out[t] \in Seq(Lists) /\ \A u \in Teams : u # t => out'[u] = out[u]
      BY <2>2 DEF Types, MoverTypes, Mover, Player, Answer, SendAnswer, GiveUp, Poll, WritePositions, Leave, move
    <3>4. \/ out'[t] = out[t] \/ out'[t] = <<>>
          \/ out[t] # <<>> /\ out'[t] = Tail(out[t])
          \/ \E made \in {NoList, round} : out'[t] = Append(out[t], made)
      BY <2>2 DEF Types, MoverTypes, Mover, Player, Answer, SendAnswer, GiveUp, Poll, WritePositions, Leave, move
    <3>5. \A i \in 1 .. Len(out[t]) : out[t][i] \in {NoList, round}
      BY <2>1 DEF Movers
    <3>6. \A i \in 1 .. Len(out'[t]) : out'[t][i] \in {NoList, round}
      <4>1. CASE out'[t] = out[t]
        BY <3>5, <4>1
      <4>2. CASE out'[t] = <<>>
        BY <4>2
      <4>3. CASE out[t] # <<>> /\ out'[t] = Tail(out[t])
        BY <3>3, <3>5, <4>3, HeadTailProperties, LenProperties
      <4>4. ASSUME NEW made \in {NoList, round}, out'[t] = Append(out[t], made)
            PROVE  \A i \in 1 .. Len(out'[t]) : out'[t][i] \in {NoList, round}
        <5>1. made \in Lists
          BY Bounds DEF Types, EngineTypes
        <5> QED BY <3>3, <3>5, <4>4, <5>1, AppendProperties, LenProperties
      <4> QED BY <3>4, <4>1, <4>2, <4>3, <4>4
    <3> QED BY <2>1, <3>1, <3>2, <3>3, <3>5, <3>6 DEF Movers
  <2>3. CASE EngineGoesOn
    <3>1. pc' = pc /\ ~cancelled /\ UNCHANGED <<out, moving, asked>>
      BY <2>1, <2>3 DEF EngineGoesOn, move, player
    <3>2. CASE round' = round
      BY <3>1, <3>2, <1>3
    <3>3. CASE round' # round
      <4>1. stage = "playing"
        BY <2>3, <3>3 DEF EngineGoesOn, Start, End, Finish
      <4>2. ~Working
        BY <4>1 DEF Tokens, Owing
      <4>3. \A t \in Teams : out[t] = <<>> /\ ~moving[t] /\ asked[t] = "off"
        BY <3>1, <4>2 DEF Movers, Working
      <4>4. \A t \in Teams : out'[t] = <<>> /\ Len(out'[t]) = 0
        BY <3>1, <4>3
      <4> QED BY <3>1, <4>3, <4>4
    <3> QED BY <3>2, <3>3
  <2>4. CASE EngineReads
    <3>1. round' = round
      BY <2>4, ReadsKinds DEF Fail, Placed, vars
    <3> QED BY <1>3, <2>1, <2>4, <3>1 DEF EngineReads, move, player
  <2>5. CASE Parse \/ (\E w \in Writers : WriteEnd(w)) \/ UNCHANGED dvars
    BY <1>3, <2>1, <2>5 DEF Parse, WriteEnd, engine, dvars, vars, player, move
  <2>6. CASE Main
    <3>1. CASE pc' = pc
      BY <1>3, <1>4, <2>1, <2>6, <3>1, NotAsked DEF Main, Report, StartCountdown, EndRound, PlayRound, engine, player, move
    <3>2. CASE pc' # pc
      <4>1. UNCHANGED <<round, out, moving, asked>>
        BY <1>4, <2>6, NotAsked DEF Main, Report, StartCountdown, EndRound, PlayRound, engine, player, move
      <4>2. CASE StartCountdown
        BY <2>1, <4>1, <4>2 DEF StartCountdown, Movers
      <4>3. CASE ~StartCountdown
        <5>1. pc \in {"report", "end1", "end2", "play"}
          BY <1>4, <2>6, <4>3 DEF Main, Report, EndRound, PlayRound, EndOf
        <5> QED BY <2>1, <4>1, <5>1 DEF Movers
      <4> QED BY <4>2, <4>3
    <3> QED BY <3>1, <3>2
  <2> QED BY <2>2, <2>3, <2>4, <2>5, <2>6 DEF DriverNext, EngineRuns
<1> QED BY <1>1, <1>2, <1>4
-----------------------------------------------------------------------------
(* What the engine has of this round *)

FreshRows == \A i \in Rows : \A x \in Range(Row(i)) : x.c = "positions" => x.made \in {NoList, round}
FreshKnown == \A t \in Teams : known[t] \in {NoList, round}
NoneLeft == /\ \A t \in Teams : known[t] = NoList
            /\ \A i \in Rows : \A x \in Range(Row(i)) : x.c # "positions"

LEMMA FreshParts ==
  /\ Fresh <=> (~late => FreshRows /\ FreshKnown /\ ((~Owing \/ Asked) /\ stage # "failed" => NoneLeft))
  /\ Fresh' <=> (~late' => /\ FreshRows' /\ FreshKnown'
                           /\ (~Owing' \/ Asked') /\ stage' # "failed" => NoneLeft')
  BY DEF Fresh, FreshRows, FreshKnown, NoneLeft

\* A text that is written does not disturb it, when it is of this round and the engine is owed.
LEMMA FreshWritten ==
  ASSUME IInv, NEW w \in Writers, NEW x \in Text, WriteText(w, x), ~late,
         UNCHANGED <<stage, round, owed, known, stderr, Gs>>,
         x.c = "positions" => x.made \in {NoList, round} /\ Working
  PROVE  Fresh'
<1> USE DEF IInv
<1>1. FreshRows /\ FreshKnown /\ ((~Owing \/ Asked) /\ stage # "failed" => NoneLeft)
  BY FreshParts
<1>2. FreshRows'
  BY <1>1, Written DEF FreshRows
<1>3. FreshKnown'
  BY <1>1 DEF FreshKnown
<1>4. (Owing' <=> Owing) /\ (Asked' <=> Asked) /\ stage' = stage
  BY DEF Owing, Asked
<1>5. x.c = "positions" => (Owing /\ ~Asked) \/ stage = "failed"
  BY DEF Tokens, Working
<1>6. x.c # "positions" /\ NoneLeft => NoneLeft'
  BY Written DEF NoneLeft
<1> QED BY <1>1, <1>2, <1>3, <1>4, <1>5, <1>6, FreshParts

LEMMA FreshReads == ASSUME IInv, EngineReads PROVE Fresh'
<1> USE DEF IInv
<1> SUFFICES ASSUME ~late'
             PROVE  /\ FreshRows' /\ FreshKnown'
                    /\ (~Owing' \/ Asked') /\ stage' # "failed" => NoneLeft'
  BY FreshParts
<1>1. Takes /\ Owing /\ ~late /\ late' = late /\ (Asked' <=> Asked)
  BY ReadsTakes, ReportsMove DEF EngineReads, history
<1>2. FreshRows /\ FreshKnown /\ (Asked => NoneLeft)
  BY <1>1, FreshParts DEF Owing
<1>3. round' = round
  BY ReadsKinds DEF Fail, Placed, vars
<1>4. 1 \in Rows /\ Row(1)[1] \in Range(Row(1)) /\ \A i \in Rows' : i + 1 \in Rows /\ Row(i)' = Row(i + 1)
  BY <1>1, TakenRow DEF Takes
<1>5. FreshRows'
  BY <1>2, <1>3, <1>4 DEF FreshRows
<1>6. ~Asked
  <2>1. Asked => ~Holds(Play) /\ ~Holds(Countdown)
    BY DEF Tokens
  <2>2. Asked => Row(1)[1].c # "positions"
    BY <1>2, <1>4 DEF NoneLeft
  <2> QED BY <2>1, <2>2, ReadsKinds
<1>7. CASE Row(1)[1].c = "positions"
  <2>1. UNCHANGED vars
    BY <1>7, ReadsPositions
  <2>2. FreshKnown'
    <3> SUFFICES ASSUME NEW t \in Teams PROVE known'[t] \in {NoList, round}
      BY <1>3 DEF FreshKnown
    <3>1. CASE known'[t] = known[t]
      BY <1>2, <3>1 DEF FreshKnown
    <3>2. CASE \E x \in Range(Row(1)) : x.c = "positions" /\ x.made = known'[t]
      BY <1>2, <1>4, <3>2 DEF FreshRows
    <3> QED BY <1>7, <3>1, <3>2, ReadsPositions
  <2> QED BY <1>1, <1>5, <1>6, <2>1, <2>2 DEF Owing, vars
<1>8. CASE Row(1)[1].c # "positions"
  <2>1. CASE UNCHANGED <<vars, known>>
    BY <1>1, <1>2, <1>5, <1>6, <2>1 DEF Owing, vars, FreshKnown
  <2>2. CASE Fail /\ UNCHANGED known
    BY <1>2, <1>3, <1>5, <2>2 DEF Fail, FreshKnown
  <2>3. CASE Placed /\ Row(1) = <<Play>> /\ known' = [t \in Teams |-> NoList]
    <3>1. Play \in Range(Row(1))
      BY <1>4, <2>3, Single
    <3>2. \A i \in Rows' : Range(Row(i)') = {}
      BY <1>1, <3>1, OrderTaken
    <3>3. NoneLeft' /\ FreshKnown'
      BY <2>3, <3>2 DEF NoneLeft, FreshKnown
    <3> QED BY <1>5, <3>3
  <2> QED BY <1>8, <2>1, <2>2, <2>3, ReadsOther
<1> QED BY <1>7, <1>8

LEMMA FreshGoesOn == ASSUME IInv, EngineGoesOn PROVE Fresh'
<1> USE DEF IInv
<1> SUFFICES ASSUME ~late' PROVE FreshRows' /\ FreshKnown' /\ NoneLeft'
  BY FreshParts
<1>1. ~late /\ ~Owing /\ stage # "failed" /\ UNCHANGED <<lines, open, known>>
  BY DEF EngineGoesOn, Start, End, Finish, Owing, history
<1>2. NoneLeft
  BY <1>1, FreshParts
<1>3. NoneLeft'
  BY <1>1, <1>2, SameRows DEF NoneLeft
<1>4. FreshRows' /\ FreshKnown'
  BY <1>3 DEF NoneLeft, FreshRows, FreshKnown
<1> QED BY <1>3, <1>4

\* A step that leaves the engine and the texts alone.
LEMMA FreshSame ==
  ASSUME IInv, UNCHANGED <<stage, round, owed, known>>, late' = late, Asked' => Asked,
         Rows \subseteq Rows', \A i \in Rows : Row(i)' = Row(i), \A i \in Rows' \ Rows : Row(i)' = <<>>
  PROVE  Fresh'
<1>1. Range(<<>>) = {}
  BY EmptyRange
<1>2. FreshRows => FreshRows'
  BY <1>1 DEF FreshRows
<1>3. FreshKnown => FreshKnown'
  BY DEF FreshKnown
<1>4. NoneLeft => NoneLeft'
  BY <1>1 DEF NoneLeft
<1>5. (Owing' <=> Owing) /\ stage' = stage
  BY DEF Owing
<1> QED BY <1>2, <1>3, <1>4, <1>5, FreshParts DEF IInv

LEMMA FreshStep == ASSUME IInv, [DriverNext]_dvars PROVE Fresh'
<1> USE DEF IInv
<1>1. CASE EngineReads \/ EngineGoesOn
  BY <1>1, FreshReads, FreshGoesOn
<1>2. CASE ~EngineReads /\ ~EngineGoesOn
  <2>1. UNCHANGED <<stage, round, owed, known>>
    BY <1>2 DEF DriverNext, EngineRuns, Parse, Main, Mover, Player, WriteEnd, Answer, SendAnswer, GiveUp, Poll,
       WritePositions, Leave, Report, StartCountdown, EndMoves, EndRound, PlayRound, engine, dvars, vars
  <2>2. Asked' => Asked
    <3>1. Parse \/ Report \/ UNCHANGED <<stderr, Gs>>
      BY <1>2 DEF DriverNext, EngineRuns, Main, Mover, Player, WriteEnd, Answer, SendAnswer, GiveUp, Poll,
         WritePositions, Leave, StartCountdown, EndMoves, EndRound, PlayRound, dvars
    <3> QED BY <3>1, ReportsMove
  <2>3. ASSUME NEW w \in Writers, WriteEnd(w) PROVE Fresh'
    <3>1. late' = late
      BY <2>3 DEF WriteEnd, history
    <3> QED BY <2>1, <2>2, <2>3, <3>1, EndedRow, FreshSame
  <2>4. ASSUME NEW t \in Teams, WritePositions(t) PROVE Fresh'
    <3>1. CASE late \/ cancelled
      <4>1. late'
        BY <2>4, <3>1, MoverWrites DEF Types, MoverTypes, MainTypes
      <4> QED BY <4>1 DEF Fresh
    <3>2. CASE ~late /\ ~cancelled
      <4>1. UNCHANGED <<stderr, Gs>>
        BY <2>4 DEF WritePositions
      <4>2. Head(out[t]) \in {NoList, round} /\ Working /\ Head(out[t]) \in Lists
        BY <2>4, <3>2, MoverWrites
      <4>3. Positions(t, Head(out[t])).made = Head(out[t])
        BY <4>2, TextFacts
      <4> QED BY <2>1, <2>4, <3>2, <4>1, <4>2, <4>3, MoverWrites, FreshWritten
    <3> QED BY <3>1, <3>2
  <2>5. CASE Main /\ ~UNCHANGED <<lines, open>>
    <3>1. CASE late
      BY <2>5, <3>1, MainWritesOnly DEF Fresh
    <3>2. CASE ~late
      <4>1. PICK x \in MainText : x \in Text /\ WriteText(0, x)
        BY <2>5, MainWritesOnly
      <4>2. Working /\ 0 \in Writers /\ UNCHANGED <<stderr, Gs>>
        BY <2>5, MainWritesOnly
      <4>3. x.c = "positions" => x.made \in {NoList, round}
        BY TextFacts, Bounds DEF MainText, Types, EngineTypes
      <4> QED BY <2>1, <3>2, <4>1, <4>2, <4>3, FreshWritten
    <3> QED BY <3>1, <3>2
  <2>6. ASSUME UNCHANGED <<lines, open>>, late' = late PROVE Fresh'
    <3>1. Rows \subseteq Rows' /\ \A i \in Rows : Row(i)' = Row(i)
      BY <2>6, SameRows
    <3>2. Rows' \ Rows = {}
      BY <2>6, SameRows
    <3> QED BY <2>1, <2>2, <2>6, <3>1, <3>2, FreshSame
  <2>7. CASE Main /\ UNCHANGED <<lines, open>>
    BY <2>6, <2>7 DEF Main, Report, StartCountdown, EndMoves, EndRound, PlayRound, history
  <2>8. CASE UNCHANGED <<lines, open, torn, late>>
    BY <2>6, <2>8
  <2> QED BY <1>2, <2>3, <2>4, <2>5, <2>7, <2>8, LineSteps
<1> QED BY <1>1, <1>2
-----------------------------------------------------------------------------
(* What main makes up for *)

\* What a step of anyone but the engine and main does to it: nothing.
LEMMA MadeUpApart ==
  ASSUME IInv, [DriverNext]_dvars, ~EngineRuns, ~Main
  PROVE  MadeUpFor'
<1> USE DEF IInv
<1> SUFFICES ASSUME NEW t \in Teams, kind'[t] = "ai", ~created'[t], ~torn', After(t)'
             PROVE  known'[t] # NoList \/ MadeUp(t)'
  BY DEF MadeUpFor
<1>1. UNCHANGED <<kind, known, round, pc>>
  BY DEF DriverNext, Parse, Mover, Player, WriteEnd, Answer, SendAnswer, GiveUp, Poll, WritePositions, Leave,
     engine, dvars, vars
<1>2. ~created[t]
  BY DEF Types, PlayerTypes, DriverNext, Parse, Mover, Player, WriteEnd, Answer, SendAnswer, GiveUp, Poll,
     WritePositions, Leave, player, dvars
<1>3. ASSUME ~torn, After(t) PROVE known'[t] # NoList \/ MadeUp(t)
  BY <1>1, <1>2, <1>3 DEF MadeUpFor
<1>4. ASSUME NEW w \in Writers, WriteEnd(w) PROVE known'[t] # NoList \/ MadeUp(t)'
  <2>1. ~torn /\ After(t)
    BY <1>1, <1>4, HoldsEnded DEF After, WriteEnd, history
  <2> QED BY <1>3, <1>4, <2>1, MadeUpEnded
<1>5. ASSUME NEW u \in Teams, WritePositions(u) PROVE known'[t] # NoList \/ MadeUp(t)'
  <2>1. /\ u \in Writers /\ Head(out[u]) \in Lists /\ Positions(u, Head(out[u])) \in Text
        /\ WriteText(u, Positions(u, Head(out[u])))
    BY <1>5, MoverWrites
  <2>2. Play # Positions(u, Head(out[u]))
    BY <2>1, TextFacts
  <2>3. Holds(Play)' <=> Holds(Play)
    BY <2>1, <2>2, HoldsWritten
  <2>4. ~torn
    BY <2>1 DEF WriteText, Types, PipeTypes
  <2> QED BY <1>1, <1>3, <2>1, <2>3, <2>4, MadeUpWritten DEF After
<1>6. ASSUME UNCHANGED <<lines, open, torn, late>> PROVE known'[t] # NoList \/ MadeUp(t)'
  BY <1>1, <1>3, <1>6, HoldsSame, MadeUpSame DEF After
<1> QED BY <1>4, <1>5, <1>6, LineSteps DEF EngineRuns

LEMMA MadeUpMain == ASSUME IInv, Main PROVE MadeUpFor'
<1> USE DEF IInv
<1> SUFFICES ASSUME NEW t \in Teams, kind'[t] = "ai", ~created'[t], ~torn', After(t)'
             PROVE  known'[t] # NoList \/ MadeUp(t)'
  BY DEF MadeUpFor
<1>1. UNCHANGED <<kind, known, round>>
  BY DEF Main, Report, StartCountdown, EndMoves, EndRound, PlayRound, engine
<1>2. ASSUME ~torn, ~created[t], After(t) PROVE known'[t] # NoList \/ MadeUp(t)
  BY <1>1, <1>2 DEF MadeUpFor
<1>3. CASE Report
  <2>1. (Holds(Play)' <=> Holds(Play)) /\ pc = "report"
    BY <1>3, HoldsSame DEF Report
  <2>2. CASE Head(Gs) = "waiting"
    <3>1. Asked /\ pc' = "countdown"
      BY <1>3, <2>2, ReportsMove, AskedFor
    <3> QED BY <2>1, <3>1 DEF After, Tokens
  <2>3. CASE Head(Gs) # "waiting"
    <3>1. ~torn /\ ~created[t] /\ (pc' = "over" \/ pc' = pc)
      BY <1>3, <2>3, NotAsked DEF player
    <3>2. After(t)
      BY <2>1, <3>1 DEF After
    <3> QED BY <1>1, <1>2, <1>3, <3>1, <3>2, MadeUpSame DEF Report
  <2> QED BY <2>2, <2>3
<1>4. ASSUME Working PROVE ~Holds(Play)
  BY <1>4 DEF Tokens
<1>5. CASE StartCountdown
  <2>1. ~Holds(Play) /\ pc' = "select" /\ WriteText(0, Countdown) /\ 0 \in Writers
    BY <1>4, <1>5 DEF StartCountdown, Working, Writers
  <2>2. ~Holds(Play)'
    BY <2>1, HoldsWritten, TextFacts
  <2> QED BY <2>1, <2>2 DEF After
<1>6. CASE EndMoves
  <2>1. ~Holds(Play)'
    BY <1>4, <1>6, HoldsSame DEF EndMoves, Working
  <2>2. pc' = Ending(1) /\ kind[t] = "ai" /\ t \in {1, 2}
    BY <1>1, <1>6 DEF EndMoves, Teams
  <2> QED BY <2>1, <2>2, EndingIn DEF After
<1>7. ASSUME NEW u \in Teams, EndRound(u) PROVE known'[t] # NoList \/ MadeUp(t)'
  <2>1. /\ pc = EndOf(u) /\ pc' = Ending(u + 1) /\ u \in {1, 2} /\ t \in {1, 2} /\ kind[t] = "ai"
        /\ created' = created
    BY <1>1, <1>7 DEF EndRound, Teams, player
  <2>2. ~Holds(Play)
    BY <1>4, <2>1 DEF EndOf, Working
  <2>3. /\ 0 \in Writers /\ Positions(u, round) \in Text /\ Play # Positions(u, round)
    BY TextFacts, Bounds DEF Writers, Types, EngineTypes
  <2>4. WriteText(0, Positions(u, round)) \/ (created[u] /\ UNCHANGED <<lines, open, torn>>)
    BY <1>7 DEF EndRound
  <2>5. ~Holds(Play)' /\ ~torn
    <3>1. CASE WriteText(0, Positions(u, round))
      BY <2>2, <2>3, <3>1, HoldsWritten DEF WriteText, Types, PipeTypes
    <3>2. CASE UNCHANGED <<lines, open, torn>>
      BY <2>2, <3>2, HoldsSame
    <3> QED BY <2>4, <3>1, <3>2
  <2>6. CASE u = t
    <3>1. WriteText(0, Positions(t, round))
      BY <2>1, <2>4, <2>6
    <3>2. PICK i \in Rows : i = Len(lines) + 1
      BY <2>3, <2>6, <3>1, Written
    <3>3. i \in Rows' /\ Row(i)' = <<Positions(t, round)>>
      BY <2>3, <2>6, <3>1, <3>2, Written
    <3>4. \A k \in Rows' : Play \notin Range(Row(k)')
      BY <2>5 DEF Holds
    <3> QED BY <1>1, <3>3, <3>4 DEF MadeUp, Positions
  <2>7. CASE u # t
    <3>1. CASE u = 1 /\ t = 2
      <4>1. pc' = "end2"
        BY <2>1, <3>1, EndingIn
      <4> QED BY <2>5, <3>1, <4>1 DEF After
    <3>2. CASE u = 2 /\ t = 1
      <4>1. After(t)
        BY <2>1, <3>2 DEF After, EndOf
      <4>2. known'[t] # NoList \/ MadeUp(t)
        BY <1>2, <2>1, <2>5, <4>1
      <4>3. MadeUp(t) => MadeUp(t)'
        <5>1. CASE WriteText(0, Positions(u, round))
          BY <1>1, <2>3, <5>1, MadeUpWritten
        <5>2. CASE UNCHANGED <<lines, open, torn>>
          BY <1>1, <5>2, MadeUpSame
        <5> QED BY <2>4, <5>1, <5>2
      <4> QED BY <4>2, <4>3
    <3> QED BY <2>1, <2>7, <3>1, <3>2
  <2> QED BY <2>6, <2>7
<1>8. CASE PlayRound
  <2>1. /\ WriteText(0, Play) /\ 0 \in Writers /\ Play \in Text /\ After(t) /\ ~created[t]
    BY <1>8, TextFacts DEF PlayRound, Writers, After, player
  <2>2. ~torn
    BY <2>1 DEF WriteText, Types, PipeTypes
  <2> QED BY <1>1, <1>2, <2>1, <2>2, MadeUpWritten
<1> QED BY <1>3, <1>5, <1>6, <1>7, <1>8 DEF Main

LEMMA MadeUpEngine == ASSUME IInv, EngineRuns PROVE MadeUpFor'
<1> USE DEF IInv
<1> SUFFICES ASSUME NEW t \in Teams, kind'[t] = "ai", ~created'[t], ~torn', After(t)'
             PROVE  known'[t] # NoList \/ MadeUp(t)'
  BY DEF MadeUpFor
<1>1. UNCHANGED <<kind, pc, created, torn>>
  BY DEF EngineRuns, EngineReads, EngineGoesOn, player, history
<1>2. CASE EngineGoesOn
  <2>1. Holds(Play)' <=> Holds(Play)
    BY <1>2, HoldsSame DEF EngineGoesOn
  <2>2. Working \/ Holds(Play)
    BY <1>1, <2>1 DEF After, Working
  <2>3. Owing \/ stage = "failed"
    BY <2>2 DEF Tokens
  <2> QED BY <1>2, <2>3 DEF EngineGoesOn, Start, End, Finish, Owing
<1>3. CASE EngineReads
  <2>1. Takes /\ (Holds(Play)' => Holds(Play))
    BY <1>3, ReadsTakes, HoldsTaken
  <2>2. After(t)
    BY <1>1, <2>1 DEF After
  <2>3. known[t] # NoList \/ MadeUp(t)
    BY <1>1, <2>2 DEF MadeUpFor
  <2>4. round' = round /\ round \in Lists /\ round # NoList
    BY <1>3, ReadsKinds, Bounds DEF Fail, Placed, vars, Types, EngineTypes
  <2>5. ~Placed
    <3> SUFFICES ASSUME Placed PROVE FALSE
      OBVIOUS
    <3>1. Row(1) = <<Play>> /\ Holds(Play)
      BY <1>3, ReadsKinds DEF Placed, Fail, vars
    <3>2. Play \in Range(Row(1))
      BY <2>1, <3>1, HoldsTaken, Single
    <3>3. ~Holds(Play)'
      BY <1>3, <2>1, <3>2, OrderTaken, TextFacts DEF Holds, EngineReads, history
    <3>4. pc = "report"
      BY <3>1 DEF Tokens
    <3> QED BY <1>1, <3>3, <3>4 DEF After
  <2>6. known[t] # NoList => known'[t] # NoList
    <3>1. CASE Row(1)[1].c = "positions"
      BY <1>3, <3>1, ReadsPositions
    <3>2. CASE Row(1)[1].c # "positions"
      BY <1>3, <2>5, <3>2, ReadsKinds
    <3> QED BY <3>1, <3>2
  <2>7. ASSUME MadeUp(t) PROVE known'[t] # NoList \/ MadeUp(t)'
    <3>1. CASE Row(1) = <<Positions(t, round)>>
      <4>1. Row(1)[1].c = "positions"
        BY <2>4, <3>1, TextFacts
      <4> QED BY <1>3, <2>4, <3>1, <4>1, ReadsPositions
    <3>2. CASE Row(1) # <<Positions(t, round)>>
      BY <2>1, <2>4, <2>7, <3>2, MadeUpTaken
    <3> QED BY <3>1, <3>2
  <2> QED BY <2>3, <2>6, <2>7
<1> QED BY <1>2, <1>3 DEF EngineRuns

LEMMA MadeUpStep == ASSUME IInv, [DriverNext]_dvars PROVE MadeUpFor'
  BY MadeUpApart, MadeUpMain, MadeUpEngine

\* The engine fails at a torn countdown, or without positions that main had no reason to make up.
LEMMA UndefinedStep == ASSUME IInv, [DriverNext]_dvars PROVE NeverUndefined'
<1> USE DEF IInv
<1> SUFFICES ASSUME stage' = "failed"
             PROVE  torn' \/ \E t \in Teams : known'[t] = NoList /\ (kind'[t] = "ai" => created'[t])
  BY DEF NeverUndefined
<1>1. kind' = kind
  BY DEF DriverNext, EngineRuns, EngineReads, EngineGoesOn, Parse, Main, Mover, Player, WriteEnd, Answer,
     SendAnswer, GiveUp, Poll, WritePositions, Leave, Report, StartCountdown, EndMoves, EndRound, PlayRound, dvars
<1>2. CASE stage = "failed"
  <2>1. ~EngineRuns /\ ~Asked
    BY <1>2 DEF EngineRuns, EngineReads, EngineGoesOn, Start, End, Finish, Tokens, Owing
  <2>2. ~(Report /\ Head(Gs) = "waiting")
    BY <2>1, ReportsMove
  <2>3. known' = known
    BY <2>1 DEF DriverNext, Parse, Main, Mover, Player, WriteEnd, Answer, SendAnswer, GiveUp, Poll,
       WritePositions, Leave, Report, StartCountdown, EndMoves, EndRound, PlayRound, engine, dvars
  <2>4. \A t \in Teams : created[t] => created'[t]
    BY <2>1, <2>2, NotAsked DEF Types, PlayerTypes, DriverNext, Parse, Main, Mover, Player, WriteEnd, Answer,
       SendAnswer, GiveUp, Poll, WritePositions, Leave, StartCountdown, EndMoves, EndRound, PlayRound, player, dvars
  <2>5. torn => torn'
    BY <2>1, <2>2, NotAsked DEF Types, PipeTypes, DriverNext, Parse, Main, Mover, Player, WriteEnd, Answer,
       SendAnswer, GiveUp, Poll, WritePositions, WriteText, Leave, StartCountdown, EndMoves, EndRound,
       PlayRound, history, dvars
  <2> QED BY <1>1, <1>2, <2>3, <2>4, <2>5 DEF NeverUndefined
<1>3. CASE stage # "failed"
  <2>1. EngineReads
    BY <1>3 DEF DriverNext, EngineRuns, EngineGoesOn, Start, End, Finish, Parse, Main, Mover, Player, WriteEnd,
       Answer, SendAnswer, GiveUp, Poll, WritePositions, Leave, Report, StartCountdown, EndMoves, EndRound,
       PlayRound, engine, dvars, vars
  <2>2. Undone /\ UNCHANGED <<known, created, torn>>
    BY <1>3, <2>1, ReadsKinds DEF EngineReads, Placed, vars, player, history
  <2>3. Takes /\ Row(1)[1] \in Range(Row(1)) /\ \A y : y \in Range(Row(1)) => Holds(y)
    BY <2>1, ReadsTakes, HoldsTaken
  <2>4. CASE Row(1)[1] = Countdown /\ Len(Row(1)) > 1
    <3>1. 1 \in Rows /\ Countdown \in Range(Row(1))
      BY <2>3, <2>4, TakenRow DEF Takes
    <3> QED BY <2>2, <2>4, <3>1 DEF Torn
  <2>5. ASSUME Row(1) = <<Play>>, NEW t \in Teams, known[t] = NoList
        PROVE  torn' \/ \E u \in Teams : known'[u] = NoList /\ (kind'[u] = "ai" => created'[u])
    <3>1. Play \in Range(Row(1)) /\ After(t)
      BY <2>3, <2>5, Single DEF After
    <3>2. ~MadeUp(t)
      <4>1. Row(1) # <<Positions(t, round)>>
        BY <2>5, Single, TextFacts, Bounds DEF Types, EngineTypes
      <4>2. round' = round
        BY <1>3, <2>1, ReadsKinds DEF Fail, Placed, vars
      <4> QED BY <2>3, <3>1, <4>1, <4>2, MadeUpTaken
    <3>3. torn \/ (kind[t] = "ai" => created[t])
      BY <2>5, <3>1, <3>2 DEF MadeUpFor
    <3> QED BY <1>1, <2>2, <2>5, <3>3
  <2> QED BY <2>2, <2>4, <2>5 DEF Undone
<1> QED BY <1>2, <1>3
-----------------------------------------------------------------------------
(* Theorems *)

LEMMA IInvInit == DriverInit => IInv
<1> SUFFICES ASSUME DriverInit PROVE IInv
  OBVIOUS
<1>1. Types /\ Movers
  BY TypesInit, MoversInit
<1>2. /\ lines = <<>> /\ open = <<>> /\ stderr = <<"waiting">> /\ Gs = <<>> /\ pc = "report"
      /\ stage = "waiting" /\ owed = TRUE /\ known = [t \in Teams |-> NoList]
  BY DEF DriverInit, Init
<1>3. Len(stderr) = 1 /\ stderr[1] = "waiting" /\ Len(lines) = 0
  BY <1>2
<1>4. Range(Gs) = {} /\ stderr \in Seq(Reports) /\ Gs \in Seq(Reports)
  BY <1>1, <1>2, EmptyRange DEF Types, ReportTypes
<1>5. Range(stderr) = {"waiting"}
  BY <1>3, <1>4, InRange
<1>6. Rows = {1} /\ Row(1) = <<>>
  BY <1>2, <1>3 DEF Rows, Row
<1>7. \A i \in Rows : Row(i) = <<>> /\ Range(Row(i)) = {} /\ Len(Row(i)) = 0
  BY <1>6, EmptyRange
<1>8. \A y : ~Holds(y)
  BY <1>7 DEF Holds
<1>9. DOMAIN stderr = {1}
  BY <1>3, <1>4, LenProperties
<1>10. OneReport /\ Order /\ Torn
  BY <1>4, <1>7, <1>9 DEF OneReport, Order, Torn
<1>11. Tokens
  BY <1>2, <1>4, <1>5, <1>8 DEF Tokens, Asked, Finished, Working, Owing
<1>12. Fresh
  BY <1>2, <1>7 DEF Fresh
<1>13. MadeUpFor /\ NeverUndefined
  BY <1>2, <1>8 DEF MadeUpFor, After, NeverUndefined
<1> QED BY <1>1, <1>10, <1>11, <1>12, <1>13 DEF IInv

LEMMA IInvStep == IInv /\ [DriverNext]_dvars => IInv'
<1> SUFFICES ASSUME IInv, [DriverNext]_dvars PROVE IInv'
  OBVIOUS
<1>1. Types'
  BY TypesStep DEF IInv
<1>2. OneReport' /\ Tokens' /\ Order' /\ Torn'
  BY OneReportStep, TokensStep, OrderStep, TornStep
<1>3. Movers' /\ Fresh' /\ MadeUpFor' /\ NeverUndefined'
  BY MoversStep, FreshStep, MadeUpStep, UndefinedStep
<1> QED BY <1>1, <1>2, <1>3 DEF IInv

LEMMA Invariant == DriverSpec => []IInv
<1>1. DriverInit => IInv
  BY IInvInit
<1>2. IInv /\ [DriverNext]_dvars => IInv'
  BY IInvStep
<1> QED BY <1>1, <1>2, PTL DEF DriverSpec

\* The tower-defense engine never has to place towers where no player said, but for a torn line
\* or a side whose player had answered (game-state.zig message, ai.go EndRound).
THEOREM NeverUndefinedHolds == DriverSpec => []NeverUndefined
<1>1. IInv => NeverUndefined
  BY DEF IInv
<1> QED BY <1>1, Invariant, PTL

\* In the pipe stands one text to play at most, in one line.
LEMMA OnePlay == IInv => ToldOnce
<1> USE DEF IInv
<1> SUFFICES ASSUME IInv PROVE ToldOnce
  OBVIOUS
<1>1. lines \in Seq(Seq(Text)) /\ open \in Seq(Text) /\ Len(lines) \in Nat
  BY RowFacts DEF Types, PipeTypes
<1>2. DOMAIN Append(lines, open) = Rows /\ \A i \in Rows : Append(lines, open)[i] = Row(i)
  <2>1. /\ Append(lines, open) \in Seq(Seq(Text)) /\ Len(Append(lines, open)) = Len(lines) + 1
        /\ \A i \in 1 .. Len(lines) : Append(lines, open)[i] = lines[i]
        /\ Append(lines, open)[Len(lines) + 1] = open
    BY <1>1, AppendProperties
  <2>2. DOMAIN Append(lines, open) = Rows
    BY <2>1, LenProperties DEF Rows
  <2> QED BY <1>1, <2>1, <2>2 DEF Rows, Row
<1>3. Plays = {i \in Rows : Play \in Range(Row(i))}
  BY <1>2 DEF Plays
<1>4. \A i, j \in Plays : i = j
  <2> SUFFICES ASSUME NEW i \in Plays, NEW j \in Plays, i < j PROVE FALSE
    BY <1>1, <1>3 DEF Rows
  <2>1. Play.c = "positions"
    BY <1>3 DEF Order
  <2> QED BY <2>1, TextFacts
<1>5. Cardinality(Plays) <= 1
  <2>1. CASE Plays = {}
    BY <2>1, FS_EmptySet
  <2>2. CASE Plays # {}
    <3>1. PICK i \in Plays : Plays = {i}
      BY <1>4, <2>2
    <3>2. Cardinality({i}) = 1
      BY FS_Singleton
    <3>3. Cardinality(Plays) = 1
      BY <3>1, <3>2
    <3> QED BY <3>3
  <2> QED BY <2>1, <2>2
<1>6. Plays # {} => Holds(Play)
  BY <1>3 DEF Holds
<1> QED BY <1>5, <1>6 DEF ToldOnce, Tokens, Owing

\* No positions of another round reach the engine, unless a mover was late, and it is told to play
\* once for every time that it waits (main.go main, players.go StreamMoves).
THEOREM ThisRoundsOnlyHolds == DriverSpec => []ThisRoundsOnly
<1>1. IInv => ThisRoundsOnly
  <2> SUFFICES ASSUME IInv PROVE ThisRoundsOnly
    OBVIOUS
  <2>1. DriverTypeOK
    BY DEF IInv, Types, EngineTypes, ReportTypes, MainTypes, PCs, PlayerTypes, MoverTypes, DriverTypeOK
  <2>2. OfThisRound
    BY DEF IInv, Fresh, OfThisRound
  <2> QED BY <2>1, <2>2, OnePlay DEF ThisRoundsOnly
<1> QED BY <1>1, Invariant, PTL
=============================================================================
