------------------------------ MODULE Particles ------------------------------
(***************************************************************************)
(* Steam over a cup of coffee (pkg/particles): particles rise until their  *)
(* life or the grid ends, start again at the bottom, and are counted by    *)
(* cell when they are drawn.  Lengths are in Parts of a cell, speeds in    *)
(* parts per unit of time.  The clock does not go back: a particle would   *)
(* fall out of the grid and Render out of its array.                       *)
(***************************************************************************)
EXTENDS Integers, SequencesExt

CONSTANTS ParticleCount, X, Y, MaxLife,
          Speeds,     \* bound: speeds that are drawn
          Deviates,   \* bound: normal deviates that are drawn
          Parts,      \* bound: positions within a cell
          MaxDelta,   \* bound: time between two Updates
          MaxNow,     \* bound: time since NewParticleSystem
          Blink       \* ascii changes its direction after so much time

VARIABLES particles, lastTime, now,
          started,
          born,  \* history: of each particle, what lastTime was when it was reset
          given  \* history: and the lifetime it got
pvars == <<particles, lastTime, now, started, born, given>>

Ids == 1 .. ParticleCount

\* NewCoffee, NewParticleSystem.
ParticlesInit ==
  /\ particles = [i \in Ids |-> [Lifetime |-> 0, Speed |-> 0, X |-> 0, Y |-> 0]]
  /\ lastTime = 0 /\ now = 0 /\ started = FALSE
  /\ born = [i \in Ids |-> 0] /\ given = [i \in Ids |-> 0]

\* reset: the deviate is clamped to half the width.
Clamped(x, maxX) == Max({-maxX, Min({x, maxX})}) + maxX
Fresh == [Lifetime : 0 .. MaxLife - 1, Speed : Speeds,
          X : {Clamped(x, (X \div 2) * Parts) : x \in Deviates}, Y : {0}]

\* lastTime is still that of NewParticleSystem: what has passed since is lived in the first Update.
Start(delta) ==
  /\ ~started /\ started' = TRUE
  /\ now' = now + delta
  /\ \E fresh \in [Ids -> Fresh] :
       particles' = fresh /\ given' = [i \in Ids |-> fresh[i].Lifetime]
  /\ UNCHANGED <<lastTime, born>>

\* A particle whose life ends does not move.
nextPos(p, delta) ==
  LET life == p.Lifetime - delta
  IN [p EXCEPT !.Lifetime = life, !.Y = IF life <= 0 THEN @ ELSE @ + p.Speed * delta]

GoneAbove(p) == p.Y > Y * Parts \/ p.Lifetime <= 0 \* Seeded bug: the grid ends a row too high.
Gone(p) == p.Y >= Y * Parts \/ p.X >= X * Parts \/ p.Lifetime <= 0

\* Seeded bug: lastTime stays where it was.
UpdateFromStart(delta) ==
  /\ started /\ now + delta <= MaxNow
  /\ now' = now + delta
  /\ LET moved == [i \in Ids |-> nextPos(particles[i], now' - lastTime)]
         gone == {i \in Ids : Gone(moved[i])}
     IN \E fresh \in [gone -> Fresh] :
          /\ particles' = [i \in Ids |-> IF i \in gone THEN fresh[i] ELSE moved[i]]
          /\ born' = [i \in Ids |-> IF i \in gone THEN now' ELSE born[i]]
          /\ given' = [i \in Ids |-> IF i \in gone THEN fresh[i].Lifetime ELSE given[i]]
  /\ UNCHANGED <<started, lastTime>>
Update(delta) ==
  /\ started /\ now + delta <= MaxNow
  /\ now' = now + delta /\ lastTime' = now'
  /\ LET moved == [i \in Ids |-> nextPos(particles[i], now' - lastTime)]
         gone == {i \in Ids : Gone(moved[i])}
     IN \E fresh \in [gone -> Fresh] :
          /\ particles' = [i \in Ids |-> IF i \in gone THEN fresh[i] ELSE moved[i]]
          /\ born' = [i \in Ids |-> IF i \in gone THEN now' ELSE born[i]]
          /\ given' = [i \in Ids |-> IF i \in gone THEN fresh[i].Lifetime ELSE given[i]]
  /\ UNCHANGED started

ParticlesNext == \E delta \in 0 .. MaxDelta : Start(delta) \/ Update(delta)
-----------------------------------------------------------------------------
(* Render *)

Row(p) == p.Y \div Parts
Col(p) == (2 * p.X + Parts) \div (2 * Parts)
At(row, col) == {i \in Ids : Row(particles[i]) = row /\ Col(particles[i]) = col}
Total(ids) == FoldSet(LAMBDA i, sum : sum + particles[i].Lifetime, 0, ids)

countParticles(row, col) ==
  Cardinality(UNION {At(r, c) : r \in row - 1 .. row + 1, c \in col - 1 .. col + 1} \ At(row, col))

\* In ten-thousandths of a life, from the middle column to the sides.
Green(row, col) ==
  LET life == Min({9999, Max({1, (10000 * Total(At(row, col))) \div MaxLife})})
      half == X \div 2
  IN (255 * life * (half - Max({half - col, col - half}))) \div (10000 * half)

Glyph(row, col) ==
  IF At(row, col) = {} THEN " "
  ELSE IF countParticles(row, col) <= 3 THEN "."
  ELSE IF (row + now \div Blink) % 2 = 0 THEN "{" ELSE "}"

\* The bottom of the picture is its last row.
Render == Reverse([r \in 1 .. Y |-> [c \in 1 .. X |-> Glyph(r - 1, c - 1)]])
-----------------------------------------------------------------------------
\* Every particle is in a cell of the grid, where Render counts it, a cell's colour is a byte,
\* and the steam is drawn exactly where there are particles, the youngest at the bottom.
EveryParticleDrawn ==
  /\ \A i \in Ids : Row(particles[i]) \in 0 .. Y - 1 /\ Col(particles[i]) \in 0 .. X - 1
  /\ \A i \in Ids : Green(Row(particles[i]), Col(particles[i])) \in 0 .. 255
  /\ \A i \in Ids : Render[Y - Row(particles[i])][Col(particles[i]) + 1] # " "

\* Time is neither lost nor counted twice: at the last Update, which is now once there has been
\* one, a particle's life is what it got less its age, which is below it, and it has risen by its
\* age times its speed.  Those of the start are as old as the particle system.
AgesWithTheClock ==
  started =>
    /\ lastTime \in {0, now}
    /\ \A i \in Ids :
         LET age == lastTime - born[i] IN
         /\ particles[i].Lifetime = given[i] - age
         /\ particles[i].Y = particles[i].Speed * age
         /\ age = 0 \/ particles[i].Lifetime > 0
=============================================================================
