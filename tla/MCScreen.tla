------------------------------ MODULE MCScreen ------------------------------
(***************************************************************************)
(* What renderers show: a behaviour is either memesweeper's screen with    *)
(* its clients or a cup of coffee.                                         *)
(***************************************************************************)
EXTENDS Screen

CONSTANTS ParticleCount, X, Y, MaxLife, Speeds, Deviates, Parts, MaxDelta, MaxNow,
          Blink

\* NewCoffee asserts that the width is odd; in a single column ascii would divide zero by zero.
ASSUME CoffeeAssumption ==
    /\ X \in Nat /\ X % 2 = 1 /\ X >= 3
    /\ {Y, MaxLife, Parts} \subseteq Nat \ {0} /\ ParticleCount \in Nat
    /\ Speeds \subseteq Nat /\ Deviates \subseteq Int

VARIABLES particles, lastTime, now, started, born, given

steam == <<particles, lastTime, now, started, born, given>>
Coffee == INSTANCE Particles
HasSteam == particles # <<>>
NoSteam == /\ particles = <<>> /\ lastTime = 0 /\ now = 0 /\ started = FALSE
           /\ born = <<>> /\ given = <<>>

AllInit == Init /\ (NoSteam \/ Coffee!ParticlesInit)
Game == ~HasSteam /\ Next /\ UNCHANGED steam
Cup == HasSteam /\ Coffee!ParticlesNext /\ UNCHANGED vars

\* The game's goroutines run as in Screen.
GameRuns(A) == ~HasSteam /\ ~crash /\ A
GameFairness ==
    /\ WF_vars(GameRuns(Shows)) /\ SF_vars(GameRuns(Welcome \/ Join))
    /\ \A g \in Goroutines : SF_vars(GameRuns(Render(g) \/ Send(g)))
AllSpec == AllInit /\ [][Game \/ Cup]_<<vars, steam>> /\ GameFairness

\* Every particle is drawn in the grid, in a colour that is a byte.
EveryParticleDrawn == HasSteam => Coffee!EveryParticleDrawn
\* A particle lives, and rises, by the time that has passed.
AgesWithTheClock == HasSteam => Coffee!AgesWithTheClock
\* What is drawn is as it is: things lie by their height, a game that is over is seen whole, steam
\* is where its age has brought it.
DrawnAsIs == TypeOK /\ EndIsShown /\ DrawnByHeight /\ EveryParticleDrawn /\ AgesWithTheClock

\* Left of the grid, between two columns, and at the right edge.
Drifts == {-5, 1, 2}
=============================================================================
