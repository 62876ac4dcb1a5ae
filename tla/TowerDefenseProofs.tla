-------------------------- MODULE TowerDefenseProofs --------------------------
(***************************************************************************)
(* Proofs about TowerDefense, for any board on which two towers fit above  *)
(* one another with a row between them, any lists of positions and any     *)
(* values of the towers and creeps: the ranges and rounds, the counters,   *)
(* the board; then the path search, turn by turn, and with it the ways of  *)
(* the creeps.  The recursive functions of the search and the sums over    *)
(* projectiles are defined by CHOOSE, so each is shown to exist first, by  *)
(* induction: a set that has 0 and n + 1 with n has every natural (Induct).*)
(***************************************************************************)
EXTENDS TowerDefense, FiniteSetTheorems, TLAPS

\* The steps of the thread, by what they have in common.
LEMMA Cases ==
  ASSUME Next
  PROVE  \/ Positions \/ Round \/ RoundUndefined \/ Upgrade \/ Hurt \/ Build
         \/ StartRound \/ EndRound \/ Finish \/ BeginUpdate
         \/ (\E i \in todo : TowerDies(i) \/ TowerRests(i) \/ TowerFires(i))
         \/ EndTowers
         \/ (\E c \in todo : CreepDies(c) \/ CreepWalks(c) \/ CreepArrives(c))
         \/ EndCreeps \/ Strike \/ SpawnPair \/ EndTick
  BY DEF Next, Message, Place, Frame, Towers, Creeps
-----------------------------------------------------------------------------
(* The ranges *)

\* The zone without towers lies between the ranges, a row and a tower from the edges;
\* when it is gone, both sides have the whole board.
RangesFit ==
  /\ noBuildZone \in BOOLEAN
  /\ noBuild.s \in Int /\ noBuild.e \in Int
  /\ noBuild = [s |-> noBuild.s, e |-> noBuild.e]
  /\ noBuildZone =>
       /\ TowerRows + 1 <= noBuild.s /\ noBuild.s < noBuild.e
       /\ noBuild.e <= Rows - TowerRows - 1
       /\ buildRange = <<[s |-> 0, e |-> noBuild.s],
                         [s |-> noBuild.e, e |-> Rows - TowerRows]>>
  /\ ~noBuildZone =>
       /\ RangeLen(noBuild) = 0
       /\ buildRange = [t \in Teams |-> [s |-> 0, e |-> Rows - TowerRows]]

LEMMA Constants ==
  /\ TowerRows \in Nat \ {0} /\ TowerCols \in Nat \ {0} /\ TowerRounds \in Nat \ {0}
  /\ TowerAmmo \in Nat \ {0} /\ Rows \in Nat /\ Cols \in Nat /\ Farthest \in Nat
  /\ Rows > 2 * TowerRows + 2 /\ Cols > 2 * TowerCols
  BY TDAssumption DEF TDAssumption

LEMMA RangesInit == Init => RangesFit
  BY Constants DEF Init, RangesFit, RangeLen, Monus, Teams

LEMMA RangesStep == RangesFit /\ [Next]_vars => RangesFit'
<1> SUFFICES ASSUME RangesFit, [Next]_vars PROVE RangesFit'
  OBVIOUS
<1>1. CASE EndRound
  <2>1. CASE noBuildZone
    <3>1. /\ noBuild' = [s |-> noBuild.s + 1, e |-> noBuild.e - 1]
          /\ noBuildZone' = (RangeLen(noBuild') # 0)
          /\ buildRange' = IF RangeLen(noBuild') = 0
                           THEN [t \in Teams |-> [s |-> 0, e |-> Rows - TowerRows]]
                           ELSE Grown(buildRange, 1, 1)
      BY <1>1, <2>1 DEF EndRound
    <3>2. CASE RangeLen(noBuild') = 0
      <4>1. noBuildZone' = FALSE /\ RangeLen(noBuild)' = 0
        BY <3>1, <3>2
      <4> QED BY <3>1, <3>2, <4>1 DEF RangesFit
    <3>3. CASE RangeLen(noBuild') # 0
      <4>1. noBuild.s + 1 < noBuild.e - 1
        BY <3>1, <3>3 DEF RangesFit, RangeLen, Monus
      <4>2. buildRange' = <<[s |-> 0, e |-> noBuild.s + 1],
                            [s |-> noBuild.e - 1, e |-> Rows - TowerRows]>>
        <5>1. buildRange = <<[s |-> 0, e |-> noBuild.s],
                             [s |-> noBuild.e, e |-> Rows - TowerRows]>>
          BY <2>1 DEF RangesFit
        <5>2. /\ [buildRange[1] EXCEPT !.e = @ + 1] = [s |-> 0, e |-> noBuild.s + 1]
              /\ [buildRange[2] EXCEPT !.s = @ - 1]
                   = [s |-> noBuild.e - 1, e |-> Rows - TowerRows]
          BY <5>1
        <5>3. Grown(buildRange, 1, 1) = <<[buildRange[1] EXCEPT !.e = @ + 1],
                                          [buildRange[2] EXCEPT !.s = @ - 1]>>
          BY DEF Grown
        <5> QED BY <3>1, <3>3, <5>2, <5>3, Zenon
      <4>3. noBuildZone' = TRUE
        BY <3>1, <3>3
      <4>4. /\ noBuild.s \in Int /\ noBuild.e \in Int
            /\ TowerRows + 1 <= noBuild.s /\ noBuild.e <= Rows - TowerRows - 1
        BY <2>1 DEF RangesFit
      <4>5. noBuild'.s = noBuild.s + 1 /\ noBuild'.e = noBuild.e - 1
        BY <3>1
      <4> QED BY <3>1, <4>1, <4>2, <4>3, <4>4, <4>5, Constants DEF RangesFit
    <3> QED BY <3>2, <3>3
  <2>2. CASE ~noBuildZone
    <3>1. /\ noBuild' = [s |-> noBuild.s + 0, e |-> noBuild.e - 0]
          /\ noBuildZone' = FALSE
      BY <1>1, <2>2 DEF EndRound
    <3>2. noBuild' = noBuild
      BY <3>1 DEF RangesFit
    <3>3. buildRange' = [t \in Teams |-> [s |-> 0, e |-> Rows - TowerRows]]
      BY <1>1, <2>2, <3>2 DEF EndRound, RangesFit
    <3> QED BY <2>2, <3>1, <3>2, <3>3 DEF RangesFit
  <2> QED BY <2>1, <2>2 DEF RangesFit
<1>2. CASE UNCHANGED zoneVars
  BY <1>2 DEF RangesFit, zoneVars, RangeLen
<1>3. Next => EndRound \/ UNCHANGED zoneVars
  BY Cases DEF Positions, Round, RoundUndefined, Upgrade, Hurt, Build, PlaceUnchanged,
    StartRound, Finish, BeginUpdate, TowerDies, TowerRests, TowerFires, TowerUnchanged,
    EndTowers, CreepDies, CreepWalks, CreepArrives, CreepUnchanged, EndCreeps, Strike,
    SpawnPair, EndTick
<1> QED BY <1>1, <1>2, <1>3 DEF vars

\* Every random position of a range can be built on, and there is one.
LEMMA RangesServe == RangesFit => RandomSpotsServe
<1> SUFFICES ASSUME RangesFit, NEW t \in Teams
             PROVE  /\ RandomSpots(t) # {}
                    /\ \A p \in RandomSpots(t) : CanPlaceTower(t, p)
  BY DEF RandomSpotsServe
<1>1. /\ buildRange[t].s \in Int /\ buildRange[t].e \in Int
      /\ 0 <= buildRange[t].s /\ buildRange[t].s < buildRange[t].e
      /\ buildRange[t].e <= Rows - TowerRows
  BY Constants DEF RangesFit, Teams
<1>2. <<buildRange[t].s, TowerCols>> \in RandomSpots(t)
  BY <1>1, Constants DEF RandomSpots, Cells, InRange
<1>3. ASSUME NEW p \in RandomSpots(t) PROVE CanPlaceTower(t, p)
  BY <1>1, <1>3, Constants DEF RandomSpots, Cells, InRange, CanPlaceTower
<1> QED BY <1>2, <1>3

\* place always finds a position for a tower, on every board and in every round: its
\* loop over random positions ends with the first one it draws.
THEOREM PlaceServes == Spec => []RandomSpotsServe
<1>1. Spec => []RangesFit
  BY RangesInit, RangesStep, PTL DEF Spec
<1> QED BY <1>1, RangesServe, PTL
-----------------------------------------------------------------------------
(* The rounds *)

\* Where the thread can be while a round is played, and when towers are owed.
InUpdate == {"towers", "creeps", "projectiles", "tick"}

RoundsFit ==
  /\ pc \in {"top", "place", "done", "failed"} \cup InUpdate
  /\ round \in Nat \ {0} /\ playing \in BOOLEAN
  /\ owed \in [Teams -> Nat]
  /\ pc \in InUpdate => playing
  /\ pc = "place" => ~playing
  /\ pc = "top" /\ ~playing => \A t \in Teams : owed[t] > 0
  /\ pc = "place" \/ playing => \A t \in Teams : owed[t] = 0
  /\ ~noBuildZone => round > 1

LEMMA TowerCountPositive ==
  ASSUME NEW r \in Nat PROVE TowerCount(r) \in Nat /\ TowerCount(r) > 0
<1>1. r \div TowerRounds \in Nat
  BY Constants
<1> QED BY <1>1 DEF TowerCount

LEMMA RoundsInit == Init => RoundsFit
<1> SUFFICES ASSUME Init PROVE RoundsFit
  OBVIOUS
<1>1. owed = [t \in Teams |-> TowerCount(1)] /\ TowerCount(1) \in Nat /\ TowerCount(1) > 0
  BY TowerCountPositive DEF Init
<1>2. owed \in [Teams -> Nat] /\ \A t \in Teams : owed[t] > 0
  BY <1>1
<1>3. pc = "top" /\ round = 1 /\ playing = FALSE /\ noBuildZone = TRUE
  BY DEF Init
<1>4. noBuildZone /\ playing \in BOOLEAN /\ pc \notin InUpdate
  BY <1>3 DEF InUpdate
<1> QED BY <1>2, <1>3, <1>4 DEF RoundsFit

LEMMA RoundsStep == RoundsFit /\ [Next]_vars => RoundsFit'
<1> SUFFICES ASSUME RoundsFit, [Next]_vars PROVE RoundsFit'
  OBVIOUS
<1>1. CASE Round
  <2>1. /\ owed' = [t \in Teams |-> 0] /\ pc' = "place" /\ round' = round
        /\ playing = FALSE /\ playing' = FALSE /\ noBuildZone' = noBuildZone
    BY <1>1 DEF Round, Idle, zoneVars, RoundsFit
  <2>2. owed' \in [Teams -> Nat] /\ \A t \in Teams : owed'[t] = 0
    BY <2>1
  <2> QED BY <2>1, <2>2 DEF RoundsFit, InUpdate
<1>2. CASE StartRound
  BY <1>2 DEF StartRound, RoundsFit, msgVars, zoneVars, InUpdate
<1>3. CASE EndRound
  <2>1. /\ playing' = FALSE /\ round' = round + 1 /\ pc' = "top"
        /\ owed' = [t \in Teams |-> TowerCount(round')]
    BY <1>3 DEF EndRound
  <2>2. round' \in Nat /\ round' > 1
    BY <2>1 DEF RoundsFit
  <2>3. TowerCount(round') \in Nat /\ TowerCount(round') > 0
    BY <2>2, TowerCountPositive
  <2>4. owed' \in [Teams -> Nat] /\ \A t \in Teams : owed'[t] > 0
    BY <2>1, <2>3
  <2>5. playing' \in BOOLEAN /\ pc' \notin InUpdate
    BY <2>1 DEF InUpdate
  <2> QED BY <2>1, <2>2, <2>4, <2>5 DEF RoundsFit
<1>4. CASE Finish
  BY <1>4 DEF Finish, RoundsFit, msgVars, zoneVars, InUpdate
<1>5. CASE RoundUndefined
  BY <1>5 DEF RoundUndefined, Idle, RoundsFit, msgVars, zoneVars, InUpdate
<1>6. CASE BeginUpdate
  BY <1>6 DEF BeginUpdate, RoundsFit, msgVars, zoneVars, InUpdate
<1>7. CASE EndTick
  BY <1>7 DEF EndTick, RoundsFit, msgVars, zoneVars, InUpdate
<1>8. CASE pc \in InUpdate /\ pc' \in InUpdate
           /\ UNCHANGED <<round, playing, owed, noBuildZone>>
  BY <1>8 DEF RoundsFit, InUpdate
<1>9. CASE UNCHANGED <<pc, round, playing, owed, noBuildZone>>
  BY <1>9 DEF RoundsFit
<1>10. ASSUME Next
       PROVE  \/ Round \/ StartRound \/ EndRound \/ Finish \/ RoundUndefined \/ BeginUpdate
              \/ EndTick
              \/ pc \in InUpdate /\ pc' \in InUpdate
                 /\ UNCHANGED <<round, playing, owed, noBuildZone>>
              \/ UNCHANGED <<pc, round, playing, owed, noBuildZone>>
  BY <1>10, Cases DEF Positions, Upgrade, Hurt, Build, PlaceUnchanged, TowerDies, TowerRests,
    TowerFires, TowerUnchanged, EndTowers, CreepDies, CreepWalks, CreepArrives, CreepUnchanged,
    EndCreeps, Strike, SpawnPair, InUpdate, msgVars, zoneVars
<1>11. CASE Next
  BY <1>1, <1>2, <1>3, <1>4, <1>5, <1>6, <1>7, <1>8, <1>9, <1>10, <1>11
<1>12. CASE UNCHANGED vars
  BY <1>9, <1>12 DEF vars, msgVars, zoneVars
<1> QED BY <1>11, <1>12

LEMMA RoundsMapInit == Init => Rounds!Init
<1> SUFFICES ASSUME Init PROVE Rounds!Init
  OBVIOUS
<1>1. \E t \in Teams : owed[t] > 0
  <2>1. owed[1] > 0
    BY TowerCountPositive DEF Init, Teams
  <2> QED BY <2>1 DEF Teams
<1> QED BY <1>1 DEF Init, stage, Rounds!Init

LEMMA RoundsMapStep == RoundsFit /\ [Next]_vars => [Rounds!Next]_(Rounds!vars)
<1> SUFFICES ASSUME RoundsFit, [Next]_vars PROVE Rounds!Next \/ UNCHANGED Rounds!vars
  OBVIOUS
<1>0. RoundsFit'
  BY RoundsStep
<1>1. CASE Round
  <2>1. /\ pc = "top" /\ pc' = "place" /\ playing = FALSE /\ playing' = FALSE
        /\ round' = round /\ owed' = [t \in Teams |-> 0]
    BY <1>1 DEF Round, Idle, RoundsFit
  <2>2. /\ \E t \in Teams : owed[t] > 0
        /\ ~\E t \in Teams : owed'[t] > 0
    BY <2>1 DEF RoundsFit, Teams
  <2> QED BY <2>1, <2>2 DEF stage, Rounds!Next, Rounds!Placed
<1>2. CASE StartRound
  <2>1. /\ pc = "place" /\ pc' = "top" /\ playing = FALSE /\ playing' = TRUE
        /\ round' = round /\ owed' = owed
    BY <1>2 DEF StartRound, RoundsFit, msgVars
  <2>2. ~\E t \in Teams : owed[t] > 0
    BY <2>1 DEF RoundsFit
  <2> QED BY <2>1, <2>2 DEF stage, Rounds!Next, Rounds!Start
<1>3. CASE EndRound
  <2>1. /\ pc = "top" /\ pc' = "top" /\ playing = TRUE /\ playing' = FALSE
        /\ round' = round + 1
    BY <1>3 DEF EndRound, RoundsFit
  <2>2. \E t \in Teams : owed'[t] > 0
    BY <1>0, <2>1 DEF RoundsFit, Teams
  <2> QED BY <2>1, <2>2 DEF stage, Rounds!Next, Rounds!End
<1>4. CASE Finish
  <2>1. /\ pc = "top" /\ pc' = "done" /\ round' = round /\ owed' = owed /\ round > 1
    BY <1>4 DEF Finish, Completed, RoundsFit, msgVars
  <2> QED BY <2>1 DEF stage, Rounds!Next, Rounds!Finish
<1>5. CASE RoundUndefined
  <2>1. /\ pc = "top" /\ pc' = "failed" /\ playing = FALSE
        /\ round' = round /\ owed' = owed
    BY <1>5 DEF RoundUndefined, Idle, RoundsFit, msgVars
  <2>2. \E t \in Teams : owed[t] > 0
    BY <2>1 DEF RoundsFit, Teams
  <2> QED BY <2>1, <2>2 DEF stage, Rounds!Next, Rounds!Fail
<1>6. CASE /\ pc \notin {"done", "failed"} /\ pc' \notin {"done", "failed"}
           /\ UNCHANGED <<round, playing, owed>>
  BY <1>6 DEF stage, Rounds!vars
<1>7. ASSUME Next
      PROVE  \/ Round \/ StartRound \/ EndRound \/ Finish \/ RoundUndefined
             \/ /\ pc \notin {"done", "failed"} /\ pc' \notin {"done", "failed"}
                /\ UNCHANGED <<round, playing, owed>>
  BY <1>7, Cases DEF Positions, Idle, Upgrade, Hurt, Build, Placing, PlaceUnchanged, BeginUpdate,
    TowerDies, TowerRests, TowerFires, TowerTurn, TowerUnchanged, EndTowers, CreepDies,
    CreepWalks, CreepArrives, CreepTurn, CreepUnchanged, EndCreeps, Strike, SpawnPair, EndTick,
    msgVars
<1>8. CASE UNCHANGED vars
  BY <1>8 DEF vars, msgVars, stage, Rounds!vars
<1> QED BY <1>1, <1>2, <1>3, <1>4, <1>5, <1>6, <1>7, <1>8

\* To the program that drives it the engine is TDRounds, for any number of rounds: no round
\* starts before the towers owed have been placed, none ends or is over twice, and a message
\* without positions is the only thing it fails on before a round.
THEOREM KeepsTDRounds == Spec => KeepsRounds
<1>1. Spec => []RoundsFit
  BY RoundsInit, RoundsStep, PTL DEF Spec
<1> QED BY <1>1, RoundsMapInit, RoundsMapStep, PTL DEF Spec, KeepsRounds, Rounds!Spec
-----------------------------------------------------------------------------
(* The creeps of a round *)

\* Between rounds there is no creep, alive or to be spawned: the count of a new round
\* starts from nothing.
CreepsFit ==
  /\ bred \in Nat /\ DOMAIN creeps \subseteq 0..bred - 1
  /\ spawned \in Nat /\ spawnCount \in Nat /\ spawned <= spawnCount
  /\ CreepsCounted
  /\ playing \/ (DOMAIN creeps = {} /\ spawned = spawnCount)
  /\ pc = "creeps" => todo \subseteq DOMAIN creeps

LEMMA SpawnCountType == ASSUME NEW r \in Nat PROVE SpawnCount(r) \in Nat
<1>1. r * r * 75 \in Nat
  OBVIOUS
<1>2. (r * r * 75) \div 10000 \in Nat
  BY <1>1
<1> QED BY <1>2 DEF SpawnCount

LEMMA LivingFinite ==
  ASSUME CreepsFit
  PROVE  IsFiniteSet(DOMAIN creeps) /\ Cardinality(DOMAIN creeps) \in Nat
<1>1. IsFiniteSet(0..bred - 1)
  BY FS_Interval DEF CreepsFit
<1>2. IsFiniteSet(DOMAIN creeps)
  BY <1>1, FS_Subset DEF CreepsFit
<1> QED BY <1>2, FS_CardinalityType

LEMMA CreepsInit == Init => CreepsFit
<1> SUFFICES ASSUME Init PROVE CreepsFit
  OBVIOUS
<1>1. /\ DOMAIN creeps = {} /\ bred = 0 /\ active = 0
      /\ spawned = 0 /\ spawnCount = 0
  BY DEF Init
<1>2. Cardinality({}) = 0
  BY FS_EmptySet
<1>3. pc = "top"
  BY DEF Init
<1> QED BY <1>1, <1>2, <1>3 DEF CreepsFit, CreepsCounted

LEMMA CreepsStep == CreepsFit /\ RoundsFit /\ [Next]_vars => CreepsFit'
<1> SUFFICES ASSUME CreepsFit, RoundsFit, [Next]_vars PROVE CreepsFit'
  OBVIOUS
<1> USE LivingFinite
<1>1. CASE StartRound
  <2>1. /\ DOMAIN creeps = {} /\ creeps' = creeps /\ bred' = bred /\ playing' = TRUE
        /\ spawnCount' = SpawnCount(round) /\ spawned' = 0 /\ active' = 2 * spawnCount'
        /\ pc' = "top"
    BY <1>1 DEF StartRound, CreepsFit, RoundsFit
  <2>2. SpawnCount(round) \in Nat
    BY SpawnCountType DEF RoundsFit
  <2>3. Cardinality({}) = 0
    BY FS_EmptySet
  <2> QED BY <2>1, <2>2, <2>3 DEF CreepsFit, CreepsCounted
<1>2. CASE EndRound
  <2>1. /\ active = 0 /\ UNCHANGED <<pc, creeps, bred, active, spawned, spawnCount>>
        /\ pc = "top"
    BY <1>2 DEF EndRound, creepVars, spawnVars
  <2>2. Cardinality(DOMAIN creeps) = 0 /\ spawned = spawnCount
    BY <2>1 DEF CreepsFit, CreepsCounted
  <2>3. DOMAIN creeps = {}
    BY <2>2, FS_EmptySet
  <2> QED BY <2>1, <2>2, <2>3 DEF CreepsFit, CreepsCounted
<1>3. ASSUME NEW c \in todo, CreepDies(c) \/ CreepArrives(c)
      PROVE  CreepsFit'
  <2>1. /\ pc = "creeps" /\ playing' = playing /\ pc' = pc /\ todo' = todo \ {c}
        /\ creeps' = Removed(creeps, c) /\ active' = active - 1
        /\ UNCHANGED <<bred, spawned, spawnCount>>
    BY <1>3 DEF CreepDies, CreepArrives, CreepTurn, CreepUnchanged, spawnVars
  <2>2. DOMAIN creeps' = DOMAIN creeps \ {c}
    BY <2>1 DEF Removed
  <2>3. c \in DOMAIN creeps
    BY <1>3, <2>1 DEF CreepsFit
  <2>4. Cardinality(DOMAIN creeps') = Cardinality(DOMAIN creeps) - 1
    BY <2>2, <2>3, FS_RemoveElement
  <2> QED BY <2>1, <2>2, <2>4 DEF CreepsFit, CreepsCounted, RoundsFit, InUpdate
<1>4. CASE SpawnPair
  <2>1. PICK x, y :
          /\ creeps' = Added(Added(creeps, bred, x), bred + 1, y)
          /\ bred' = bred + 2 /\ spawned' = spawned + 1 /\ spawned < spawnCount
          /\ UNCHANGED <<pc, playing, active, spawnCount>>
    BY <1>4 DEF SpawnPair
  <2>2. DOMAIN creeps' = (DOMAIN creeps \cup {bred}) \cup {bred + 1}
    BY <2>1 DEF Added
  <2>3. bred \notin DOMAIN creeps /\ bred + 1 \notin DOMAIN creeps \cup {bred}
    BY DEF CreepsFit
  <2>4. /\ IsFiniteSet(DOMAIN creeps \cup {bred})
        /\ Cardinality(DOMAIN creeps \cup {bred}) = Cardinality(DOMAIN creeps) + 1
    BY <2>3, FS_AddElement
  <2>5. Cardinality(DOMAIN creeps') = Cardinality(DOMAIN creeps) + 2
    BY <2>2, <2>3, <2>4, FS_AddElement
  <2>6. playing /\ pc # "creeps"
    BY <1>4 DEF SpawnPair, RoundsFit, InUpdate
  <2> QED BY <2>1, <2>2, <2>5, <2>6 DEF CreepsFit, CreepsCounted
<1>5. CASE /\ DOMAIN creeps' = DOMAIN creeps
           /\ UNCHANGED <<playing, bred, active, spawned, spawnCount>>
           /\ pc' = "creeps" => todo' \subseteq DOMAIN creeps'
  BY <1>5 DEF CreepsFit, CreepsCounted
<1>6. ASSUME Build \/ Strike \/ (\E c \in todo : CreepWalks(c))
      PROVE  /\ DOMAIN creeps' = DOMAIN creeps
             /\ UNCHANGED <<playing, bred, active, spawned, spawnCount>>
             /\ pc' = "creeps" => todo' \subseteq DOMAIN creeps'
  <2>1. CASE Build
    BY <2>1 DEF Build, Placing, PlaceUnchanged, Rerouted, spawnVars
  <2>2. CASE Strike
    BY <2>2 DEF Strike, Rerouted, spawnVars
  <2>3. CASE \E c \in todo : CreepWalks(c)
    BY <2>3 DEF CreepWalks, CreepTurn, CreepUnchanged, CreepsFit, spawnVars
  <2> QED BY <1>6, <2>1, <2>2, <2>3
<1>7. ASSUME Next
      PROVE  \/ StartRound \/ EndRound \/ SpawnPair
             \/ (\E c \in todo : CreepDies(c) \/ CreepArrives(c))
             \/ (Build \/ Strike \/ \E c \in todo : CreepWalks(c))
             \/ /\ UNCHANGED <<creeps, playing, bred, active, spawned, spawnCount>>
                /\ pc' = "creeps" => todo' \subseteq DOMAIN creeps
  BY <1>7, Cases DEF Positions, Idle, Round, RoundUndefined, Upgrade, Hurt, Placing,
    PlaceUnchanged, Finish, BeginUpdate, TowerDies, TowerRests, TowerFires, TowerTurn,
    TowerUnchanged, EndTowers, EndCreeps, EndTick, creepVars, spawnVars
<1>8. CASE UNCHANGED vars
  BY <1>5, <1>8 DEF vars, creepVars, spawnVars, CreepsFit
<1> QED BY <1>1, <1>2, <1>3, <1>4, <1>5, <1>6, <1>7, <1>8

\* activeCreepCount is right throughout every round of every game: creepKilled never takes
\* it below zero, and the creeps whose number endRound asserts to be zero are the creeps.
THEOREM CreepsAreCounted == Spec => []CreepsCounted
<1>1. Init => CreepsFit /\ RoundsFit
  BY CreepsInit, RoundsInit
<1>2. (CreepsFit /\ RoundsFit) /\ [Next]_vars => (CreepsFit /\ RoundsFit)'
  BY CreepsStep, RoundsStep
<1>3. CreepsFit => CreepsCounted
  BY DEF CreepsFit
<1> QED BY <1>1, <1>2, <1>3, PTL DEF Spec
-----------------------------------------------------------------------------
(* The towers, their counts and the board *)

OrderRec == [team : Teams, pos : Nat \X Nat]

HasFields(t) == t = [team |-> t.team, pos |-> t.pos, level |-> t.level, ammo |-> t.ammo]

TowersFit ==
  /\ built \in Nat /\ DOMAIN towers \subseteq 0..built - 1
  /\ \A i \in DOMAIN towers : HasFields(towers[i]) /\ towers[i].team \in Teams
  /\ towerCount = [t \in Teams |-> towerCount[t]]
  /\ pc = "towers" => todo \subseteq DOMAIN towers
  /\ positions \in [Teams -> Lists \cup {<<>>}]
  /\ orders \in Seq(OrderRec)
  /\ CountersAgree
  /\ BoardAgrees

\* Nothing but level and ammo of a tower ever changes.
SameTowers(f, g) ==
  /\ DOMAIN g = DOMAIN f
  /\ \A i \in DOMAIN f : HasFields(g[i]) /\ g[i].team = f[i].team /\ g[i].pos = f[i].pos

LEMMA SameWalls ==
  ASSUME NEW f, NEW g, SameTowers(f, g) PROVE Walls(g) = Walls(f)
<1>1. \A c \in Cells : (\E i \in DOMAIN g : Overlap(CreepBox(c), TowerBox(g[i].pos)))
                      <=> (\E i \in DOMAIN f : Overlap(CreepBox(c), TowerBox(f[i].pos)))
  BY DEF SameTowers
<1> QED BY <1>1 DEF Walls

LEMMA OwnFinite ==
  ASSUME TowersFit, NEW t \in Teams
  PROVE  IsFiniteSet(OwnTowers(t)) /\ Cardinality(OwnTowers(t)) \in Nat
<1>1. IsFiniteSet(0..built - 1)
  BY FS_Interval DEF TowersFit
<1>2. OwnTowers(t) \subseteq 0..built - 1
  BY DEF TowersFit, OwnTowers
<1> QED BY <1>1, <1>2, FS_Subset, FS_CardinalityType

\* What holds of the towers goes on to hold when they keep their sides and places.
LEMMA SameTowersFit ==
  ASSUME TowersFit, SameTowers(towers, towers'), BoardAgrees',
         positions' \in [Teams -> Lists \cup {<<>>}], orders' \in Seq(OrderRec),
         UNCHANGED <<built, towerCount>>, pc' = "towers" => todo' \subseteq DOMAIN towers'
  PROVE  TowersFit'
<1>1. \A t \in Teams : OwnTowers(t)' = OwnTowers(t)
  BY DEF OwnTowers, SameTowers
<1>2. CountersAgree'
  BY <1>1 DEF CountersAgree, TowersFit
<1>3. \A i \in DOMAIN towers' : HasFields(towers'[i]) /\ towers'[i].team \in Teams
  BY DEF SameTowers, TowersFit
<1>4. DOMAIN towers' = DOMAIN towers
  BY DEF SameTowers
<1> QED BY <1>2, <1>3, <1>4 DEF TowersFit

\* Ammo and level may change; the rest stays.
LEMMA WithAmmo ==
  ASSUME NEW t, HasFields(t), NEW n
  PROVE  LET u == [t EXCEPT !.ammo = n]
         IN HasFields(u) /\ u.team = t.team /\ u.pos = t.pos
<1>1. [t EXCEPT !.ammo = n] = [team |-> t.team, pos |-> t.pos, level |-> t.level, ammo |-> n]
  BY DEF HasFields
<1> QED BY <1>1 DEF HasFields

LEMMA OrderType ==
  ASSUME NEW t \in Teams, NEW list \in Lists, owed[t] \in Nat
  PROVE  Order(t, list) \in Seq(OrderRec)
<1>1. list \in Seq(Nat \X Nat) /\ list # <<>>
  BY TDAssumption DEF TDAssumption
<1>2. \A i \in 1..owed[t] : (IF i <= Len(list) THEN list[i] ELSE list[1]) \in Nat \X Nat
  BY <1>1
<1>3. Order(t, list) \in [1..owed[t] -> OrderRec]
  BY <1>2 DEF Order, OrderRec
<1> QED BY <1>3

LEMMA TowersInit == Init => TowersFit
<1> SUFFICES ASSUME Init PROVE TowersFit
  OBVIOUS
<1>1. /\ DOMAIN towers = {} /\ built = 0 /\ towerCount = [t \in Teams |-> 0]
      /\ walls = {} /\ pc = "top" /\ orders = <<>> /\ positions = [t \in Teams |-> <<>>]
  BY DEF Init
<1>2. Walls(towers) = {}
  BY <1>1 DEF Walls
<1>3. \A t \in Teams : OwnTowers(t) = {}
  BY <1>1 DEF OwnTowers
<1>4. Cardinality({}) = 0
  BY FS_EmptySet
<1>5. CountersAgree
  BY <1>1, <1>3, <1>4 DEF CountersAgree
<1> QED BY <1>1, <1>2, <1>5 DEF TowersFit, BoardAgrees

LEMMA TowersStep == TowersFit /\ RoundsFit /\ [Next]_vars => TowersFit'
<1> SUFFICES ASSUME TowersFit, RoundsFit, [Next]_vars PROVE TowersFit'
  OBVIOUS
<1>0. UNCHANGED towers => SameTowers(towers, towers')
  BY DEF SameTowers, TowersFit
<1>1. CASE Positions
  <2>1. /\ UNCHANGED <<towers, built, towerCount, orders, walls, changed, pc>> /\ pc = "top"
        /\ positions' \in [Teams -> Lists \cup {<<>>}]
    BY <1>1 DEF Positions, Idle, TowersFit, towerVars, boardVars
  <2>2. BoardAgrees'
    BY <2>1 DEF TowersFit, BoardAgrees, Walls
  <2> QED BY <1>0, <2>1, <2>2, SameTowersFit DEF TowersFit
<1>2. CASE Round
  <2>1. /\ UNCHANGED <<towers, built, towerCount, walls, changed>> /\ pc' = "place"
        /\ positions' \in [Teams -> Lists \cup {<<>>}]
    BY <1>2 DEF Round, towerVars, boardVars
  <2>2. orders' \in Seq(OrderRec)
    <3>1. PICK list \in [Teams -> Lists] :
            orders' = Order(1, list[1]) \o Order(2, list[2])
      BY <1>2 DEF Round
    <3>2. Order(1, list[1]) \in Seq(OrderRec) /\ Order(2, list[2]) \in Seq(OrderRec)
      BY OrderType DEF RoundsFit, Teams
    <3> QED BY <3>1, <3>2
  <2>3. BoardAgrees'
    BY <2>1 DEF TowersFit, BoardAgrees, Walls
  <2> QED BY <1>0, <2>1, <2>2, <2>3, SameTowersFit
<1>3. CASE Upgrade \/ Hurt
  <2>1. /\ UNCHANGED <<pc, positions, built, towerCount, walls, changed>> /\ pc = "place"
        /\ orders # <<>> /\ orders' = Tail(orders)
    BY <1>3 DEF Upgrade, Hurt, Placing, PlaceUnchanged
  <2>2. orders' \in Seq(OrderRec)
    BY <2>1 DEF TowersFit
  <2>3. SameTowers(towers, towers')
    <3>1. ASSUME NEW i, NEW e, towers' = [towers EXCEPT ![i] = e],
                 i \in DOMAIN towers => /\ HasFields(e) /\ e.team = towers[i].team
                                        /\ e.pos = towers[i].pos
          PROVE  SameTowers(towers, towers')
      BY <3>1 DEF SameTowers, TowersFit
    <3> DEFINE i == Lowest(Hit(Head(orders).pos))
    <3>2. CASE Upgrade
      <4>1. towers' = [towers EXCEPT ![i] = Upgraded(towers[i])]
        BY <3>2 DEF Upgrade
      <4>2. ASSUME i \in DOMAIN towers
            PROVE  /\ HasFields(Upgraded(towers[i])) /\ Upgraded(towers[i]).team = towers[i].team
                   /\ Upgraded(towers[i]).pos = towers[i].pos
        BY DEF Upgraded, HasFields
      <4> QED BY <3>1, <4>1, <4>2
    <3>3. CASE Hurt
      <4> DEFINE e == [towers[i] EXCEPT !.ammo = Monus(towers[i].ammo, TowerAmmo)]
      <4>1. towers' = [towers EXCEPT ![i] = e]
        BY <3>3 DEF Hurt
      <4>2. ASSUME i \in DOMAIN towers
            PROVE  HasFields(e) /\ e.team = towers[i].team /\ e.pos = towers[i].pos
        BY <4>2, WithAmmo DEF TowersFit
      <4> QED BY <3>1, <4>1, <4>2
    <3> QED BY <1>3, <3>2, <3>3
  <2>4. BoardAgrees'
    BY <2>1, <2>3, SameWalls DEF TowersFit, BoardAgrees
  <2> QED BY <2>1, <2>2, <2>3, <2>4, SameTowersFit DEF TowersFit
<1>4. CASE Build
  <2>1. PICK p : /\ towers' = Added(towers, built, [team |-> Head(orders).team, pos |-> p,
                                                    level |-> 1, ammo |-> TowerAmmo])
                 /\ towerCount' = [towerCount EXCEPT ![Head(orders).team] = @ + 1]
    BY <1>4 DEF Build
  <2>2. /\ UNCHANGED <<pc, positions>> /\ pc = "place" /\ built' = built + 1
        /\ orders # <<>> /\ orders' = Tail(orders) /\ walls' = Walls(towers')
    BY <1>4 DEF Build, Placing, PlaceUnchanged
  <2>3. Head(orders).team \in Teams /\ orders' \in Seq(OrderRec)
    <3>1. orders \in Seq(OrderRec) /\ orders # <<>>
      BY <2>2 DEF TowersFit
    <3>2. Head(orders) \in OrderRec /\ Tail(orders) \in Seq(OrderRec)
      BY <3>1
    <3> QED BY <2>2, <3>2 DEF OrderRec
  <2>4. built \notin DOMAIN towers
    BY DEF TowersFit
  <2>5. /\ DOMAIN towers' = DOMAIN towers \cup {built}
        /\ \A i \in DOMAIN towers : towers'[i] = towers[i]
        /\ towers'[built] = [team |-> Head(orders).team, pos |-> p, level |-> 1,
                             ammo |-> TowerAmmo]
    BY <2>1, <2>4 DEF Added
  <2>6. \A i \in DOMAIN towers' : HasFields(towers'[i]) /\ towers'[i].team \in Teams
    BY <2>3, <2>5 DEF TowersFit, HasFields
  <2>7. ASSUME NEW t \in Teams PROVE towerCount'[t] = Cardinality(OwnTowers(t)')
    <3>1. OwnTowers(t)' = IF t = Head(orders).team THEN OwnTowers(t) \cup {built}
                          ELSE OwnTowers(t)
      BY <2>4, <2>5 DEF OwnTowers
    <3>2. built \notin OwnTowers(t)
      BY <2>4 DEF OwnTowers
    <3>3. Cardinality(OwnTowers(t) \cup {built}) = Cardinality(OwnTowers(t)) + 1
      BY <3>2, OwnFinite, FS_AddElement
    <3>4. towerCount[t] = Cardinality(OwnTowers(t))
      BY DEF TowersFit, CountersAgree
    <3>5. towerCount'[t] = IF t = Head(orders).team THEN towerCount[t] + 1 ELSE towerCount[t]
      BY <2>1 DEF TowersFit
    <3> QED BY <3>1, <3>3, <3>4, <3>5
  <2>8. towerCount' = [t \in Teams |-> towerCount'[t]]
    BY <2>1 DEF TowersFit
  <2>9. BoardAgrees'
    BY <2>2 DEF BoardAgrees, Walls
  <2> QED BY <2>2, <2>3, <2>5, <2>6, <2>7, <2>8, <2>9 DEF TowersFit, CountersAgree
<1>5. ASSUME NEW i \in todo, TowerDies(i) PROVE TowersFit'
  <2>1. /\ pc = "towers" /\ UNCHANGED <<pc, positions, orders, built, walls>>
        /\ todo' = todo \ {i} /\ towers' = Removed(towers, i) /\ changed' = TRUE
        /\ towerCount' = [towerCount EXCEPT ![towers[i].team] = @ - 1]
    BY <1>5 DEF TowerDies, TowerTurn, TowerUnchanged, msgVars
  <2>2. i \in DOMAIN towers /\ towers[i].team \in Teams
    BY <2>1 DEF TowersFit
  <2>3. /\ DOMAIN towers' = DOMAIN towers \ {i}
        /\ \A j \in DOMAIN towers' : towers'[j] = towers[j]
    BY <2>1 DEF Removed
  <2>4. ASSUME NEW t \in Teams PROVE towerCount'[t] = Cardinality(OwnTowers(t)')
    <3>1. OwnTowers(t)' = OwnTowers(t) \ {i} /\ (i \in OwnTowers(t) <=> t = towers[i].team)
      BY <2>2, <2>3 DEF OwnTowers
    <3>2. Cardinality(OwnTowers(t)') = IF t = towers[i].team THEN Cardinality(OwnTowers(t)) - 1
                                       ELSE Cardinality(OwnTowers(t))
      BY <3>1, OwnFinite, FS_RemoveElement
    <3>3. towerCount[t] = Cardinality(OwnTowers(t))
      BY DEF TowersFit, CountersAgree
    <3>4. towerCount'[t] = IF t = towers[i].team THEN towerCount[t] - 1 ELSE towerCount[t]
      BY <2>1 DEF TowersFit
    <3> QED BY <3>2, <3>3, <3>4
  <2>5. towerCount' = [t \in Teams |-> towerCount'[t]]
    BY <2>1 DEF TowersFit
  <2>6. BoardAgrees'
    BY <2>1 DEF BoardAgrees
  <2> QED BY <2>1, <2>3, <2>4, <2>5, <2>6 DEF TowersFit, CountersAgree
<1>6. ASSUME NEW i \in todo, TowerFires(i) PROVE TowersFit'
  <2> DEFINE e == [towers[i] EXCEPT !.ammo = towers[i].ammo - 1]
  <2>1. /\ pc = "towers" /\ UNCHANGED <<pc, positions, orders, built, walls, towerCount, changed>>
        /\ todo' = todo \ {i} /\ towers' = [towers EXCEPT ![i] = e]
    BY <1>6 DEF TowerFires, TowerTurn, TowerUnchanged, msgVars
  <2>2. i \in DOMAIN towers
    BY <2>1 DEF TowersFit
  <2>3. HasFields(e) /\ e.team = towers[i].team /\ e.pos = towers[i].pos
    BY <2>2, WithAmmo DEF TowersFit
  <2>4. SameTowers(towers, towers')
    BY <2>1, <2>3 DEF SameTowers, TowersFit
  <2>5. BoardAgrees'
    BY <2>1, <2>4, SameWalls DEF TowersFit, BoardAgrees
  <2> QED BY <2>1, <2>4, <2>5, SameTowersFit DEF TowersFit, SameTowers
<1>7. ASSUME NEW c \in todo, CreepArrives(c) PROVE TowersFit'
  <2>1. /\ pc = "creeps"
        /\ UNCHANGED <<pc, positions, orders, built, walls, towerCount, changed>>
    BY <1>7 DEF CreepArrives, CreepTurn, CreepUnchanged, msgVars, boardVars
  <2> DEFINE t == creeps[c].team
  <2>2. towers' = [i \in DOMAIN towers |->
                     IF towers[i].team = t
                     THEN [towers[i] EXCEPT !.ammo = Monus(towers[i].ammo, damage[t])]
                     ELSE towers[i]]
    BY <1>7 DEF CreepArrives
  <2>3. SameTowers(towers, towers')
    BY <2>2, WithAmmo DEF SameTowers, TowersFit
  <2>4. BoardAgrees'
    BY <2>1, <2>3, SameWalls DEF TowersFit, BoardAgrees
  <2> QED BY <2>1, <2>3, <2>4, SameTowersFit DEF TowersFit
<1>8. CASE Strike
  <2>1. /\ pc' = "tick" /\ changed' = FALSE
        /\ UNCHANGED <<positions, orders, built, towerCount>>
        /\ IF changed THEN walls' = Walls(towers) ELSE walls' = walls
    BY <1>8 DEF Strike, msgVars
  <2>2. PICK landed : towers' = [i \in DOMAIN towers |->
                        [towers[i] EXCEPT !.ammo =
                           Monus(towers[i].ammo, Struck(landed, "tower", i))]]
    BY <1>8 DEF Strike
  <2>3. SameTowers(towers, towers')
    BY <2>2, WithAmmo DEF SameTowers, TowersFit
  <2>4. Walls(towers') = Walls(towers)
    BY <2>3, SameWalls
  <2>5. BoardAgrees'
    BY <2>1, <2>4 DEF TowersFit, BoardAgrees
  <2> QED BY <2>1, <2>3, <2>5, SameTowersFit DEF TowersFit
<1>9. CASE /\ UNCHANGED <<towers, built, towerCount, positions, orders, walls, changed>>
           /\ pc' = "towers" => todo' \subseteq DOMAIN towers
  <2>1. BoardAgrees'
    BY <1>9 DEF TowersFit, BoardAgrees, Walls
  <2> QED BY <1>0, <1>9, <2>1, SameTowersFit DEF TowersFit
<1>10. ASSUME Next
       PROVE  \/ Positions \/ Round \/ (Upgrade \/ Hurt) \/ Build
              \/ (\E i \in todo : TowerDies(i)) \/ (\E i \in todo : TowerFires(i))
              \/ (\E c \in todo : CreepArrives(c)) \/ Strike
              \/ /\ UNCHANGED <<towers, built, towerCount, positions, orders, walls, changed>>
                 /\ pc' = "towers" => todo' \subseteq DOMAIN towers
  BY <1>10, Cases DEF RoundUndefined, StartRound, EndRound, Finish, BeginUpdate, TowerRests,
    TowerTurn, TowerUnchanged, EndTowers, CreepDies, CreepWalks, CreepTurn, CreepUnchanged,
    EndCreeps, SpawnPair, EndTick, msgVars, towerVars, boardVars, TowersFit
<1>11. CASE UNCHANGED vars
  BY <1>9, <1>11 DEF vars, msgVars, towerVars, boardVars, TowersFit
<1> QED BY <1>1, <1>2, <1>3, <1>4, <1>5, <1>6, <1>7, <1>8, <1>9, <1>10, <1>11

\* A side has lost when its tower count is zero, and the count is always right: placement,
\* creeps at the exit and deaths in the middle of an update included, in every game.
THEOREM CountersAlwaysAgree == Spec => []CountersAgree
<1>1. Init => TowersFit /\ RoundsFit
  BY TowersInit, RoundsInit
<1>2. (TowersFit /\ RoundsFit) /\ [Next]_vars => (TowersFit /\ RoundsFit)'
  BY TowersStep, RoundsStep
<1>3. TowersFit => CountersAgree
  BY DEF TowersFit
<1> QED BY <1>1, <1>2, <1>3, PTL DEF Spec

\* Paths are only ever made from a board on which the living towers, and no others, stand,
\* except in the update in which one has died, which makes all of them anew.
THEOREM BoardAlwaysAgrees == Spec => []BoardAgrees
<1>1. Init => TowersFit /\ RoundsFit
  BY TowersInit, RoundsInit
<1>2. (TowersFit /\ RoundsFit) /\ [Next]_vars => (TowersFit /\ RoundsFit)'
  BY TowersStep, RoundsStep
<1>3. TowersFit => BoardAgrees
  BY DEF TowersFit
<1> QED BY <1>1, <1>2, <1>3, PTL DEF Spec

\* The counters by which games and rounds end are right, in every game.
THEOREM CountersAlwaysHold == Spec => []CountersHold
<1>1. CountersAgree /\ CreepsCounted => CountersHold
  BY DEF CountersHold
<1> QED BY <1>1, CountersAlwaysAgree, CreepsAreCounted, PTL

\* The board that paths are made from is right, and every range has room for a tower.
THEOREM BoardAlwaysServes == Spec => []BoardServes
<1>1. BoardAgrees /\ RandomSpotsServe => BoardServes
  BY DEF BoardServes
<1> QED BY <1>1, BoardAlwaysAgrees, PlaceServes, PTL
-----------------------------------------------------------------------------
(* Induction, and what is gone through step by step *)

\* A non-empty set of naturals has a smallest element.
LEMMA Smallest == ASSUME NEW T \in SUBSET Nat, T # {} PROVE \E x \in T : \A y \in T : x <= y
<1> DEFINE Below(x) == {y \in T : y < x}
           F == {Below(x) : x \in T}
<1>1. ASSUME NEW x \in T PROVE Below(x) \in FiniteSubsetsOf(Nat)
  <2>1. IsFiniteSet(0..x)
    BY FS_Interval
  <2>2. \A y \in Below(x) : y \in 0..x
    OBVIOUS
  <2>3. Below(x) \in SUBSET (0..x) /\ Below(x) \in SUBSET Nat
    BY <2>2, Zenon
  <2> QED BY <2>1, <2>3, FS_Subset DEF FiniteSubsetsOf
<1>2. F \subseteq FiniteSubsetsOf(Nat) /\ F # {}
  BY <1>1
<1>3. IsWellFoundedOn(StrictSubsetOrdering(Nat), FiniteSubsetsOf(Nat))
  BY FS_StrictSubsetOrderingWellFounded
<1> HIDE DEF F
<1>4. PICK D \in F : \A E \in F : ~(<<E, D>> \in StrictSubsetOrdering(Nat))
  BY <1>2, <1>3, WFMin, Zenon
<1>5. PICK x \in T : D = Below(x)
  BY <1>4 DEF F
<1>6. ASSUME NEW y \in T, y < x PROVE FALSE
  <2>1. y \in Below(x) /\ y \notin Below(y) /\ \A z \in Below(y) : z \in Below(x)
    BY <1>6
  <2>2. Below(y) \in F
    BY DEF F
  <2>3. Below(y) \in SUBSET Nat /\ Below(x) \in SUBSET Nat
    OBVIOUS
  <2> HIDE DEF Below
  <2>4. <<Below(y), D>> \in StrictSubsetOrdering(Nat)
    BY <1>5, <2>1, <2>3 DEF StrictSubsetOrdering
  <2> QED BY <1>4, <2>2, <2>4
<1> QED BY <1>6

\* What holds of 0, and of n + 1 when of n, holds of every natural.
LEMMA Induct == ASSUME NEW T, 0 \in T, \A n \in Nat : n \in T => n + 1 \in T PROVE Nat \subseteq T
<1> SUFFICES ASSUME Nat \ T # {} PROVE FALSE
  OBVIOUS
<1>1. PICK n \in Nat \ T : \A m \in Nat \ T : n <= m
  BY Smallest
<1>2. n # 0 /\ n - 1 \in Nat /\ n - 1 \in T
  BY <1>1
<1> QED BY <1>2

\* f goes from i to its image, from there to the image of that, and so on, m times.
GoesOn(f, i, g, m) == f[0] = i /\ \A n \in 1..m : f[n] = g[f[n - 1]]

\* A set in which every element has an image can be gone through from any element.
LEMMA Iterates ==
  ASSUME NEW S, NEW i \in S, NEW g \in [S -> S], NEW m \in Nat
  PROVE  \E f \in [0..m -> S] : GoesOn(f, i, g, m)
<1> DEFINE Up(f, n) == f[0] = i /\ \A k \in 1..n : f[k] = g[f[k - 1]]
           T == {n \in Nat : \E f \in [0..n -> S] : Up(f, n)}
<1>1. 0 \in T
  <2>1. [k \in 0..0 |-> i] \in [0..0 -> S] /\ Up([k \in 0..0 |-> i], 0)
    OBVIOUS
  <2> QED BY <2>1
<1>2. ASSUME NEW n \in Nat, n \in T PROVE n + 1 \in T
  <2>1. PICK f \in [0..n -> S] : Up(f, n)
    BY <1>2
  <2> DEFINE h == [k \in 0..n + 1 |-> IF k = n + 1 THEN g[f[n]] ELSE f[k]]
  <2>2. h \in [0..n + 1 -> S]
    OBVIOUS
  <2>3. h[0] = i
    BY <2>1
  <2>4. ASSUME NEW k \in 1..n + 1 PROVE h[k] = g[h[k - 1]]
    BY <2>1, <2>4
  <2> HIDE DEF h
  <2>5. Up(h, n + 1)
    BY <2>3, <2>4
  <2> QED BY <2>2, <2>5
<1> HIDE DEF T
<1>3. m \in T
  BY <1>1, <1>2, Induct
<1> QED BY <1>3 DEF T, GoesOn
-----------------------------------------------------------------------------
(* The cells of the board *)

LEMMA CellsFinite == IsFiniteSet(Cells) /\ Cardinality(Cells) = Rows * Cols
<1>1. IsFiniteSet(0..Rows - 1) /\ Cardinality(0..Rows - 1) = Rows
  BY FS_Interval, Constants
<1>2. IsFiniteSet(0..Cols - 1) /\ Cardinality(0..Cols - 1) = Cols
  BY FS_Interval, Constants
<1>3. Cells = (0..Rows - 1) \X (0..Cols - 1)
  BY DEF Cells
<1> HIDE DEF Cells
<1> QED BY <1>1, <1>2, <1>3, FS_Product

LEMMA CellsFacts ==
  ASSUME NEW c \in Cells
  PROVE  /\ c = <<c[1], c[2]>> /\ c[1] \in 0..Rows - 1 /\ c[2] \in 0..Cols - 1
         /\ Index(c) \in Nat
         /\ \A d \in Cells : City(c, d) \in Nat /\ Distance(c, d) \in Nat
<1>1. c = <<c[1], c[2]>> /\ c[1] \in 0..Rows - 1 /\ c[2] \in 0..Cols - 1
  BY DEF Cells
<1>2. c[1] * Cols \in Nat
  <2>1. \A a, b \in Nat : a * b \in Nat
    OBVIOUS
  <2> QED BY <1>1, <2>1, Constants
<1>3. ASSUME NEW d \in Cells PROVE City(c, d) \in Nat /\ Distance(c, d) \in Nat
  <2>1. d[1] \in 0..Rows - 1 /\ d[2] \in 0..Cols - 1
    BY DEF Cells
  <2>2. City(c, d) \in Nat
    BY <1>1, <2>1, Constants DEF City, Abs
  <2> QED BY <2>1, <2>2, Constants DEF Distance
<1> QED BY <1>1, <1>2, <1>3, Constants DEF Index

\* Of the cells found, the search goes on to one of them.
LEMMA Closest ==
  ASSUME NEW start \in Cells, NEW open \in SUBSET Cells, open # {}
  PROVE  LET near == {c \in open : \A d \in open : Distance(start, c) <= Distance(start, d)}
         IN (CHOOSE c \in near : \A d \in near : Index(c) <= Index(d)) \in open
<1> DEFINE near == {c \in open : \A d \in open : Distance(start, c) <= Distance(start, d)}
           Ds == {Distance(start, c) : c \in open}
           Is == {Index(c) : c \in near}
<1>1. Ds \in SUBSET Nat /\ Ds # {}
  BY CellsFacts
<1>2. PICK x \in Ds : \A y \in Ds : x <= y
  <2> HIDE DEF Ds
  <2> QED BY <1>1, Smallest
<1>3. near # {}
  BY <1>2
<1>4. Is \in SUBSET Nat /\ Is # {}
  <2>1. \A c \in near : Index(c) \in Nat
    BY CellsFacts
  <2> QED BY <1>3, <2>1
<1>5. PICK i \in Is : \A j \in Is : i <= j
  <2> HIDE DEF Is
  <2> QED BY <1>4, Smallest
<1>6. \E c \in near : \A d \in near : Index(c) <= Index(d)
  BY <1>5
<1>7. (CHOOSE c \in near : \A d \in near : Index(c) <= Index(d)) \in near
  <2> HIDE DEF near
  <2> QED BY <1>6
<1> QED BY <1>7
-----------------------------------------------------------------------------
(* A search *)

Stopped(start, s) == s.stuck \/ (s.at # start /\ Exit(s.at))

\* Every cell found was reached over the board from a cell visited before, and the start
\* from itself.
Rooted(ws, start, s) ==
  /\ {start, s.at} \subseteq s.seen /\ s.seen \subseteq DOMAIN s.from
  /\ s.from[start] = start
  /\ \A c \in DOMAIN s.from \ {start} :
       /\ c \in Neighbours(s.from[c]) /\ c \notin ws
       /\ s.from[c] = start \/ ~Exit(s.from[c])

\* How many turns it took at most to find a cell.
Ranks(start, s) ==
  {r \in [DOMAIN s.from -> Nat] :
     /\ \A c \in DOMAIN s.from : r[c] < Cardinality(s.seen)
     /\ \A c \in DOMAIN s.from \ {start} : r[s.from[c]] < r[c]}

\* The search has gone on from every cell visited but the one that it is at, and from that
\* one too when it is stuck; then nothing found is left that is near enough.
Left(s) == IF s.stuck THEN s.seen ELSE s.seen \ {s.at}
Explored(ws, start, s) ==
  /\ \A c \in Left(s) : /\ c = start \/ ~Exit(c)
                        /\ Neighbours(c) \subseteq ws \cup DOMAIN s.from
  /\ s.stuck => \A c \in DOMAIN s.from \ s.seen : Distance(start, c) >= Farthest

SearchRec == [at : Cells, from : UNION {[D -> D] : D \in SUBSET Cells},
              seen : SUBSET Cells, stuck : BOOLEAN]
Searches(ws, start) ==
  {s \in SearchRec : /\ Rooted(ws, start, s) /\ Explored(ws, start, s)
                     /\ s.stuck \/ Ranks(start, s) # {}}

FirstTurn(start) == [at |-> start, from |-> [c \in {start} |-> start], seen |-> {start}, stuck |-> FALSE]

LEMMA SearchStarts ==
  ASSUME NEW ws, NEW start \in Cells
  PROVE  /\ FirstTurn(start) \in Searches(ws, start)
         /\ Cardinality(FirstTurn(start).seen) = 1
<1> DEFINE s == FirstTurn(start)
<1>1. s = [at |-> start, from |-> [c \in {start} |-> start], seen |-> {start}, stuck |-> FALSE]
  BY DEF FirstTurn
<1>2. s \in SearchRec
  <2>1. [c \in {start} |-> start] \in [{start} -> {start}] /\ {start} \in SUBSET Cells
    OBVIOUS
  <2> QED BY <1>1, <2>1 DEF SearchRec
<1>3. Cardinality({start}) = 1
  BY FS_Singleton
<1>4. [c \in {start} |-> 0] \in Ranks(start, s)
  BY <1>1, <1>3 DEF Ranks
<1>5. Rooted(ws, start, s) /\ Explored(ws, start, s)
  BY <1>1 DEF Rooted, Explored, Left
<1>6. Cardinality(s.seen) = 1
  BY <1>1, <1>3
<1> HIDE DEF s
<1>7. s \in Searches(ws, start)
  BY <1>2, <1>4, <1>5 DEF Searches
<1> QED BY <1>6, <1>7 DEF s

LEMMA TurnKeeps ==
  ASSUME NEW ws, NEW start \in Cells, NEW s \in Searches(ws, start), ~Stopped(start, s)
  PROVE  LET t == Turn(ws, start, s)
         IN /\ t \in Searches(ws, start)
            /\ t.stuck \/ Cardinality(t.seen) = Cardinality(s.seen) + 1
<1> DEFINE t == Turn(ws, start, s)
           fresh == {c \in Neighbours(s.at) : c \notin ws /\ c \notin DOMAIN s.from}
           from == [c \in fresh \cup DOMAIN s.from |-> IF c \in fresh THEN s.at ELSE s.from[c]]
           open == {c \in DOMAIN from \ s.seen : Distance(start, c) < Farthest}
           near == {c \in open : \A d \in open : Distance(start, c) <= Distance(start, d)}
           at == CHOOSE c \in near : \A d \in near : Index(c) <= Index(d)
<1>1. /\ s = [at |-> s.at, from |-> s.from, seen |-> s.seen, stuck |-> s.stuck]
      /\ s.at \in Cells /\ s.seen \subseteq Cells /\ DOMAIN s.from \subseteq Cells
      /\ s.from \in [DOMAIN s.from -> DOMAIN s.from] /\ s.stuck = FALSE
      /\ Rooted(ws, start, s) /\ Explored(ws, start, s) /\ Ranks(start, s) # {}
      /\ s.at = start \/ ~Exit(s.at)
  BY DEF Searches, SearchRec, Stopped
<1>2. fresh \subseteq Cells
  BY DEF Neighbours
<1>3. /\ DOMAIN from = DOMAIN s.from \cup fresh
      /\ \A c \in DOMAIN s.from : from[c] = s.from[c]
      /\ \A c \in fresh : from[c] = s.at
  OBVIOUS
<1>4. s.at \in DOMAIN s.from /\ start \in DOMAIN s.from
  BY <1>1 DEF Rooted
<1>5. from \in [DOMAIN from -> DOMAIN from] /\ DOMAIN from \subseteq Cells
  <2>1. \A c \in DOMAIN from : from[c] \in DOMAIN from
    BY <1>1, <1>3, <1>4
  <2>2. from = [c \in DOMAIN from |-> from[c]]
    OBVIOUS
  <2> HIDE DEF from
  <2> QED BY <1>1, <1>2, <1>3, <2>1, <2>2
<1> HIDE DEF from
<1>6. /\ {start, s.at} \subseteq s.seen /\ s.seen \subseteq DOMAIN from
      /\ from[start] = start
      /\ \A c \in DOMAIN from \ {start} : /\ c \in Neighbours(from[c]) /\ c \notin ws
                                          /\ from[c] = start \/ ~Exit(from[c])
  BY <1>1, <1>3, <1>4 DEF Rooted
<1>7. \A c \in s.seen : /\ c = start \/ ~Exit(c)
                        /\ Neighbours(c) \subseteq ws \cup DOMAIN from
  BY <1>1, <1>3 DEF Explored, Left
<1>8. t = IF open = {} THEN [s EXCEPT !.from = from, !.stuck = TRUE]
          ELSE [at |-> at, from |-> from, seen |-> s.seen \cup {at}, stuck |-> FALSE]
  BY DEF Turn, from
<1> HIDE DEF t
<1>9. CASE open = {}
  <2>1. t = [at |-> s.at, from |-> from, seen |-> s.seen, stuck |-> TRUE]
    BY <1>1, <1>8, <1>9
  <2>2. t \in SearchRec
    BY <1>1, <1>5, <2>1 DEF SearchRec
  <2>3. Rooted(ws, start, t)
    BY <1>6, <2>1 DEF Rooted
  <2>4. \A c \in DOMAIN from \ s.seen : Distance(start, c) >= Farthest
    BY <1>5, <1>9, CellsFacts, Constants
  <2>5. Explored(ws, start, t)
    BY <1>7, <2>1, <2>4 DEF Explored, Left
  <2>6. t \in Searches(ws, start)
    BY <2>1, <2>2, <2>3, <2>5 DEF Searches
  <2> QED BY <2>1, <2>6 DEF t
<1>10. CASE open # {}
  <2>1. t = [at |-> at, from |-> from, seen |-> s.seen \cup {at}, stuck |-> FALSE]
    BY <1>8, <1>10
  <2>2. at \in open
    <3>1. open \in SUBSET Cells
      BY <1>5
    <3> HIDE DEF open
    <3> QED BY <1>10, <3>1, Closest
  <2> HIDE DEF at
  <2>3. at \in DOMAIN from /\ at \notin s.seen /\ at \in Cells
    BY <1>5, <2>2
  <2> HIDE DEF open
  <2>4. t \in SearchRec
    BY <1>1, <1>5, <2>1, <2>3 DEF SearchRec
  <2>5. Rooted(ws, start, t)
    BY <1>6, <2>1, <2>3 DEF Rooted
  <2>6. Explored(ws, start, t)
    BY <1>7, <2>1, <2>3 DEF Explored, Left
  <2>7. Cardinality(t.seen) = Cardinality(s.seen) + 1 /\ Cardinality(s.seen) \in Nat
    <3>1. IsFiniteSet(s.seen)
      BY <1>1, CellsFinite, FS_Subset
    <3> QED BY <2>1, <2>3, <3>1, FS_AddElement, FS_CardinalityType
  <2>8. Ranks(start, t) # {}
    <3>1. PICK r \in Ranks(start, s) : TRUE
      BY <1>1
    <3>2. /\ r \in [DOMAIN s.from -> Nat]
          /\ \A c \in DOMAIN s.from : r[c] < Cardinality(s.seen)
          /\ \A c \in DOMAIN s.from \ {start} : r[s.from[c]] < r[c]
      BY DEF Ranks
    <3> DEFINE q == [c \in DOMAIN from |-> IF c \in fresh THEN Cardinality(s.seen) ELSE r[c]]
    <3>3. \A c \in DOMAIN s.from : c \in DOMAIN from /\ q[c] = r[c] /\ s.from[c] \in DOMAIN s.from
      BY <1>1, <1>3
    <3>4. \A c \in fresh : c \in DOMAIN from /\ c \notin DOMAIN s.from /\ q[c] = Cardinality(s.seen)
      BY <1>3
    <3>5. q \in [DOMAIN from -> Nat]
      BY <1>3, <2>7, <3>2
    <3> HIDE DEF q, fresh
    <3>6. \A c \in DOMAIN from : q[c] < Cardinality(t.seen)
      BY <1>3, <2>7, <3>2, <3>3, <3>4
    <3>7. ASSUME NEW c \in DOMAIN from \ {start} PROVE q[from[c]] < q[c]
      <4>1. CASE c \in DOMAIN s.from
        <5>1. from[c] = s.from[c] /\ q[c] = r[c] /\ q[s.from[c]] = r[s.from[c]]
          BY <1>3, <3>3, <4>1
        <5> QED BY <3>2, <4>1, <5>1
      <4>2. CASE c \in fresh
        <5>1. from[c] = s.at /\ q[c] = Cardinality(s.seen) /\ q[s.at] = r[s.at]
          BY <1>3, <1>4, <3>3, <3>4, <4>2
        <5> QED BY <1>4, <3>2, <5>1
      <4> QED BY <1>3, <4>1, <4>2
    <3>8. q \in Ranks(start, t)
      BY <2>1, <3>5, <3>6, <3>7 DEF Ranks
    <3> QED BY <3>8
  <2>9. t \in Searches(ws, start)
    BY <2>1, <2>4, <2>5, <2>6, <2>8 DEF Searches
  <2> QED BY <2>7, <2>9 DEF t
<1> QED BY <1>9, <1>10

\* A search is the sequence of its turns.
LEMMA SearchRuns ==
  ASSUME NEW ws, NEW start \in Cells
  PROVE  \E f \in [0..Rows * Cols -> Searches(ws, start)] :
           /\ f[0] = FirstTurn(start)
           /\ \A n \in 1..Rows * Cols :
                f[n] = IF Stopped(start, f[n - 1]) THEN f[n - 1] ELSE Turn(ws, start, f[n - 1])
           /\ Search(ws, start) = f[Rows * Cols]
<1> DEFINE m == Rows * Cols
           S == Searches(ws, start)
           next(s) == IF s.stuck \/ (s.at # start /\ Exit(s.at)) THEN s
                      ELSE Turn(ws, start, s)
<1>1. m \in Nat
  BY Constants
<1>2. \A s \in S : next(s) \in S
  BY TurnKeeps DEF Stopped
<1>3. \A s : (CHOOSE r \in {next(y) : y \in {s}} : TRUE) = next(s)
  <2> HIDE DEF next
  <2> QED OBVIOUS
<1>4. \A s : Once(s, next) = next(s)
  <2>1. \A s : Once(s, next) = CHOOSE r \in {next(y) : y \in {s}} : TRUE
    BY DEF Once
  <2> HIDE DEF next
  <2> QED BY <1>3, <2>1
<1> DEFINE Turns(f) == [n \in 0..m |-> IF n = 0 THEN FirstTurn(start) ELSE Once(f[n - 1], next)]
           G == CHOOSE f : f = Turns(f)
<1>5. Search(ws, start) = G[m]
  BY DEF Search, FirstTurn
<1>6. FirstTurn(start) \in S
  BY SearchStarts
<1>7. \E f : f = Turns(f)
  <2> DEFINE K == [s \in S |-> next(s)]
  <2>1. K \in [S -> S]
    BY <1>2
  <2> DEFINE i == FirstTurn(start)
  <2> HIDE DEF m, S, K, i, next
  <2>2. PICK f \in [0..m -> S] : GoesOn(f, i, K, m)
    BY <1>1, <1>6, <2>1, Iterates DEF i
  <2>3. ASSUME NEW n \in 1..m PROVE f[n] = Once(f[n - 1], next)
    <3>1. n - 1 \in 0..m
      BY <1>1
    <3>2. f[n - 1] \in S
      BY <3>1
    <3>3. f[n] = next(f[n - 1])
      BY <2>2, <3>2 DEF K, GoesOn
    <3> HIDE DEF next
    <3> QED BY <1>4, <3>3
  <2>4. \A n \in 0..m : f[n] = IF n = 0 THEN FirstTurn(start) ELSE Once(f[n - 1], next)
    <3> SUFFICES ASSUME NEW n \in 0..m
                 PROVE  f[n] = IF n = 0 THEN FirstTurn(start) ELSE Once(f[n - 1], next)
      OBVIOUS
    <3>1. n = 0 \/ n \in 1..m
      BY <1>1
    <3>2. n \in 1..m => n # 0
      OBVIOUS
    <3> QED BY <2>2, <2>3, <3>1, <3>2 DEF GoesOn, i
  <2>5. f = Turns(f)
    BY <2>4
  <2> QED BY <2>5
<1>8. G = Turns(G)
  <2> HIDE DEF Turns
  <2> QED BY <1>7
<1> HIDE DEF G
<1>9. G[0] = FirstTurn(start) /\ \A n \in 1..m : G[n] = next(G[n - 1])
  <2>1. \A n \in 0..m : G[n] = IF n = 0 THEN FirstTurn(start) ELSE Once(G[n - 1], next)
    BY <1>8
  <2>2. 0 \in 0..m /\ \A n \in 1..m : n \in 0..m /\ n # 0
    BY <1>1
  <2> HIDE DEF next, m
  <2>3. ASSUME NEW n \in 1..m PROVE G[n] = next(G[n - 1])
    <3>1. G[n] = Once(G[n - 1], next)
      BY <2>1, <2>2
    <3> QED BY <1>4, <3>1
  <2> QED BY <2>1, <2>2, <2>3
<1> DEFINE T == {n \in Nat : n <= m => G[n] \in S}
<1>10. \A n \in 0..m : G[n] \in S
  <2>1. 0 \in T
    BY <1>6, <1>9
  <2>2. ASSUME NEW n \in Nat, n \in T PROVE n + 1 \in T
    <3> HIDE DEF m, next, S
    <3>1. CASE n + 1 <= m
      <4>1. G[n] \in S /\ n + 1 \in 1..m /\ (n + 1) - 1 = n
        BY <1>1, <2>2, <3>1
      <4>2. G[n + 1] = next(G[n])
        BY <1>9, <4>1
      <4> QED BY <1>2, <4>1, <4>2
    <3> QED BY <3>1
  <2> HIDE DEF T
  <2>3. Nat \subseteq T
    BY <2>1, <2>2, Induct
  <2> QED BY <1>1, <2>3 DEF T
<1>11. G \in [0..m -> S]
  <2>1. G = [n \in 0..m |-> G[n]]
    BY <1>8
  <2> QED BY <1>10, <2>1
<1>12. \A n \in 1..m : G[n] = IF Stopped(start, G[n - 1]) THEN G[n - 1]
                            ELSE Turn(ws, start, G[n - 1])
  BY <1>9 DEF Stopped
<1> HIDE DEF next
<1> QED BY <1>5, <1>9, <1>11, <1>12

\* As every turn but the last visits another cell, a search ends.
LEMMA SearchEnds ==
  ASSUME NEW ws, NEW start \in Cells
  PROVE  /\ Search(ws, start) \in Searches(ws, start)
         /\ Stopped(start, Search(ws, start))
<1> DEFINE m == Rows * Cols
           S == Searches(ws, start)
<1>1. m \in Nat
  BY Constants
<1>2. PICK f \in [0..m -> S] :
        /\ f[0] = FirstTurn(start)
        /\ \A n \in 1..m :
             f[n] = IF Stopped(start, f[n - 1]) THEN f[n - 1] ELSE Turn(ws, start, f[n - 1])
        /\ Search(ws, start) = f[m]
  BY SearchRuns
<1> DEFINE T == {n \in Nat : n <= m => Stopped(start, f[n]) \/ Cardinality(f[n].seen) = n + 1}
<1>3. 0 \in T
  BY <1>2, SearchStarts
<1>4. ASSUME NEW n \in Nat, n \in T PROVE n + 1 \in T
  <2>1. CASE n + 1 <= m
    <3> HIDE DEF m, S
    <3>1. f[n] \in S /\ n + 1 \in 1..m /\ (n + 1) - 1 = n
      BY <1>1, <2>1
    <3>2. f[n + 1] = IF Stopped(start, f[n]) THEN f[n] ELSE Turn(ws, start, f[n])
      BY <1>2, <3>1
    <3>3. CASE Stopped(start, f[n])
      BY <3>2, <3>3
    <3>4. CASE ~Stopped(start, f[n])
      <4>1. f[n + 1].stuck \/ Cardinality(f[n + 1].seen) = Cardinality(f[n].seen) + 1
        BY <3>1, <3>2, <3>4, TurnKeeps DEF S
      <4>2. Cardinality(f[n].seen) = n + 1
        BY <1>1, <1>4, <2>1, <3>4
      <4> QED BY <4>1, <4>2 DEF Stopped
    <3> QED BY <3>3, <3>4
  <2> QED BY <2>1
<1>5. m \in T
  <2> HIDE DEF T
  <2> QED BY <1>1, <1>3, <1>4, Induct
<1>6. f[m] \in S
  BY <1>1, <1>2
<1>7. Stopped(start, f[m])
  <2>1. Cardinality(f[m].seen) <= m
    <3>1. f[m].seen \in SUBSET Cells
      BY <1>6 DEF Searches, SearchRec
    <3> QED BY <3>1, CellsFinite, FS_Subset
  <2>2. Cardinality(f[m].seen) # m + 1
    <3>1. Cardinality(f[m].seen) \in Nat
      <4>1. f[m].seen \in SUBSET Cells
        BY <1>6 DEF Searches, SearchRec
      <4> QED BY <4>1, CellsFinite, FS_Subset, FS_CardinalityType
    <3> QED BY <1>1, <2>1, <3>1
  <2> QED BY <1>1, <1>5, <2>2
<1> QED BY <1>2, <1>6, <1>7
-----------------------------------------------------------------------------
(* The way back from the last cell *)

Before(c, p, k) == IF k = 1 THEN c ELSE p[k - 1]

\* p leads from c to the last column, cell by cell and past the walls, and enters that
\* column with its last cell.
Leads(ws, c, p) ==
  /\ p \in Seq(Cells) /\ p # <<>> /\ Exit(p[Len(p)])
  /\ \A k \in 1..Len(p) : City(Before(c, p, k), p[k]) = 1 /\ p[k] \notin ws
  /\ \A k \in 1..Len(p) - 1 : ~Exit(p[k])

\* The cells gone back over so far: each but the first was reached from the one before it,
\* the first from the one that we are at.
Chains(from, last) ==
  {q \in [at : DOMAIN from, cells : Seq(DOMAIN from)] :
     /\ q.cells = <<>> => q.at = last
     /\ q.cells # <<>> => q.cells[Len(q.cells)] = last
     /\ \A k \in 1..Len(q.cells) : /\ from[q.cells[k]] = Before(q.at, q.cells, k)
                                   /\ from[q.cells[k]] # q.cells[k]}

Back(from, q) == IF from[q.at] = q.at THEN q
                 ELSE [at |-> from[q.at], cells |-> <<q.at>> \o q.cells]

LEMMA BackKeeps ==
  ASSUME NEW D, NEW from \in [D -> D], NEW last \in D, NEW q \in Chains(from, last)
  PROVE  Back(from, q) \in Chains(from, last)
<1> DEFINE s == <<q.at>> \o q.cells
           b == [at |-> from[q.at], cells |-> s]
<1>1. /\ q.at \in D /\ q.cells \in Seq(D) /\ DOMAIN from = D
      /\ q.cells = <<>> => q.at = last
      /\ q.cells # <<>> => q.cells[Len(q.cells)] = last
      /\ \A k \in 1..Len(q.cells) : /\ from[q.cells[k]] = Before(q.at, q.cells, k)
                                    /\ from[q.cells[k]] # q.cells[k]
  BY DEF Chains
<1>2. CASE from[q.at] = q.at
  BY <1>2 DEF Back
<1>3. CASE from[q.at] # q.at
  <2>1. /\ s \in Seq(D) /\ s # <<>> /\ Len(s) = Len(q.cells) + 1 /\ s[1] = q.at
        /\ \A k \in 2..Len(s) : s[k] = q.cells[k - 1]
        /\ Len(q.cells) \in Nat
    BY <1>1
  <2> HIDE DEF s
  <2>2. s[Len(s)] = last
    <3>1. CASE q.cells = <<>>
      <4>1. Len(s) = 1
        BY <2>1, <3>1
      <4> QED BY <1>1, <2>1, <3>1, <4>1
    <3>2. CASE q.cells # <<>>
      <4>1. Len(q.cells) # 0
        BY <1>1, <3>2
      <4>2. Len(s) \in 2..Len(s) /\ Len(s) - 1 = Len(q.cells)
        BY <2>1, <4>1
      <4> QED BY <1>1, <2>1, <3>2, <4>2
    <3> QED BY <3>1, <3>2
  <2>3. ASSUME NEW k \in 1..Len(s) PROVE from[s[k]] = Before(from[q.at], s, k) /\ from[s[k]] # s[k]
    <3>1. CASE k = 1
      BY <1>3, <2>1, <3>1 DEF Before
    <3>2. CASE k # 1
      <4>1. s[k] = q.cells[k - 1] /\ k - 1 \in 1..Len(q.cells) /\ k \in 2..Len(s)
        BY <2>1, <3>2
      <4>2. from[s[k]] = Before(q.at, q.cells, k - 1) /\ from[s[k]] # s[k]
        BY <1>1, <4>1
      <4>3. Before(q.at, q.cells, k - 1) = s[k - 1]
        <5>1. CASE k = 2
          BY <2>1, <5>1 DEF Before
        <5>2. CASE k # 2
          <6>1. k - 1 \in 2..Len(s) /\ k - 1 # 1
            BY <4>1, <5>2
          <6> QED BY <2>1, <6>1 DEF Before
        <5> QED BY <5>1, <5>2
      <4> QED BY <3>2, <4>2, <4>3 DEF Before
    <3> QED BY <3>1, <3>2
  <2>4. b \in [at : D, cells : Seq(D)] /\ b.at = from[q.at] /\ b.cells = s
    BY <1>1, <2>1
  <2> HIDE DEF b
  <2>5. b \in Chains(from, last)
    BY <1>1, <2>1, <2>2, <2>3, <2>4 DEF Chains
  <2> QED BY <1>3, <2>5 DEF Back, b, s
<1> QED BY <1>2, <1>3

\* path is the sequence of its turns.
LEMMA StepsRun ==
  ASSUME NEW D, NEW from \in [D -> D], NEW last \in D
  PROVE  \E f \in [0..Rows * Cols -> Chains(from, last)] :
           /\ f[0] = [at |-> last, cells |-> <<>>]
           /\ \A n \in 1..Rows * Cols : f[n] = Back(from, f[n - 1])
           /\ Steps(from, last) = f[Rows * Cols].cells
<1> DEFINE m == Rows * Cols
           S == Chains(from, last)
           first == [at |-> last, cells |-> <<>>]
           back(q) == IF from[q.at] = q.at THEN q
                      ELSE [at |-> from[q.at], cells |-> <<q.at>> \o q.cells]
<1>1. m \in Nat
  BY Constants
<1>2. \A q \in S : back(q) \in S
  BY BackKeeps DEF Back
<1>3. \A q : (CHOOSE r \in {back(y) : y \in {q}} : TRUE) = back(q)
  <2> HIDE DEF back
  <2> QED OBVIOUS
<1>4. \A q : Once(q, back) = back(q)
  <2>1. \A q : Once(q, back) = CHOOSE r \in {back(y) : y \in {q}} : TRUE
    BY DEF Once
  <2> HIDE DEF back
  <2> QED BY <1>3, <2>1
<1> DEFINE Turns(f) == [n \in 0..m |-> IF n = 0 THEN first ELSE Once(f[n - 1], back)]
           G == CHOOSE f : f = Turns(f)
<1>5. Steps(from, last) = G[m].cells
  BY DEF Steps
<1>6. first \in S
  BY DEF Chains
<1>7. \E f : f = Turns(f)
  <2> DEFINE K == [q \in S |-> back(q)]
  <2>1. K \in [S -> S]
    BY <1>2
  <2> HIDE DEF m, S, K, back, first
  <2>2. PICK f \in [0..m -> S] : GoesOn(f, first, K, m)
    BY <1>1, <1>6, <2>1, Iterates
  <2>3. ASSUME NEW n \in 1..m PROVE f[n] = Once(f[n - 1], back)
    <3>1. n - 1 \in 0..m
      BY <1>1
    <3>2. f[n - 1] \in S
      BY <3>1
    <3>3. f[n] = back(f[n - 1])
      BY <2>2, <3>2 DEF K, GoesOn
    <3> QED BY <1>4, <3>3
  <2>4. \A n \in 0..m : f[n] = IF n = 0 THEN first ELSE Once(f[n - 1], back)
    <3> SUFFICES ASSUME NEW n \in 0..m
                 PROVE  f[n] = IF n = 0 THEN first ELSE Once(f[n - 1], back)
      OBVIOUS
    <3>1. n = 0 \/ n \in 1..m
      BY <1>1
    <3>2. n \in 1..m => n # 0
      OBVIOUS
    <3> QED BY <2>2, <2>3, <3>1, <3>2 DEF GoesOn
  <2>5. f = Turns(f)
    BY <2>4
  <2> QED BY <2>5
<1>8. G = Turns(G)
  <2> HIDE DEF Turns
  <2> QED BY <1>7
<1> HIDE DEF G
<1>9. G[0] = first /\ \A n \in 1..m : G[n] = back(G[n - 1])
  <2>1. \A n \in 0..m : G[n] = IF n = 0 THEN first ELSE Once(G[n - 1], back)
    BY <1>8
  <2>2. 0 \in 0..m /\ \A n \in 1..m : n \in 0..m /\ n # 0
    BY <1>1
  <2> HIDE DEF back, m, first
  <2>3. ASSUME NEW n \in 1..m PROVE G[n] = back(G[n - 1])
    <3>1. G[n] = Once(G[n - 1], back)
      BY <2>1, <2>2
    <3> QED BY <1>4, <3>1
  <2> QED BY <2>1, <2>2, <2>3
<1> DEFINE T == {n \in Nat : n <= m => G[n] \in S}
<1>10. \A n \in 0..m : G[n] \in S
  <2>1. 0 \in T
    BY <1>6, <1>9
  <2>2. ASSUME NEW n \in Nat, n \in T PROVE n + 1 \in T
    <3> HIDE DEF m, back, S
    <3>1. CASE n + 1 <= m
      <4>1. G[n] \in S /\ n + 1 \in 1..m /\ (n + 1) - 1 = n
        BY <1>1, <2>2, <3>1
      <4>2. G[n + 1] = back(G[n])
        BY <1>9, <4>1
      <4> QED BY <1>2, <4>1, <4>2
    <3> QED BY <3>1
  <2> HIDE DEF T
  <2>3. Nat \subseteq T
    BY <2>1, <2>2, Induct
  <2> QED BY <1>1, <2>3 DEF T
<1>11. G \in [0..m -> S]
  <2>1. G = [n \in 0..m |-> G[n]]
    BY <1>8
  <2> QED BY <1>10, <2>1
<1>12. \A n \in 1..m : G[n] = Back(from, G[n - 1])
  BY <1>9 DEF Back
<1> HIDE DEF back
<1> QED BY <1>5, <1>9, <1>11, <1>12

\* From a search that has come to the last column, path leads there.
LEMMA StepsLead ==
  ASSUME NEW ws, NEW start \in Cells, NEW s \in Searches(ws, start),
         ~s.stuck, s.at # start, Exit(s.at)
  PROVE  Leads(ws, start, Steps(s.from, s.at))
<1> DEFINE D == DOMAIN s.from
           m == Rows * Cols
<1>1. /\ s.from \in [D -> D] /\ D \subseteq Cells /\ s.seen \subseteq Cells
      /\ Rooted(ws, start, s) /\ Ranks(start, s) # {}
  BY DEF Searches, SearchRec
<1>2. s.at \in D /\ start \in D /\ s.from[start] = start
  BY <1>1 DEF Rooted
<1>3. PICK r \in Ranks(start, s) : TRUE
  BY <1>1
<1>4. /\ r \in [D -> Nat] /\ r[s.at] < Cardinality(s.seen)
      /\ \A c \in D \ {start} : r[s.from[c]] < r[c]
  BY <1>2 DEF Ranks
<1>5. r[s.at] < m /\ m \in Nat
  <2>1. Cardinality(s.seen) <= m /\ Cardinality(s.seen) \in Nat
    BY <1>1, CellsFinite, FS_Subset, FS_CardinalityType
  <2> QED BY <1>2, <1>4, <2>1, Constants
<1>6. \A c \in D \ {start} : s.from[c] # c
  BY <1>1, <1>4
<1>7. PICK f \in [0..m -> Chains(s.from, s.at)] :
        /\ f[0] = [at |-> s.at, cells |-> <<>>]
        /\ \A n \in 1..m : f[n] = Back(s.from, f[n - 1])
        /\ Steps(s.from, s.at) = f[m].cells
  BY <1>1, <1>2, StepsRun
<1> HIDE DEF m, D
<1> DEFINE T == {n \in Nat : n <= m => f[n].at = start \/ r[f[n].at] + n <= r[s.at]}
<1>8. 0 \in T
  BY <1>2, <1>4, <1>5, <1>7
<1>9. ASSUME NEW n \in Nat, n \in T, n + 1 <= m PROVE f[n + 1].at = start \/ r[f[n + 1].at] + (n + 1) <= r[s.at]
  <2>1. /\ f[n] \in Chains(s.from, s.at) /\ n + 1 \in 1..m /\ (n + 1) - 1 = n
        /\ f[n].at = start \/ r[f[n].at] + n <= r[s.at]
    BY <1>5, <1>7, <1>9
  <2>2. f[n].at \in D
    BY <2>1 DEF Chains, D
  <2>3. f[n + 1] = Back(s.from, f[n])
    BY <1>7, <2>1
  <2>4. CASE f[n].at = start
    <3>1. f[n + 1] = f[n]
      BY <1>2, <2>3, <2>4 DEF Back
    <3> QED BY <2>4, <3>1
  <2>5. CASE f[n].at # start
    <3>1. f[n + 1].at = s.from[f[n].at]
      BY <1>6, <2>2, <2>3, <2>5 DEF Back
    <3>2. r[s.from[f[n].at]] < r[f[n].at] /\ s.from[f[n].at] \in D
      BY <1>1, <1>4, <2>2, <2>5
    <3> QED BY <1>2, <1>4, <2>1, <2>2, <2>5, <3>1, <3>2
  <2> QED BY <2>4, <2>5
<1>10. m \in T
  <2>1. \A n \in Nat : n \in T => n + 1 \in T
    BY <1>9
  <2> HIDE DEF T
  <2> QED BY <1>5, <1>8, <2>1, Induct
<1>11. f[m] \in Chains(s.from, s.at) /\ f[m].at \in D
  <2>1. f[m] \in Chains(s.from, s.at)
    BY <1>5, <1>7
  <2> QED BY <2>1 DEF Chains, D
<1>12. f[m].at = start
  <2>1. r[f[m].at] \in Nat /\ r[s.at] \in Nat
    BY <1>2, <1>4, <1>11
  <2> QED BY <1>5, <1>10, <2>1
<1> DEFINE p == f[m].cells
<1>13. /\ p \in Seq(D) /\ p # <<>> /\ p[Len(p)] = s.at
       /\ \A k \in 1..Len(p) : s.from[p[k]] = Before(start, p, k) /\ s.from[p[k]] # p[k]
  BY <1>11, <1>12 DEF Chains, D
<1> HIDE DEF p
<1>14. p \in Seq(Cells)
  BY <1>1, <1>13
<1>15. ASSUME NEW k \in 1..Len(p)
       PROVE  /\ City(Before(start, p, k), p[k]) = 1 /\ p[k] \notin ws
              /\ Before(start, p, k) = start \/ ~Exit(Before(start, p, k))
  <2>1. p[k] \in D \ {start}
    BY <1>2, <1>13
  <2> QED BY <1>1, <1>13, <2>1 DEF Rooted, Neighbours, D
<1>16. ASSUME NEW k \in 1..Len(p) - 1 PROVE ~Exit(p[k])
  <2>1. k + 1 \in 1..Len(p) /\ (k + 1) - 1 = k /\ k + 1 # 1 /\ k \in 1..Len(p)
    BY <1>13
  <2>2. p[k] = start \/ ~Exit(p[k])
    BY <1>15, <2>1 DEF Before
  <2>3. p[k] # start
    BY <1>2, <1>13, <2>1
  <2> QED BY <2>2, <2>3
<1> QED BY <1>7, <1>13, <1>14, <1>15, <1>16 DEF Leads, p

\* A search does not get stuck where a way leads out over cells that are near enough.
LEMMA WayFound ==
  ASSUME NEW ws, NEW start \in Cells, ~Exit(start), NEW p, Leads(ws, start, p),
         \A k \in 1..Len(p) : Distance(start, p[k]) < Farthest
  PROVE  Leads(ws, start, CalculatePath(ws, start))
<1> DEFINE s == Search(ws, start)
<1>1. s \in Searches(ws, start) /\ Stopped(start, s)
  BY SearchEnds
<1>2. CalculatePath(ws, start) = IF s.stuck THEN NoWay ELSE Steps(s.from, s.at)
  <2> DEFINE way(t) == IF t.stuck THEN NoWay ELSE Steps(t.from, t.at)
  <2>1. \A t : (CHOOSE r \in {way(y) : y \in {t}} : TRUE) = way(t)
    <3> HIDE DEF way
    <3> QED OBVIOUS
  <2>2. CalculatePath(ws, start) = CHOOSE r \in {way(y) : y \in {s}} : TRUE
    BY DEF CalculatePath, Once
  <2>3. CalculatePath(ws, start) = way(s)
    <3> HIDE DEF way, s
    <3> QED BY <2>1, <2>2
  <2> QED BY <2>3
<1> HIDE DEF s
<1>3. ASSUME s.stuck PROVE FALSE
  <2>1. /\ start \in s.seen /\ s.seen \subseteq DOMAIN s.from /\ DOMAIN s.from \subseteq Cells
        /\ \A c \in s.seen : /\ c = start \/ ~Exit(c)
                             /\ Neighbours(c) \subseteq ws \cup DOMAIN s.from
        /\ \A c \in DOMAIN s.from \ s.seen : Distance(start, c) >= Farthest
    BY <1>1, <1>3 DEF Searches, SearchRec, Rooted, Explored, Left
  <2>2. ASSUME NEW c \in DOMAIN s.from, Distance(start, c) < Farthest PROVE c \in s.seen
    <3>1. Distance(start, c) \in Nat
      BY <2>1, CellsFacts
    <3> QED BY <2>1, <2>2, <3>1, Constants
  <2>3. /\ p \in Seq(Cells) /\ Len(p) \in Nat \ {0} /\ Exit(p[Len(p)])
        /\ \A k \in 1..Len(p) : City(Before(start, p, k), p[k]) = 1 /\ p[k] \notin ws
    BY DEF Leads
  <2>4. ASSUME NEW c \in s.seen, NEW d \in Cells, City(c, d) = 1, d \notin ws,
               Distance(start, d) < Farthest
        PROVE  d \in s.seen
    <3>1. d \in Neighbours(c)
      BY <2>4 DEF Neighbours
    <3> QED BY <2>1, <2>2, <2>4, <3>1
  <2> DEFINE T == {k \in Nat : k + 1 <= Len(p) => p[k + 1] \in s.seen}
  <2>5. 0 \in T
    <3>1. /\ City(start, p[1]) = 1 /\ p[1] \notin ws /\ p[1] \in Cells
          /\ Distance(start, p[1]) < Farthest
      BY <2>3 DEF Before
    <3> QED BY <2>1, <2>4, <3>1
  <2>6. ASSUME NEW k \in Nat, k \in T PROVE k + 1 \in T
    <3>1. CASE (k + 1) + 1 <= Len(p)
      <4>1. p[k + 1] \in s.seen
        BY <2>3, <2>6, <3>1
      <4>2. (k + 1) + 1 \in 1..Len(p) /\ (k + 1) + 1 # 1 /\ ((k + 1) + 1) - 1 = k + 1
        BY <2>3, <3>1
      <4>3. /\ City(p[k + 1], p[(k + 1) + 1]) = 1 /\ p[(k + 1) + 1] \notin ws
            /\ p[(k + 1) + 1] \in Cells /\ Distance(start, p[(k + 1) + 1]) < Farthest
        BY <2>3, <4>2 DEF Before
      <4>4. p[(k + 1) + 1] \in s.seen
        BY <2>4, <4>1, <4>3
      <4> QED BY <4>4
    <3> QED BY <3>1
  <2>7. Len(p) - 1 \in T
    <3>1. Len(p) - 1 \in Nat
      BY <2>3
    <3> HIDE DEF T
    <3> QED BY <2>5, <2>6, <3>1, Induct
  <2>8. p[Len(p)] \in s.seen
    <3>1. (Len(p) - 1) + 1 = Len(p)
      BY <2>3
    <3> QED BY <2>3, <2>7, <3>1
  <2> QED BY <2>1, <2>3, <2>8
<1>4. ~s.stuck /\ s.at # start /\ Exit(s.at)
  BY <1>1, <1>3 DEF Stopped
<1> QED BY <1>1, <1>2, <1>4, StepsLead
-----------------------------------------------------------------------------
(* Ways that are there *)

\* Fewer walls leave every way open.
LEMMA FewerWalls ==
  ASSUME NEW ws, NEW us, us \subseteq ws, NEW c, NEW p, Leads(ws, c, p) PROVE Leads(us, c, p)
  BY DEF Leads

\* On its way a creep has the rest of it before it.
LEMMA RestLeads ==
  ASSUME NEW ws, NEW c \in Cells, NEW p, Leads(ws, c, p), NEW n \in Nat, 0 < n, n < Len(p)
  PROVE  /\ p[n] \in Cells /\ ~Exit(p[n]) /\ p[n] \notin ws
         /\ Leads(ws, p[n], SubSeq(p, n + 1, Len(p)))
<1> DEFINE q == SubSeq(p, n + 1, Len(p))
<1>1. p \in Seq(Cells) /\ Len(p) \in Nat /\ n \in 1..Len(p) - 1 /\ n \in 1..Len(p)
  BY DEF Leads
<1>2. /\ q \in Seq(Cells) /\ Len(q) = Len(p) - n
      /\ \A k \in 1..Len(q) : q[k] = p[k + n]
  BY <1>1
<1> HIDE DEF q
<1>3. q # <<>> /\ q[Len(q)] = p[Len(p)]
  BY <1>1, <1>2
<1>4. ASSUME NEW k \in 1..Len(q) PROVE City(Before(p[n], q, k), q[k]) = 1 /\ q[k] \notin ws
  <2>1. k + n \in 1..Len(p) /\ k + n # 1 /\ q[k] = p[k + n]
    BY <1>1, <1>2
  <2>2. Before(p[n], q, k) = p[(k + n) - 1]
    <3>1. CASE k = 1
      BY <3>1 DEF Before
    <3>2. CASE k # 1
      <4>1. k - 1 \in 1..Len(q) /\ (k - 1) + n = (k + n) - 1
        BY <1>1, <1>2, <3>2
      <4> QED BY <1>2, <3>2, <4>1 DEF Before
    <3> QED BY <3>1, <3>2
  <2> QED BY <2>1, <2>2 DEF Leads, Before
<1>5. ASSUME NEW k \in 1..Len(q) - 1 PROVE ~Exit(q[k])
  <2>1. k + n \in 1..Len(p) - 1 /\ q[k] = p[k + n]
    BY <1>1, <1>2
  <2> QED BY <2>1 DEF Leads
<1> QED BY <1>1, <1>2, <1>3, <1>4, <1>5 DEF Leads, q

\* The first column and the last row are free, so a way leads out from every spawning cell.
LEMMA AlongTheEdge ==
  ASSUME NEW ws, \A r \in 0..Rows - 1 : <<r, 0>> \notin ws,
         \A c \in 0..Cols - 1 : <<Rows - 1, c>> \notin ws, NEW row \in 0..Rows - 1
  PROVE  \E p : /\ Leads(ws, <<row, 0>>, p)
                /\ \A k \in 1..Len(p) : Distance(<<row, 0>>, p[k]) < 2 * Cols + Rows
<1> DEFINE d == Rows - 1 - row
           m == d + (Cols - 1)
           p == [k \in 1..m |-> IF k <= d THEN <<row + k, 0>> ELSE <<Rows - 1, k - d>>]
<1>1. d \in Nat /\ m \in Nat /\ d < m /\ m - d = Cols - 1 /\ row + d = Rows - 1 /\ Cols > 2
  BY Constants
<1>2. /\ \A k \in 1..m : k <= d => p[k] = <<row + k, 0>> /\ row + k \in 0..Rows - 1
      /\ \A k \in 1..m : k > d => /\ p[k] = <<Rows - 1, k - d>> /\ k - d \in 1..Cols - 1
                                  /\ k < m => k - d < Cols - 1
  BY <1>1, Constants
<1>3. \A k \in 1..m : p[k] \in Cells /\ p[k] \notin ws
  <2> SUFFICES ASSUME NEW k \in 1..m PROVE p[k] \in Cells /\ p[k] \notin ws
    OBVIOUS
  <2>1. 0 \in 0..Cols - 1 /\ Rows - 1 \in 0..Rows - 1
    BY Constants
  <2> HIDE DEF p
  <2>2. CASE k <= d
    <3>1. p[k] = <<row + k, 0>> /\ row + k \in 0..Rows - 1
      BY <1>2, <2>2
    <3> HIDE DEF d, m
    <3> QED BY <2>1, <3>1 DEF Cells
  <2>3. CASE k > d
    <3>1. p[k] = <<Rows - 1, k - d>> /\ k - d \in 1..Cols - 1
      BY <1>2, <2>3
    <3>2. k - d \in 0..Cols - 1
      BY <3>1
    <3> HIDE DEF d, m
    <3> QED BY <2>1, <3>1, <3>2 DEF Cells
  <2> QED BY <1>1, <2>2, <2>3
<1>4. p \in Seq(Cells) /\ Len(p) = m
  <2>1. p = [k \in 1..m |-> p[k]]
    OBVIOUS
  <2> HIDE DEF p, m
  <2>2. p \in [1..m -> Cells]
    BY <1>3, <2>1
  <2> QED BY <1>1, <2>2
<1> HIDE DEF p
<1>5. ASSUME NEW k \in 1..m PROVE City(Before(<<row, 0>>, p, k), p[k]) = 1
  <2>1. CASE k = 1 /\ k <= d
    BY <1>1, <1>2, <2>1, Constants DEF Before, City, Abs
  <2>2. CASE k = 1 /\ k > d
    BY <1>1, <1>2, <2>2, Constants DEF Before, City, Abs
  <2>3. CASE k # 1
    <3>1. k - 1 \in 1..m /\ Before(<<row, 0>>, p, k) = p[k - 1]
      BY <1>1, <2>3 DEF Before
    <3>2. CASE k <= d
      <4>1. k - 1 <= d
        BY <1>1, <3>2
      <4>2. p[k] = <<row + k, 0>> /\ p[k - 1] = <<row + (k - 1), 0>>
        BY <1>2, <3>1, <3>2, <4>1
      <4> QED BY <3>1, <4>2 DEF City, Abs
    <3>3. CASE k > d /\ k - 1 <= d
      <4>1. p[k] = <<Rows - 1, k - d>> /\ p[k - 1] = <<row + (k - 1), 0>> /\ k - 1 = d
        BY <1>1, <1>2, <3>1, <3>3
      <4>2. row + (k - 1) = Rows - 1 /\ k - d = 1
        BY <1>1, <4>1
      <4> QED BY <3>1, <4>1, <4>2, Constants DEF City, Abs
    <3>4. CASE k - 1 > d
      <4>1. p[k] = <<Rows - 1, k - d>> /\ p[k - 1] = <<Rows - 1, (k - 1) - d>>
        BY <1>1, <1>2, <3>1, <3>4
      <4> QED BY <1>1, <3>1, <4>1, Constants DEF City, Abs
    <3> QED BY <1>1, <3>2, <3>3, <3>4
  <2> QED BY <1>1, <2>1, <2>2, <2>3
<1>6. ASSUME NEW k \in 1..m - 1 PROVE ~Exit(p[k])
  <2>1. k \in 1..m /\ k < m
    BY <1>1
  <2>2. CASE k <= d
    BY <1>1, <1>2, <2>1, <2>2 DEF Exit
  <2>3. CASE k > d
    <3>1. p[k][2] = k - d /\ k - d < Cols - 1
      BY <1>2, <2>1, <2>3
    <3> QED BY <1>1, <3>1, Constants DEF Exit
  <2> QED BY <1>1, <2>1, <2>2, <2>3
<1>7. Exit(p[m])
  BY <1>1, <1>2 DEF Exit
<1>8. Leads(ws, <<row, 0>>, p)
  BY <1>1, <1>3, <1>4, <1>5, <1>6, <1>7 DEF Leads
<1>9. ASSUME NEW k \in 1..m PROVE Distance(<<row, 0>>, p[k]) < 2 * Cols + Rows
  <2>1. CASE k <= d
    BY <1>1, <1>2, <2>1, Constants DEF Distance, City, Abs
  <2>2. CASE k > d
    BY <1>1, <1>2, <2>2, Constants DEF Distance, City, Abs
  <2> QED BY <1>1, <2>1, <2>2
<1> QED BY <1>4, <1>8, <1>9
-----------------------------------------------------------------------------
(* Sums over the shots that land *)

\* The sum over a set can be taken element by element.
AddsUp(f, h, s) == f[s] = IF s = {} THEN 0
                          ELSE h[CHOOSE x \in s : TRUE] + f[s \ {CHOOSE x \in s : TRUE}]

LEMMA LessOne ==
  ASSUME NEW S, IsFiniteSet(S), NEW s \in SUBSET S, s # {}
  PROVE  LET x == CHOOSE y \in s : TRUE
         IN /\ x \in s /\ s \ {x} \in SUBSET S
            /\ Cardinality(s) \in Nat \ {0} /\ Cardinality(s \ {x}) = Cardinality(s) - 1
<1>1. IsFiniteSet(s)
  BY FS_Subset
<1>2. (CHOOSE y \in s : TRUE) \in s
  OBVIOUS
<1>3. Cardinality(s) \in Nat /\ Cardinality(s) # 0
  BY <1>1, FS_CardinalityType, FS_EmptySet
<1> QED BY <1>1, <1>2, <1>3, FS_RemoveElement

LEMMA SumsUp ==
  ASSUME NEW S, IsFiniteSet(S), NEW h \in [S -> Nat]
  PROVE  \E f \in [SUBSET S -> Nat] : \A s \in SUBSET S : AddsUp(f, h, s)
<1> DEFINE Up(f, n) == \A s \in SUBSET S : Cardinality(s) <= n => AddsUp(f, h, s)
           T == {n \in Nat : \E f \in [SUBSET S -> Nat] : Up(f, n)}
           pick(s) == CHOOSE x \in s : TRUE
<1>0. \A s \in SUBSET S : Cardinality(s) \in Nat /\ (Cardinality(s) = 0 <=> s = {})
  BY FS_Subset, FS_CardinalityType, FS_EmptySet
<1>1. 0 \in T
  <2> DEFINE f == [s \in SUBSET S |-> 0]
  <2>1. f \in [SUBSET S -> Nat]
    OBVIOUS
  <2>2. Up(f, 0)
    BY <1>0 DEF AddsUp
  <2> QED BY <2>1, <2>2
<1>2. ASSUME NEW n \in Nat, n \in T PROVE n + 1 \in T
  <2>1. PICK f \in [SUBSET S -> Nat] : Up(f, n)
    BY <1>2
  <2> DEFINE g == [s \in SUBSET S |-> IF Cardinality(s) = n + 1 THEN h[pick(s)] + f[s \ {pick(s)}]
                                      ELSE f[s]]
  <2>2. ASSUME NEW s \in SUBSET S, s # {}
        PROVE  /\ pick(s) \in s /\ s \ {pick(s)} \in SUBSET S
               /\ Cardinality(s) \in Nat \ {0}
               /\ Cardinality(s \ {pick(s)}) = Cardinality(s) - 1
    BY <2>2, LessOne
  <2> HIDE DEF pick
  <2>3. g \in [SUBSET S -> Nat]
    <3> SUFFICES ASSUME NEW s \in SUBSET S
                 PROVE (IF Cardinality(s) = n + 1 THEN h[pick(s)] + f[s \ {pick(s)}] ELSE f[s]) \in Nat
      OBVIOUS
    <3>1. CASE Cardinality(s) = n + 1
      <4>1. s # {}
        BY <1>0, <3>1
      <4>2. pick(s) \in S /\ s \ {pick(s)} \in SUBSET S
        BY <2>2, <4>1
      <4>3. h[pick(s)] \in Nat /\ f[s \ {pick(s)}] \in Nat
        BY <4>2
      <4> QED BY <3>1, <4>3
    <3> QED BY <3>1
  <2>4. ASSUME NEW s \in SUBSET S, Cardinality(s) <= n + 1 PROVE AddsUp(g, h, s)
    <3>1. CASE s = {}
      <4>1. Cardinality(s) # n + 1 /\ Cardinality(s) <= n
        BY <1>0, <3>1
      <4>2. g[s] = f[s] /\ f[s] = 0
        BY <2>1, <3>1, <4>1 DEF AddsUp
      <4> QED BY <3>1, <4>2 DEF AddsUp
    <3>2. CASE s # {}
      <4> DEFINE t == s \ {pick(s)}
      <4>1. t \in SUBSET S /\ Cardinality(t) = Cardinality(s) - 1 /\ Cardinality(s) \in Nat
        BY <2>2, <3>2
      <4> HIDE DEF t
      <4>2. Cardinality(t) # n + 1
        BY <2>4, <4>1
      <4>3. g[t] = f[t]
        BY <4>1, <4>2
      <4>4. g[s] = h[pick(s)] + f[t]
        <5>1. CASE Cardinality(s) = n + 1
          BY <5>1 DEF t
        <5>2. CASE Cardinality(s) # n + 1
          <6>1. Cardinality(s) <= n
            BY <2>4, <4>1, <5>2
          <6>2. f[s] = h[pick(s)] + f[t]
            BY <2>1, <3>2, <6>1 DEF AddsUp, pick, t
          <6> QED BY <5>2, <6>2
        <5> QED BY <5>1, <5>2
      <4> HIDE DEF g
      <4> QED BY <3>2, <4>3, <4>4 DEF AddsUp, pick, t
    <3> QED BY <3>1, <3>2
  <2> HIDE DEF g
  <2> QED BY <2>3, <2>4
<1>3. Cardinality(S) \in Nat
  BY <1>0
<1> HIDE DEF T
<1>4. Cardinality(S) \in T
  BY <1>1, <1>2, <1>3, Induct
<1>5. PICK f \in [SUBSET S -> Nat] : Up(f, Cardinality(S))
  BY <1>4 DEF T
<1>6. \A s \in SUBSET S : Cardinality(s) <= Cardinality(S)
  BY FS_Subset
<1> QED BY <1>5, <1>6

\* What the shots that land do to a target is a number.
LEMMA StruckType ==
  ASSUME NEW D, IsFiniteSet(D), NEW landed \in [D -> Nat], \A s \in D : s.damage \in Nat,
         NEW kind, NEW id
  PROVE  Struck(landed, kind, id) \in Nat
<1> DEFINE S == {s \in D : s.target = [kind |-> kind, id |-> id]}
           h == [s \in S |-> s.damage * landed[s]]
           pick(s) == CHOOSE x \in s : TRUE
           Turns(f) == [s \in SUBSET S |-> IF s = {} THEN 0
                          ELSE pick(s).damage * landed[pick(s)] + f[s \ {pick(s)}]]
           G == CHOOSE f : f = Turns(f)
<1>1. IsFiniteSet(S)
  BY FS_Subset
<1>2. S = {s \in BagToSet(landed) : s.target = [kind |-> kind, id |-> id]}
  BY DEF BagToSet
<1>3. Struck(landed, kind, id) = G[S]
  <2> DEFINE R == {s \in BagToSet(landed) : s.target = [kind |-> kind, id |-> id]}
             F(f) == [s \in SUBSET R |-> IF s = {} THEN 0
                        ELSE pick(s).damage * landed[pick(s)] + f[s \ {pick(s)}]]
  <2>1. Struck(landed, kind, id) = (CHOOSE f : f = F(f))[R]
    BY DEF Struck, MapThenSumSet, MapThenFoldSet
  <2> QED BY <1>2, <2>1
<1>4. h \in [S -> Nat]
  <2>1. \A a, b \in Nat : a * b \in Nat
    OBVIOUS
  <2>2. \A s \in S : s.damage \in Nat /\ landed[s] \in Nat
    OBVIOUS
  <2> HIDE DEF S
  <2> QED BY <2>1, <2>2
<1> HIDE DEF S
<1>5. \A s \in SUBSET S : s # {} => pick(s) \in S /\ s \ {pick(s)} \in SUBSET S
  OBVIOUS
<1>6. \E f : f = Turns(f)
  <2>1. PICK f \in [SUBSET S -> Nat] : \A s \in SUBSET S : AddsUp(f, h, s)
    BY <1>1, <1>4, SumsUp
  <2>2. ASSUME NEW s \in SUBSET S
        PROVE  f[s] = IF s = {} THEN 0
                      ELSE pick(s).damage * landed[pick(s)] + f[s \ {pick(s)}]
    <3>1. AddsUp(f, h, s)
      BY <2>1
    <3>2. CASE s = {}
      BY <3>1, <3>2 DEF AddsUp
    <3>3. CASE s # {}
      <4>1. f[s] = h[pick(s)] + f[s \ {pick(s)}]
        BY <3>1, <3>3 DEF AddsUp
      <4>2. h[pick(s)] = pick(s).damage * landed[pick(s)]
        BY <1>5, <3>3
      <4> QED BY <3>3, <4>1, <4>2
    <3> QED BY <3>2, <3>3
  <2> HIDE DEF pick
  <2>3. f = Turns(f)
    BY <2>2
  <2> QED BY <2>3
<1>7. G = Turns(G)
  <2> HIDE DEF Turns
  <2> QED BY <1>6
<1> HIDE DEF G
<1>8. \A s \in SUBSET S : G[s] = IF s = {} THEN 0
                                 ELSE h[pick(s)] + G[s \ {pick(s)}]
  <2> SUFFICES ASSUME NEW s \in SUBSET S
               PROVE  G[s] = IF s = {} THEN 0 ELSE h[pick(s)] + G[s \ {pick(s)}]
    OBVIOUS
  <2>1. s # {} => h[pick(s)] = pick(s).damage * landed[pick(s)]
    BY <1>5
  <2> HIDE DEF pick, h
  <2>2. G[s] = IF s = {} THEN 0 ELSE pick(s).damage * landed[pick(s)] + G[s \ {pick(s)}]
    BY <1>7
  <2> QED BY <2>1, <2>2
<1> DEFINE T == {n \in Nat : \A s \in SUBSET S : Cardinality(s) <= n => G[s] \in Nat}
<1>9. 0 \in T
  <2>1. \A s \in SUBSET S : Cardinality(s) \in Nat /\ (Cardinality(s) = 0 <=> s = {})
    BY <1>1, FS_Subset, FS_CardinalityType, FS_EmptySet
  <2>2. G[{}] = 0
    BY <1>8
  <2> QED BY <2>1, <2>2
<1>10. ASSUME NEW n \in Nat, n \in T PROVE n + 1 \in T
  <2> SUFFICES ASSUME NEW s \in SUBSET S, Cardinality(s) <= n + 1 PROVE G[s] \in Nat
    OBVIOUS
  <2>0. G[s] = IF s = {} THEN 0 ELSE h[pick(s)] + G[s \ {pick(s)}]
    BY <1>8
  <2>1. CASE s = {}
    BY <2>0, <2>1
  <2>2. CASE s # {}
    <3>1. /\ pick(s) \in S /\ s \ {pick(s)} \in SUBSET S /\ Cardinality(s) \in Nat
          /\ Cardinality(s \ {pick(s)}) = Cardinality(s) - 1
      BY <1>1, <2>2, LessOne
    <3>2. G[s \ {pick(s)}] \in Nat
      BY <1>10, <3>1
    <3>3. h[pick(s)] \in Nat
      BY <1>4, <3>1
    <3> HIDE DEF h, pick
    <3> QED BY <2>0, <2>2, <3>2, <3>3
  <2> QED BY <2>1, <2>2
<1>11. Cardinality(S) \in Nat
  BY <1>1, FS_CardinalityType
<1>12. Cardinality(S) \in T
  <2> HIDE DEF T
  <2> QED BY <1>9, <1>10, <1>11, Induct
<1>13. G[S] \in Nat
  BY <1>11, <1>12
<1> QED BY <1>3, <1>13
-----------------------------------------------------------------------------
(* The projectiles, and what towers and creeps are made of *)

ShotsFit ==
  /\ shots \in [DOMAIN shots -> Nat] /\ IsFiniteSet(DOMAIN shots)
  /\ \A s \in DOMAIN shots : s.damage \in Nat

LEMMA DamageType == ASSUME NEW t PROVE Damage(t) \in Nat
<1>1. (IF t.level >= 5 THEN 2 ELSE 1) \in {1, 2} /\ (IF t.level = 9 THEN 3 ELSE 1) \in {1, 3}
  OBVIOUS
<1>2. \A a \in {1, 2}, b \in {1, 3} : a * b \in Nat
  OBVIOUS
<1> QED BY <1>1, <1>2 DEF Damage

LEMMA ShotsInit == Init => ShotsFit
<1> SUFFICES ASSUME Init PROVE ShotsFit
  OBVIOUS
<1>1. DOMAIN shots = {} /\ shots = [e \in {} |-> 1]
  BY DEF Init, EmptyBag, SetToBag
<1> QED BY <1>1, FS_EmptySet DEF ShotsFit

LEMMA ShotsStep == ShotsFit /\ [Next]_vars => ShotsFit'
<1> SUFFICES ASSUME ShotsFit, [Next]_vars PROVE ShotsFit'
  OBVIOUS
<1>1. ASSUME NEW i, TowerFires(i) PROVE ShotsFit'
  <2>1. PICK x : shots' = shots (+) SetToBag({x}) /\ x.damage \in Nat
    <3>0. PICK t \in Targets(i) :
            shots' = shots (+) SetToBag({[target |-> t, damage |-> Damage(towers[i])]})
      BY <1>1 DEF TowerFires
    <3> DEFINE x == [target |-> t, damage |-> Damage(towers[i])]
    <3>1. shots' = shots (+) SetToBag({x})
      BY <3>0
    <3>2. x.damage \in Nat
      BY DamageType
    <3> QED BY <3>1, <3>2
  <2>2. shots' = [e \in DOMAIN shots \cup {x} |->
                    (IF e \in DOMAIN shots THEN shots[e] ELSE 0)
                    + (IF e \in {x} THEN [d \in {x} |-> 1][e] ELSE 0)]
    BY <2>1 DEF (+), SetToBag
  <2>3. DOMAIN shots' = DOMAIN shots \cup {x} /\ shots' \in [DOMAIN shots' -> Nat]
    BY <2>2 DEF ShotsFit
  <2>4. IsFiniteSet(DOMAIN shots')
    BY <2>3, FS_AddElement DEF ShotsFit
  <2> QED BY <2>1, <2>3, <2>4 DEF ShotsFit
<1>2. CASE Strike
  <2>1. PICK landed \in [BagToSet(shots) -> UNION {0..shots[s] : s \in BagToSet(shots)}] :
          /\ \A s \in BagToSet(shots) : landed[s] <= shots[s]
          /\ shots' = shots (-) landed
    BY <1>2 DEF Strike
  <2>2. /\ landed \in [DOMAIN shots -> Nat]
        /\ \A s \in DOMAIN shots : landed[s] <= shots[s]
    BY <2>1 DEF BagToSet, ShotsFit
  <2> DEFINE B == [e \in DOMAIN shots |-> IF e \in DOMAIN landed THEN shots[e] - landed[e]
                                          ELSE shots[e]]
  <2>3. shots' = [e \in {d \in DOMAIN B : B[d] > 0} |-> B[e]]
    BY <2>1 DEF (-)
  <2>4. B \in [DOMAIN shots -> Nat]
    BY <2>2 DEF ShotsFit
  <2> HIDE DEF B
  <2>5. DOMAIN shots' \subseteq DOMAIN shots /\ shots' \in [DOMAIN shots' -> Nat]
    BY <2>3, <2>4
  <2>6. IsFiniteSet(DOMAIN shots')
    BY <2>5, FS_Subset DEF ShotsFit
  <2> QED BY <2>5, <2>6 DEF ShotsFit
<1>3. CASE UNCHANGED shots
  BY <1>3 DEF ShotsFit
<1>4. Next => UNCHANGED shots \/ Strike \/ \E i \in todo : TowerFires(i)
  BY Cases DEF Positions, Round, RoundUndefined, Upgrade, Hurt, Build, PlaceUnchanged,
    StartRound, EndRound, Finish, BeginUpdate, TowerDies, TowerRests, EndTowers, CreepDies,
    CreepWalks, CreepArrives, CreepUnchanged, EndCreeps, SpawnPair, EndTick
<1> QED BY <1>1, <1>2, <1>3, <1>4 DEF vars

\* No tower stands in the first column or in the last row; what a tower and the loops have.
TowerStands(t) == /\ t \in TowerRec
                  /\ 0 < t.pos[2] /\ t.pos[2] < Cols - TowerCols /\ t.pos[1] < Rows - TowerRows

PlacesFit ==
  /\ \A i \in DOMAIN towers : TowerStands(towers[i])
  /\ walls \subseteq Cells /\ changed \in BOOLEAN /\ (pc = "tick" => ~changed)
  /\ damage \in [Teams -> Nat]
  /\ pc \notin {"towers", "creeps"} => todo = {}

LEMMA MonusType == ASSUME NEW a \in Nat, NEW b \in Nat PROVE Monus(a, b) \in Nat
  BY DEF Monus

LEMMA StandsWithAmmo ==
  ASSUME NEW t, TowerStands(t), NEW n \in Nat PROVE TowerStands([t EXCEPT !.ammo = n])
  BY DEF TowerStands, TowerRec

\* The first column and the last row are free.
LEMMA EdgeFree ==
  ASSUME NEW ts, \A i \in DOMAIN ts : TowerStands(ts[i])
  PROVE  /\ \A r \in 0..Rows - 1 : <<r, 0>> \notin Walls(ts)
         /\ \A c \in 0..Cols - 1 : <<Rows - 1, c>> \notin Walls(ts)
<1>1. ASSUME NEW i \in DOMAIN ts, NEW r \in 0..Rows - 1
      PROVE ~Overlap(CreepBox(<<r, 0>>), TowerBox(ts[i].pos))
  <2>1. ts[i].pos[2] \in Nat /\ 0 < ts[i].pos[2]
    BY DEF TowerStands, TowerRec
  <2> QED BY <2>1 DEF Overlap, CreepBox, TowerBox
<1>2. ASSUME NEW i \in DOMAIN ts, NEW c \in 0..Cols - 1
      PROVE ~Overlap(CreepBox(<<Rows - 1, c>>), TowerBox(ts[i].pos))
  <2>1. ts[i].pos[1] \in Nat /\ ts[i].pos[1] < Rows - TowerRows
    BY DEF TowerStands, TowerRec
  <2>2. ~(Rows - 1 < ts[i].pos[1] + TowerRows)
    BY <2>1, Constants
  <2> QED BY <2>2 DEF Overlap, CreepBox, TowerBox
<1> QED BY <1>1, <1>2 DEF Walls

LEMMA PlacesInit == Init => PlacesFit
<1> SUFFICES ASSUME Init PROVE PlacesFit
  OBVIOUS
<1>1. /\ DOMAIN towers = {} /\ walls = {} /\ changed = FALSE /\ pc = "top" /\ todo = {}
      /\ damage = [t \in Teams |-> 1]
  BY DEF Init
<1> QED BY <1>1 DEF PlacesFit

LEMMA PlacesStep ==
  PlacesFit /\ ShotsFit /\ CreepsFit /\ TowersFit /\ RoundsFit /\ [Next]_vars => PlacesFit'
<1> SUFFICES ASSUME PlacesFit, ShotsFit, CreepsFit, TowersFit, RoundsFit, [Next]_vars
             PROVE PlacesFit'
  OBVIOUS
<1>1. CASE Upgrade \/ Hurt
  <2>1. UNCHANGED <<pc, todo, walls, changed, damage>>
    BY <1>1 DEF Upgrade, Hurt, PlaceUnchanged
  <2> DEFINE i == Lowest(Hit(Head(orders).pos))
             stands(e) == TowerStands(e)
  <2>2. PICK e : /\ towers' = [towers EXCEPT ![i] = e]
                 /\ i \in DOMAIN towers => TowerStands(e)
    <3>1. CASE Upgrade
      <4>1. towers' = [towers EXCEPT ![i] = Upgraded(towers[i])]
        BY <3>1 DEF Upgrade
      <4>2. ASSUME i \in DOMAIN towers PROVE TowerStands(Upgraded(towers[i]))
        <5> DEFINE t == towers[i]
                   level == IF t.level < 9 THEN t.level + 1 ELSE t.level
        <5>1. TowerStands(t)
          BY <4>2 DEF PlacesFit
        <5> HIDE DEF i
        <5>2. level \in 1..9 /\ level - 1 \in Nat
          BY <5>1 DEF TowerStands, TowerRec
        <5>3. AmmoPerLevel \in Nat /\ \A a, b \in Nat : a * b \in Nat
          BY TDAssumption DEF TDAssumption
        <5>4. (level - 1) * AmmoPerLevel \in Nat
          BY <5>2, <5>3
        <5>5. TowerAmmo + (level - 1) * AmmoPerLevel \in Nat
          BY <5>4, Constants
        <5>6. Upgraded(t) = [team |-> t.team, pos |-> t.pos, level |-> level,
                             ammo |-> TowerAmmo + (level - 1) * AmmoPerLevel]
          BY DEF Upgraded
        <5> HIDE DEF level, t
        <5> QED BY <5>1, <5>2, <5>5, <5>6 DEF TowerStands, TowerRec, t
      <4> QED BY <4>1, <4>2
    <3>2. CASE Hurt
      <4> DEFINE e == [towers[i] EXCEPT !.ammo = Monus(towers[i].ammo, TowerAmmo)]
      <4>1. towers' = [towers EXCEPT ![i] = e]
        BY <3>2 DEF Hurt
      <4>2. ASSUME i \in DOMAIN towers PROVE TowerStands(e)
        <5>1. TowerStands(towers[i]) /\ towers[i].ammo \in Nat
          BY <4>2 DEF PlacesFit, TowerStands, TowerRec
        <5> QED BY <5>1, MonusType, StandsWithAmmo, Constants
      <4> QED BY <4>1, <4>2
    <3> QED BY <1>1, <3>1, <3>2
  <2> HIDE DEF i
  <2>3. \A j \in DOMAIN towers' : TowerStands(towers'[j])
    <3>1. DOMAIN towers' = DOMAIN towers
          /\ \A j \in DOMAIN towers : towers'[j] = IF j = i THEN e ELSE towers[j]
      BY <2>2
    <3> QED BY <2>2, <3>1 DEF PlacesFit
  <2> QED BY <2>1, <2>3 DEF PlacesFit
<1>2. CASE Build
  <2>1. PICK p \in IF CanPlaceTower(Head(orders).team, Head(orders).pos) THEN {Head(orders).pos}
                   ELSE RandomSpots(Head(orders).team) :
          /\ CanPlaceTower(Head(orders).team, p)
          /\ towers' = Added(towers, built, [team |-> Head(orders).team, pos |-> p, level |-> 1,
                                             ammo |-> TowerAmmo])
    BY <1>2 DEF Build
  <2>2. Head(orders) \in OrderRec
    <3>1. orders \in Seq(OrderRec) /\ orders # <<>>
      BY <1>2 DEF TowersFit, Build, Placing
    <3> QED BY <3>1
  <2>3. p \in Nat \X Nat
    <3>1. RandomSpots(Head(orders).team) \subseteq Nat \X Nat
      BY DEF RandomSpots, Cells
    <3> QED BY <2>1, <2>2, <3>1 DEF OrderRec
  <2>4. TowerStands([team |-> Head(orders).team, pos |-> p, level |-> 1, ammo |-> TowerAmmo])
    BY <2>1, <2>2, <2>3, Constants DEF TowerStands, TowerRec, OrderRec, CanPlaceTower
  <2>5. \A j \in DOMAIN towers' : TowerStands(towers'[j])
    BY <2>1, <2>4 DEF Added, PlacesFit
  <2>6. /\ UNCHANGED <<pc, todo, changed, damage>> /\ walls' = Walls(towers')
    BY <1>2 DEF Build, PlaceUnchanged
  <2>7. walls' \subseteq Cells
    BY <2>6 DEF Walls
  <2> QED BY <2>5, <2>6, <2>7 DEF PlacesFit
<1>3. ASSUME NEW i \in todo, TowerDies(i) PROVE PlacesFit'
  <2>1. /\ towers' = Removed(towers, i) /\ changed' = TRUE /\ pc = "towers"
        /\ UNCHANGED <<pc, walls, damage>>
    BY <1>3 DEF TowerDies, TowerTurn, TowerUnchanged
  <2> QED BY <2>1 DEF PlacesFit, Removed
<1>4. ASSUME NEW i \in todo, TowerFires(i) PROVE PlacesFit'
  <2> DEFINE e == [towers[i] EXCEPT !.ammo = towers[i].ammo - 1]
  <2>1. /\ towers' = [towers EXCEPT ![i] = e] /\ pc = "towers" /\ towers[i].ammo > 0
        /\ UNCHANGED <<pc, walls, damage, changed>>
    BY <1>4 DEF TowerFires, TowerTurn, TowerUnchanged
  <2>2. i \in DOMAIN towers /\ TowerStands(towers[i])
    BY <2>1 DEF TowersFit, PlacesFit
  <2>3. towers[i].ammo - 1 \in Nat
    BY <2>1, <2>2 DEF TowerStands, TowerRec
  <2>4. TowerStands(e)
    BY <2>2, <2>3, StandsWithAmmo
  <2> HIDE DEF e
  <2>5. \A j \in DOMAIN towers' : TowerStands(towers'[j])
    BY <2>1, <2>4 DEF PlacesFit
  <2> QED BY <2>1, <2>5 DEF PlacesFit
<1>5. ASSUME NEW c \in todo, CreepArrives(c) PROVE PlacesFit'
  <2> DEFINE t == creeps[c].team
  <2>1. /\ towers' = [i \in DOMAIN towers |->
                     IF towers[i].team = t
                     THEN [towers[i] EXCEPT !.ammo = Monus(towers[i].ammo, damage[t])]
                     ELSE towers[i]]
        /\ damage' = [damage EXCEPT ![t] = damage[t] + 1]
        /\ pc = "creeps" /\ UNCHANGED <<pc, walls, changed>>
    BY <1>5 DEF CreepArrives, CreepTurn, CreepUnchanged, boardVars
  <2> HIDE DEF t
  <2>2. damage' \in [Teams -> Nat]
    <3>1. damage \in [Teams -> Nat] /\ (t \in Teams => damage[t] + 1 \in Nat)
      BY DEF PlacesFit
    <3>2. ASSUME NEW u \in Teams PROVE damage'[u] \in Nat
      BY <2>1, <3>1
    <3>3. damage' = [u \in Teams |-> damage'[u]]
      BY <2>1, <3>1
    <3> QED BY <3>2, <3>3
  <2>3. ASSUME NEW i \in DOMAIN towers PROVE TowerStands(towers'[i])
    <3>1. TowerStands(towers[i]) /\ towers[i].team \in Teams /\ towers[i].ammo \in Nat
      BY DEF PlacesFit, TowerStands, TowerRec
    <3>2. towers[i].team = t => Monus(towers[i].ammo, damage[t]) \in Nat
      BY <3>1, MonusType DEF PlacesFit
    <3>3. towers[i].team = t
          => TowerStands([towers[i] EXCEPT !.ammo = Monus(towers[i].ammo, damage[t])])
      BY <3>1, <3>2, StandsWithAmmo
    <3> QED BY <2>1, <3>1, <3>3
  <2>4. DOMAIN towers' = DOMAIN towers
    BY <2>1
  <2> QED BY <2>1, <2>2, <2>3, <2>4 DEF PlacesFit
<1>6. CASE Strike
  <2>1. PICK landed \in [BagToSet(shots) -> UNION {0..shots[s] : s \in BagToSet(shots)}] :
          towers' = [i \in DOMAIN towers |->
                       [towers[i] EXCEPT !.ammo =
                          Monus(towers[i].ammo, Struck(landed, "tower", i))]]
    BY <1>6 DEF Strike
  <2>2. /\ pc' = "tick" /\ changed' = FALSE /\ UNCHANGED <<todo, damage>>
        /\ pc = "projectiles" /\ (walls' = Walls(towers) \/ walls' = walls)
    BY <1>6 DEF Strike
  <2>3. landed \in [DOMAIN shots -> Nat]
    BY <2>1 DEF BagToSet, ShotsFit
  <2>4. ASSUME NEW i \in DOMAIN towers PROVE TowerStands(towers'[i])
    <3>1. TowerStands(towers[i]) /\ towers[i].ammo \in Nat
      BY DEF PlacesFit, TowerStands, TowerRec
    <3>2. Struck(landed, "tower", i) \in Nat
      BY <2>3, StruckType DEF ShotsFit
    <3>3. TowerStands([towers[i] EXCEPT !.ammo =
                         Monus(towers[i].ammo, Struck(landed, "tower", i))])
      BY <3>1, <3>2, MonusType, StandsWithAmmo
    <3> QED BY <2>1, <3>3
  <2>5. walls' \subseteq Cells
    BY <2>2 DEF Walls, PlacesFit
  <2>6. DOMAIN towers' = DOMAIN towers
    BY <2>1
  <2> QED BY <2>2, <2>4, <2>5, <2>6 DEF PlacesFit
<1>7. CASE /\ UNCHANGED <<towers, walls, changed, damage>>
           /\ pc' = "tick" => pc = "tick"
           /\ pc' \notin {"towers", "creeps"} => todo' = {}
  BY <1>7 DEF PlacesFit
<1>8. ASSUME Next
      PROVE  \/ Upgrade \/ Hurt \/ Build \/ (\E i \in todo : TowerDies(i))
             \/ (\E i \in todo : TowerFires(i)) \/ (\E c \in todo : CreepArrives(c)) \/ Strike
             \/ /\ UNCHANGED <<towers, walls, changed, damage>>
                /\ pc' = "tick" => pc = "tick"
                /\ pc' \notin {"towers", "creeps"} => todo' = {}
  BY <1>8, Cases DEF Positions, Idle, Round, RoundUndefined, StartRound, EndRound, Finish,
    BeginUpdate, TowerRests, TowerTurn, TowerUnchanged, EndTowers, CreepDies, CreepWalks,
    CreepTurn, CreepUnchanged, EndCreeps, SpawnPair, EndTick, msgVars, towerVars, boardVars,
    PlacesFit
<1>9. CASE UNCHANGED vars
  BY <1>9 DEF vars, msgVars, towerVars, boardVars, PlacesFit
<1> QED BY <1>1, <1>2, <1>3, <1>4, <1>5, <1>6, <1>7, <1>8, <1>9
-----------------------------------------------------------------------------
(* The creeps are on their way *)

\* A creep that is on its way out past the walls.
OnItsWay(cr, ws) == /\ cr \in CreepRec /\ ~Exit(cr.cell) /\ cr.cell \notin ws
                    /\ Leads(ws, cr.cell, cr.path)

WaysFit == \A c \in DOMAIN creeps : OnItsWay(creeps[c], Walls(towers))

\* A creep here may have cells to walk that its search does not look at: it is far from the
\* first column, and a tower still fits between it and the last.
FarAhead(c) == 2 * Cols + Rows + c[2] > Farthest /\ c[2] < Cols - TowerCols - 1

\* When a tower has died and all paths are searched anew, the creeps that are far ahead can
\* see what is left of the paths they have.
InSight ==
  pc = "projectiles" /\ changed =>
    \A c \in DOMAIN creeps :
      FarAhead(creeps[c].cell) =>
        \A k \in 1..Len(creeps[c].path) : Distance(creeps[c].cell, creeps[c].path[k]) < Farthest

\* Every cell is near enough to the others, or has columns behind it.
LEMMA Near ==
  ASSUME NEW c \in Cells, NEW d \in Cells, 2 * Cols + Rows + c[2] <= Farthest
  PROVE  Distance(c, d) < Farthest
<1>1. /\ c[1] \in 0..Rows - 1 /\ c[2] \in 0..Cols - 1
      /\ d[1] \in 0..Rows - 1 /\ d[2] \in 0..Cols - 1
  BY CellsFacts, Constants
<1> QED BY <1>1, Constants DEF Distance, City, Abs

\* Past the last column that a tower may begin in, a free cell has a free run to the exit: a
\* tower in the way would begin before it and cover it.
LEMMA FreeRun ==
  ASSUME NEW ts, \A i \in DOMAIN ts : TowerStands(ts[i]), NEW c \in Cells, ~Exit(c),
         c \notin Walls(ts), Cols - TowerCols - 1 <= c[2]
  PROVE  \E p : /\ Leads(Walls(ts), c, p)
                /\ \A k \in 1..Len(p) : Distance(c, p[k]) < 2 * Cols + Rows
<1> DEFINE m == Cols - 1 - c[2]
           p == [k \in 1..m |-> <<c[1], c[2] + k>>]
<1>1. /\ c[1] \in 0..Rows - 1 /\ c[2] \in 0..Cols - 2 /\ c = <<c[1], c[2]>>
      /\ m \in Nat \ {0}
  BY CellsFacts, Constants DEF Exit, Cells
<1>2. ASSUME NEW k \in 1..m PROVE <<c[1], c[2] + k>> \in Cells \ Walls(ts)
  <2>1. <<c[1], c[2] + k>> \in Cells
    BY <1>1, Constants DEF Cells
  <2>2. ASSUME NEW i \in DOMAIN ts, Overlap(CreepBox(<<c[1], c[2] + k>>), TowerBox(ts[i].pos))
        PROVE  FALSE
    <3>1. /\ ts[i].pos[1] \in Nat /\ ts[i].pos[2] \in Nat /\ ts[i].pos[2] < Cols - TowerCols
      BY DEF TowerStands, TowerRec
    <3>2. /\ c[1] < ts[i].pos[1] + TowerRows /\ ts[i].pos[1] < c[1] + 1
          /\ c[2] + k < ts[i].pos[2] + TowerCols
      BY <2>2 DEF Overlap, CreepBox, TowerBox
    <3>3. c[2] < ts[i].pos[2] + TowerCols /\ ts[i].pos[2] < c[2] + 1
      BY <1>1, <3>1, <3>2, Constants
    <3>4. Overlap(CreepBox(c), TowerBox(ts[i].pos))
      BY <3>2, <3>3 DEF Overlap, CreepBox, TowerBox
    <3> QED BY <3>4 DEF Walls
  <2> QED BY <2>1, <2>2 DEF Walls
<1>3. p \in Seq(Cells) /\ Len(p) = m /\ \A k \in 1..m : p[k] = <<c[1], c[2] + k>>
  <2>1. \A k \in 1..m : p[k] = <<c[1], c[2] + k>>
    OBVIOUS
  <2>2. p = [k \in 1..m |-> p[k]]
    OBVIOUS
  <2>3. \A k \in 1..m : p[k] \in Cells
    BY <1>2, <2>1
  <2> HIDE DEF p, m
  <2>4. p \in [1..m -> Cells]
    BY <2>2, <2>3
  <2> QED BY <1>1, <2>1, <2>4
<1> HIDE DEF p
<1>4. ASSUME NEW k \in 1..m PROVE City(Before(c, p, k), p[k]) = 1 /\ p[k] \notin Walls(ts)
  <2>1. CASE k = 1
    <3>1. Before(c, p, k) = c /\ p[k] = <<c[1], c[2] + 1>>
      BY <1>3, <2>1 DEF Before
    <3>2. p[k] \notin Walls(ts)
      BY <1>2, <1>3
    <3> QED BY <1>1, <3>1, <3>2 DEF City, Abs
  <2>2. CASE k # 1
    <3>1. k - 1 \in 1..m
      BY <1>1, <2>2
    <3>2. Before(c, p, k) = <<c[1], c[2] + (k - 1)>> /\ p[k] = <<c[1], c[2] + k>>
      BY <1>3, <2>2, <3>1 DEF Before
    <3> QED BY <1>1, <1>2, <3>2 DEF City, Abs
  <2> QED BY <2>1, <2>2
<1>5. ASSUME NEW k \in 1..m - 1 PROVE ~Exit(p[k])
  <2>1. k \in 1..m /\ c[2] + k < Cols - 1
    BY <1>1, Constants
  <2>2. p[k] = <<c[1], c[2] + k>>
    BY <1>3, <2>1
  <2> QED BY <1>1, <2>1, <2>2, Constants DEF Exit
<1>6. Exit(p[m])
  <2>1. m \in 1..m /\ c[2] + m = Cols - 1
    BY <1>1, Constants
  <2>2. p[m] = <<c[1], c[2] + m>>
    BY <1>3, <2>1
  <2> QED BY <2>1, <2>2 DEF Exit
<1>7. Leads(Walls(ts), c, p)
  BY <1>1, <1>3, <1>4, <1>5, <1>6 DEF Leads
<1>8. ASSUME NEW k \in 1..m PROVE Distance(c, p[k]) < 2 * Cols + Rows
  <2>1. p[k][1] = c[1] /\ p[k][2] = c[2] + k
    BY <1>3
  <2> QED BY <1>1, <2>1, Constants DEF Distance, City, Abs
<1> QED BY <1>3, <1>7, <1>8

LEMMA CreepFields ==
  ASSUME NEW cr \in CreepRec, NEW v
  PROVE  /\ [cr EXCEPT !.life = v] = [team |-> cr.team, cell |-> cr.cell, path |-> cr.path, life |-> v]
         /\ [cr EXCEPT !.path = v] = [team |-> cr.team, cell |-> cr.cell, path |-> v, life |-> cr.life]
<1>1. cr = [team |-> cr.team, cell |-> cr.cell, path |-> cr.path, life |-> cr.life]
  BY DEF CreepRec
<1> QED BY <1>1

\* Creeps that are hit are where they were; rerouted, they go on from there.
LEMMA HitWays ==
  ASSUME NEW cr, NEW ws, OnItsWay(cr, ws), NEW life \in Nat
  PROVE  OnItsWay([cr EXCEPT !.life = life], ws)
<1>1. cr \in CreepRec
  BY DEF OnItsWay
<1>2. OnItsWay([team |-> cr.team, cell |-> cr.cell, path |-> cr.path, life |-> life], ws)
  BY DEF OnItsWay, CreepRec
<1> QED BY <1>1, <1>2, CreepFields

LEMMA ReroutedWays ==
  ASSUME 2 * Cols + Rows <= Farthest, NEW ts, \A i \in DOMAIN ts : TowerStands(ts[i]),
         NEW cr, OnItsWay(cr, Walls(ts)),
         FarAhead(cr.cell) => \A k \in 1..Len(cr.path) : Distance(cr.cell, cr.path[k]) < Farthest
  PROVE  OnItsWay([cr EXCEPT !.path = CalculatePath(Walls(ts), cr.cell)], Walls(ts))
<1> DEFINE ws == Walls(ts)
           p == CalculatePath(ws, cr.cell)
<1>1. /\ cr \in CreepRec /\ cr.cell \in Cells /\ cr.path \in Seq(Cells)
      /\ ~Exit(cr.cell) /\ cr.cell \notin ws
  BY DEF OnItsWay, CreepRec
<1>2. Leads(ws, cr.cell, p)
  <2>1. CASE FarAhead(cr.cell)
    BY <1>1, <2>1, WayFound DEF OnItsWay
  <2>2. CASE 2 * Cols + Rows + cr.cell[2] <= Farthest
    <3>1. \A k \in 1..Len(cr.path) : Distance(cr.cell, cr.path[k]) < Farthest
      <4>1. \A k \in 1..Len(cr.path) : cr.path[k] \in Cells
        BY <1>1
      <4> QED BY <1>1, <2>2, <4>1, Near
    <3> QED BY <1>1, <3>1, WayFound DEF OnItsWay
  <2>3. CASE Cols - TowerCols - 1 <= cr.cell[2]
    <3>1. PICK q : /\ Leads(ws, cr.cell, q)
                   /\ \A k \in 1..Len(q) : Distance(cr.cell, q[k]) < 2 * Cols + Rows
      BY <1>1, <2>3, FreeRun
    <3>2. \A k \in 1..Len(q) : Distance(cr.cell, q[k]) < Farthest
      <4> SUFFICES ASSUME NEW k \in 1..Len(q) PROVE Distance(cr.cell, q[k]) < Farthest
        OBVIOUS
      <4>1. q[k] \in Cells
        BY <3>1 DEF Leads
      <4>2. Distance(cr.cell, q[k]) \in Nat
        BY <1>1, <4>1, CellsFacts
      <4> QED BY <3>1, <4>2, Constants
    <3> HIDE DEF ws
    <3> QED BY <1>1, <3>1, <3>2, WayFound
  <2>4. cr.cell[2] \in Int
    BY <1>1, CellsFacts
  <2> QED BY <2>1, <2>2, <2>3, <2>4, Constants DEF FarAhead
<1>3. p \in Seq(Cells)
  BY <1>2 DEF Leads
<1> HIDE DEF p
<1>4. OnItsWay([team |-> cr.team, cell |-> cr.cell, path |-> p, life |-> cr.life], ws)
  BY <1>1, <1>2, <1>3 DEF OnItsWay, CreepRec
<1> QED BY <1>1, <1>4, CreepFields DEF p

\* A creep that walks keeps the rest of its way.
LEMMA WalkedWays ==
  ASSUME NEW cr, NEW ws, OnItsWay(cr, ws), NEW n \in Nat, n < Len(cr.path)
  PROVE  OnItsWay(Walked(cr, n), ws)
<1>1. cr.cell \in Cells /\ cr.path \in Seq(Cells)
  BY DEF OnItsWay, CreepRec
<1> DEFINE cell == IF n = 0 THEN cr.cell ELSE cr.path[n]
           path == SubSeq(cr.path, n + 1, Len(cr.path))
<1>2. cell \in Cells /\ ~Exit(cell) /\ cell \notin ws /\ Leads(ws, cell, path)
  <2>1. CASE n = 0
    <3>1. path = cr.path
      BY <1>1, <2>1
    <3> QED BY <1>1, <2>1, <3>1 DEF OnItsWay
  <2>2. CASE n # 0
    <3>1. 0 < n /\ cell = cr.path[n]
      BY <2>2
    <3>2. Leads(ws, cr.cell, cr.path)
      BY DEF OnItsWay
    <3> HIDE DEF cell
    <3> QED BY <1>1, <3>1, <3>2, RestLeads
  <2> QED BY <2>1, <2>2
<1>3. path \in Seq(Cells)
  BY <1>2 DEF Leads
<1>4. Walked(cr, n) = [team |-> cr.team, cell |-> cell, path |-> path, life |-> cr.life]
  <2>1. cr = [team |-> cr.team, cell |-> cr.cell, path |-> cr.path, life |-> cr.life]
    BY DEF OnItsWay, CreepRec
  <2>2. Walked(cr, n) = [cr EXCEPT !.cell = cell, !.path = path]
    BY DEF Walked
  <2> HIDE DEF cell, path
  <2> QED BY <2>1, <2>2
<1> HIDE DEF cell, path
<1> QED BY <1>2, <1>3, <1>4 DEF OnItsWay, CreepRec

\* A creep that is spawned is on its way, on boards on which the search looks far enough to
\* the other end of the first column.
LEMMA SpawnedWays ==
  ASSUME 2 * Cols + Rows <= Farthest, PlacesFit, RoundsFit, BoardAgrees, pc = "tick",
         NEW t \in Teams, NEW row \in 0..Rows - 1
  PROVE  OnItsWay(Spawned(t, row), Walls(towers))
<1>1. walls = Walls(towers)
  BY DEF PlacesFit, BoardAgrees
<1>2. /\ \A r \in 0..Rows - 1 : <<r, 0>> \notin walls
      /\ \A c \in 0..Cols - 1 : <<Rows - 1, c>> \notin walls
  BY <1>1, EdgeFree DEF PlacesFit
<1>3. <<row, 0>> \in Cells /\ ~Exit(<<row, 0>>)
  BY Constants DEF Cells, Exit
<1>4. PICK p : /\ Leads(walls, <<row, 0>>, p)
               /\ \A k \in 1..Len(p) : Distance(<<row, 0>>, p[k]) < 2 * Cols + Rows
  BY <1>2, AlongTheEdge
<1>5. \A k \in 1..Len(p) : Distance(<<row, 0>>, p[k]) < Farthest
  <2> SUFFICES ASSUME NEW k \in 1..Len(p) PROVE Distance(<<row, 0>>, p[k]) < Farthest
    OBVIOUS
  <2>1. p[k] \in Cells
    BY <1>4 DEF Leads
  <2>2. Distance(<<row, 0>>, p[k]) \in Nat
    BY <1>3, <2>1, CellsFacts
  <2> QED BY <1>4, <2>2, Constants
<1>6. Leads(walls, <<row, 0>>, CalculatePath(walls, <<row, 0>>))
  BY <1>3, <1>4, <1>5, WayFound
<1>7. CalculatePath(walls, <<row, 0>>) \in Seq(Cells)
  BY <1>6 DEF Leads
<1>8. CreepLife + (round \div LifeRounds) \in Nat
  <2>1. CreepLife \in Nat /\ LifeRounds \in Nat \ {0} /\ round \in Nat
    BY TDAssumption DEF TDAssumption, RoundsFit
  <2>2. round \div LifeRounds \in Nat
    BY <2>1
  <2> QED BY <2>1, <2>2
<1> QED BY <1>1, <1>2, <1>3, <1>6, <1>7, <1>8 DEF OnItsWay, CreepRec, Spawned

Fit == RangesFit /\ RoundsFit /\ CreepsFit /\ TowersFit /\ ShotsFit /\ PlacesFit

LEMMA FitInit == Init => Fit
  BY RangesInit, RoundsInit, CreepsInit, TowersInit, ShotsInit, PlacesInit DEF Fit

LEMMA FitStep == Fit /\ [Next]_vars => Fit'
  BY RangesStep, RoundsStep, CreepsStep, TowersStep, ShotsStep, PlacesStep DEF Fit

LEMMA WaysInit == Init => WaysFit
<1> SUFFICES ASSUME Init PROVE WaysFit
  OBVIOUS
<1>1. DOMAIN creeps = {}
  BY DEF Init
<1> QED BY <1>1 DEF WaysFit

LEMMA WaysStep ==
  ASSUME 2 * Cols + Rows <= Farthest, InSight, Fit, WaysFit, [Next]_vars PROVE WaysFit'
<1> USE DEF Fit
<1>1. CASE Upgrade \/ Hurt \/ Build
  <2>1. DOMAIN creeps' = {}
    <3>1. DOMAIN creeps = {}
      BY <1>1 DEF Upgrade, Hurt, Build, Placing, CreepsFit, RoundsFit
    <3> QED BY <1>1, <3>1 DEF Upgrade, Hurt, Build, Rerouted
  <2> QED BY <2>1 DEF WaysFit
<1>2. ASSUME NEW i \in todo, TowerDies(i) PROVE WaysFit'
  <2>1. towers' = Removed(towers, i) /\ creeps' = creeps
    BY <1>2 DEF TowerDies, TowerUnchanged, creepVars
  <2>2. Walls(towers') \subseteq Walls(towers)
    BY <2>1 DEF Removed, Walls
  <2> QED BY <2>1, <2>2, FewerWalls DEF WaysFit, OnItsWay
<1>3. ASSUME NEW c \in todo, CreepDies(c) \/ CreepArrives(c) PROVE WaysFit'
  <2>1. creeps' = Removed(creeps, c)
    BY <1>3 DEF CreepDies, CreepArrives
  <2>2. Walls(towers') = Walls(towers)
    <3>1. CASE CreepDies(c)
      BY <3>1 DEF CreepDies
    <3>2. CASE CreepArrives(c)
      <4> DEFINE t == creeps[c].team
      <4>1. towers' = [i \in DOMAIN towers |->
                     IF towers[i].team = t
                     THEN [towers[i] EXCEPT !.ammo = Monus(towers[i].ammo, damage[t])]
                     ELSE towers[i]]
        BY <3>2 DEF CreepArrives
      <4>2. SameTowers(towers, towers')
        BY <4>1, WithAmmo DEF SameTowers, TowersFit
      <4> QED BY <4>2, SameWalls
    <3> QED BY <1>3, <3>1, <3>2
  <2> QED BY <2>1, <2>2 DEF WaysFit, Removed
<1>4. ASSUME NEW c \in todo, CreepWalks(c) PROVE WaysFit'
  <2>1. PICK n \in 0..Stride : /\ n < Len(creeps[c].path)
                               /\ creeps' = [creeps EXCEPT ![c] = Walked(creeps[c], n)]
    BY <1>4 DEF CreepWalks
  <2>2. c \in DOMAIN creeps /\ towers' = towers
    BY <1>4 DEF CreepWalks, CreepTurn, CreepsFit
  <2>3. OnItsWay(Walked(creeps[c], n), Walls(towers))
    <3>1. OnItsWay(creeps[c], Walls(towers))
      BY <2>2 DEF WaysFit
    <3>2. n \in Nat
      OBVIOUS
    <3> QED BY <2>1, <3>1, <3>2, WalkedWays
  <2> QED BY <2>1, <2>2, <2>3 DEF WaysFit
<1>5. ASSUME NEW i \in todo, TowerFires(i) PROVE WaysFit'
  <2> DEFINE e == [towers[i] EXCEPT !.ammo = towers[i].ammo - 1]
  <2>1. /\ pc = "towers" /\ towers' = [towers EXCEPT ![i] = e] /\ creeps' = creeps
    BY <1>5 DEF TowerFires, TowerTurn, TowerUnchanged, creepVars
  <2>2. i \in DOMAIN towers
    BY <2>1 DEF TowersFit
  <2>3. HasFields(e) /\ e.team = towers[i].team /\ e.pos = towers[i].pos
    BY <2>2, WithAmmo DEF TowersFit
  <2>4. SameTowers(towers, towers')
    BY <2>1, <2>3 DEF SameTowers, TowersFit
  <2>5. Walls(towers') = Walls(towers)
    BY <2>4, SameWalls
  <2> QED BY <2>1, <2>5 DEF WaysFit
<1>6. CASE Strike
  <2>1. PICK landed \in [BagToSet(shots) -> UNION {0..shots[s] : s \in BagToSet(shots)}] :
          /\ towers' = [i \in DOMAIN towers |->
                          [towers[i] EXCEPT !.ammo =
                             Monus(towers[i].ammo, Struck(landed, "tower", i))]]
          /\ LET hit == [c \in DOMAIN creeps |->
                           [creeps[c] EXCEPT !.life =
                              Monus(creeps[c].life, Struck(landed, "creep", c))]]
             IN IF changed THEN walls' = Walls(towers) /\ creeps' = Rerouted(hit, walls')
                ELSE creeps' = hit
    BY <1>6 DEF Strike
  <2>2. Walls(towers') = Walls(towers)
    <3>1. SameTowers(towers, towers')
      BY <2>1, WithAmmo DEF SameTowers, TowersFit
    <3> QED BY <3>1, SameWalls
  <2>3. landed \in [DOMAIN shots -> Nat]
    BY <2>1 DEF BagToSet, ShotsFit
  <2> DEFINE life(c) == Monus(creeps[c].life, Struck(landed, "creep", c))
             ws == Walls(towers)
  <2>4. ASSUME NEW c \in DOMAIN creeps PROVE OnItsWay(creeps[c], ws) /\ life(c) \in Nat
    <3>1. OnItsWay(creeps[c], ws) /\ creeps[c].life \in Nat
      BY DEF WaysFit, OnItsWay, CreepRec
    <3>2. Struck(landed, "creep", c) \in Nat
      BY <2>3, StruckType DEF ShotsFit
    <3> QED BY <3>1, <3>2, MonusType
  <2> DEFINE hit == [c \in DOMAIN creeps |-> [creeps[c] EXCEPT !.life = life(c)]]
  <2>5. /\ DOMAIN hit = DOMAIN creeps
        /\ \A c \in DOMAIN hit : OnItsWay(hit[c], ws)
    BY <2>4, HitWays
  <2>6. creeps' = IF changed THEN Rerouted(hit, ws) ELSE hit
    BY <2>1
  <2> HIDE DEF hit, ws
  <2>7. ASSUME changed, NEW c \in DOMAIN hit PROVE OnItsWay(Rerouted(hit, ws)[c], ws)
    <3>1. Rerouted(hit, ws)[c] = [hit[c] EXCEPT !.path = CalculatePath(ws, hit[c].cell)]
      BY DEF Rerouted
    <3>2. hit[c].cell = creeps[c].cell /\ hit[c].path = creeps[c].path
      BY <2>4, <2>5 DEF hit, OnItsWay, CreepRec
    <3>3. FarAhead(hit[c].cell) =>
            \A k \in 1..Len(hit[c].path) : Distance(hit[c].cell, hit[c].path[k]) < Farthest
      BY <1>6, <2>5, <2>7, <3>2 DEF InSight, Strike
    <3>4. \A i \in DOMAIN towers : TowerStands(towers[i])
      BY DEF PlacesFit
    <3> QED BY <2>5, <2>7, <3>1, <3>3, <3>4, ReroutedWays DEF ws
  <2>8. \A c \in DOMAIN creeps' : OnItsWay(creeps'[c], ws)
    BY <2>5, <2>6, <2>7 DEF Rerouted
  <2> QED BY <2>2, <2>8 DEF WaysFit, ws
<1>7. CASE SpawnPair
  <2>1. PICK one, two \in 0..Rows - 1 :
          creeps' = Added(Added(creeps, bred, Spawned(1, one)), bred + 1, Spawned(2, two))
    BY <1>7 DEF SpawnPair
  <2>2. pc = "tick" /\ towers' = towers /\ BoardAgrees
    BY <1>7 DEF SpawnPair, towerVars, TowersFit
  <2>3. /\ OnItsWay(Spawned(1, one), Walls(towers))
        /\ OnItsWay(Spawned(2, two), Walls(towers))
    BY <2>2, SpawnedWays DEF Teams
  <2> QED BY <2>1, <2>2, <2>3 DEF WaysFit, Added
<1>8. CASE UNCHANGED <<towers, creeps>>
  BY <1>8 DEF WaysFit, Walls
<1>9. ASSUME Next
      PROVE  \/ (Upgrade \/ Hurt \/ Build) \/ (\E i \in todo : TowerDies(i))
             \/ (\E c \in todo : CreepDies(c) \/ CreepArrives(c))
             \/ (\E c \in todo : CreepWalks(c)) \/ (\E i \in todo : TowerFires(i))
             \/ Strike \/ SpawnPair \/ UNCHANGED <<towers, creeps>>
  BY <1>9, Cases DEF Positions, Round, RoundUndefined, StartRound, EndRound, Finish,
    BeginUpdate, TowerRests, TowerUnchanged, EndTowers, EndCreeps, EndTick, towerVars, creepVars
<1>10. CASE UNCHANGED vars
  BY <1>8, <1>10 DEF vars, towerVars, creepVars
<1> QED BY <1>1, <1>2, <1>3, <1>4, <1>5, <1>6, <1>7, <1>8, <1>9, <1>10
-----------------------------------------------------------------------------
(* What follows of the creeps *)

\* The ranges in which creeps are spawned.
SpawnRangesFit ==
  \E a, b, c, d \in Int : creepRange = <<[s |-> a, e |-> b], [s |-> c, e |-> d]>>

LEMMA SpawnRangesInit == Init => SpawnRangesFit
<1> SUFFICES ASSUME Init PROVE SpawnRangesFit
  OBVIOUS
<1>1. creepRange = <<[s |-> 0, e |-> TowerRows + 1], [s |-> Rows - TowerRows - 1, e |-> Rows]>>
  BY DEF Init
<1>2. TowerRows + 1 \in Int /\ Rows - TowerRows - 1 \in Int /\ Rows \in Int
  BY Constants
<1>3. \E a, b, c, d \in Int : creepRange = <<[s |-> a, e |-> b], [s |-> c, e |-> d]>>
  <2> USE <1>2
  <2> WITNESS 0 \in Int, TowerRows + 1 \in Int, Rows - TowerRows - 1 \in Int, Rows \in Int
  <2> QED BY <1>1
<1> QED BY <1>3 DEF SpawnRangesFit

LEMMA SpawnRangesStep == SpawnRangesFit /\ [Next]_vars => SpawnRangesFit'
<1> SUFFICES ASSUME SpawnRangesFit, [Next]_vars PROVE SpawnRangesFit'
  OBVIOUS
<1>1. CASE EndRound
  <2>1. PICK n \in {0, 1} : creepRange' = Grown(creepRange, n, n)
    BY <1>1 DEF EndRound
  <2>2. PICK a, b, c, d \in Int : creepRange = <<[s |-> a, e |-> b], [s |-> c, e |-> d]>>
    BY DEF SpawnRangesFit
  <2>3. creepRange' = <<[s |-> a, e |-> b + n], [s |-> c - n, e |-> d]>>
    BY <2>1, <2>2 DEF Grown
  <2>4. b + n \in Int /\ c - n \in Int
    BY <2>1, <2>2
  <2> QED BY <2>2, <2>3, <2>4 DEF SpawnRangesFit
<1>2. CASE UNCHANGED creepRange
  BY <1>2 DEF SpawnRangesFit
<1>3. Next => EndRound \/ UNCHANGED creepRange
  BY Cases DEF Positions, Round, RoundUndefined, Upgrade, Hurt, Build, PlaceUnchanged,
    StartRound, Finish, BeginUpdate, TowerDies, TowerRests, TowerFires, TowerUnchanged,
    EndTowers, CreepDies, CreepWalks, CreepArrives, CreepUnchanged, EndCreeps, Strike,
    SpawnPair, EndTick, zoneVars
<1> QED BY <1>1, <1>2, <1>3 DEF vars, zoneVars

LEMMA TypesFollow == Fit /\ SpawnRangesFit /\ WaysFit => TypeOK
<1> SUFFICES ASSUME Fit, SpawnRangesFit, WaysFit PROVE TypeOK
  OBVIOUS
<1> USE DEF Fit
<1>1. /\ pc \in {"top", "place", "towers", "creeps", "projectiles", "tick", "done", "failed"}
      /\ round \in Nat \ {0} /\ playing \in BOOLEAN /\ owed \in [Teams -> Nat]
  BY DEF RoundsFit, InUpdate
<1>2. /\ positions \in [Teams -> Lists \cup {<<>>}]
      /\ orders \in Seq([team : Teams, pos : Nat \X Nat])
      /\ built \in Nat /\ DOMAIN towers \subseteq 0..built - 1
  BY DEF TowersFit, OrderRec
<1>3. \A i \in DOMAIN towers : towers[i] \in TowerRec
  BY DEF PlacesFit, TowerStands
<1>4. towerCount \in [Teams -> Nat]
  <2>1. \A t \in Teams : towerCount[t] \in Nat
    BY OwnFinite DEF TowersFit, CountersAgree
  <2> QED BY <2>1 DEF TowersFit
<1>5. walls \subseteq Cells /\ changed \in BOOLEAN /\ damage \in [Teams -> Nat]
  BY DEF PlacesFit
<1>6. /\ bred \in Nat /\ DOMAIN creeps \subseteq 0..bred - 1
      /\ active \in Nat /\ spawned \in Nat /\ spawnCount \in Nat
  <2>1. Cardinality(DOMAIN creeps) \in Nat
    BY LivingFinite
  <2> QED BY <2>1 DEF CreepsFit, CreepsCounted
<1>7. \A c \in DOMAIN creeps : creeps[c] \in CreepRec
  BY DEF WaysFit, OnItsWay
<1>8. noBuildZone \in BOOLEAN /\ noBuild \in RangeRec
  BY DEF RangesFit, RangeRec
<1>9. buildRange \in [Teams -> RangeRec]
  <2>1. \A a, b \in Int : [s |-> a, e |-> b] \in RangeRec
    BY DEF RangeRec
  <2>2. /\ [s |-> 0, e |-> noBuild.s] \in RangeRec
        /\ [s |-> noBuild.e, e |-> Rows - TowerRows] \in RangeRec
        /\ [s |-> 0, e |-> Rows - TowerRows] \in RangeRec
    BY <2>1, Constants DEF RangesFit
  <2>3. \A x, y \in RangeRec : <<x, y>> \in [Teams -> RangeRec]
    BY DEF Teams
  <2> QED BY <2>2, <2>3 DEF RangesFit
<1>10. creepRange \in [Teams -> RangeRec]
  <2>1. \A a, b \in Int : [s |-> a, e |-> b] \in RangeRec
    BY DEF RangeRec
  <2>2. \A x, y \in RangeRec : <<x, y>> \in [Teams -> RangeRec]
    BY DEF Teams
  <2> QED BY <2>1, <2>2 DEF SpawnRangesFit
<1>11. todo \subseteq CASE pc = "towers" -> DOMAIN towers
                        [] pc = "creeps" -> DOMAIN creeps
                        [] OTHER -> {}
  <2>1. CASE pc = "towers"
    BY <2>1 DEF TowersFit
  <2>2. CASE pc = "creeps"
    BY <2>2 DEF CreepsFit
  <2>3. CASE pc \notin {"towers", "creeps"}
    BY <2>3 DEF PlacesFit
  <2> QED BY <2>1, <2>2, <2>3
<1> QED BY <1>1, <1>2, <1>3, <1>4, <1>5, <1>6, <1>7, <1>8, <1>9, <1>10, <1>11 DEF TypeOK

LEMMA WaysFollow == WaysFit => NoCreepInTower /\ PathsLead
<1> SUFFICES ASSUME WaysFit, NEW c \in DOMAIN creeps
             PROVE  /\ \A i \in DOMAIN towers :
                         ~Overlap(CreepBox(creeps[c].cell), TowerBox(towers[i].pos))
                    /\ LET p == <<creeps[c].cell>> \o creeps[c].path
                       IN /\ Len(p) > 1 /\ Exit(Last(p))
                          /\ \A k \in 2..Len(p) : /\ City(p[k - 1], p[k]) = 1
                                                  /\ p[k] \notin Walls(towers)
  BY DEF NoCreepInTower, PathsLead
<1> DEFINE at == creeps[c].cell
           q == creeps[c].path
           p == <<at>> \o q
           ws == Walls(towers)
<1>1. at \in Cells /\ at \notin ws /\ Leads(ws, at, q)
  BY DEF WaysFit, OnItsWay, CreepRec
<1>2. \A i \in DOMAIN towers : ~Overlap(CreepBox(at), TowerBox(towers[i].pos))
  BY <1>1 DEF Walls
<1> HIDE DEF at, q, ws
<1>3. /\ q \in Seq(Cells) /\ q # <<>> /\ Exit(q[Len(q)])
      /\ \A k \in 1..Len(q) : City(Before(at, q, k), q[k]) = 1 /\ q[k] \notin ws
  BY <1>1 DEF Leads
<1>4. /\ Len(q) \in Nat \ {0} /\ p \in Seq(Cells) /\ Len(p) = Len(q) + 1
      /\ p[1] = at /\ \A k \in 2..Len(p) : p[k] = q[k - 1]
  BY <1>1, <1>3
<1> HIDE DEF p
<1>5. Len(p) > 1 /\ Exit(Last(p))
  BY <1>3, <1>4 DEF Last
<1>6. ASSUME NEW k \in 2..Len(p) PROVE City(p[k - 1], p[k]) = 1 /\ p[k] \notin ws
  <2>1. k - 1 \in 1..Len(q) /\ p[k] = q[k - 1]
    BY <1>4
  <2>2. p[k - 1] = Before(at, q, k - 1)
    <3>1. CASE k = 2
      BY <1>4, <3>1 DEF Before
    <3>2. CASE k # 2
      <4>1. k - 1 \in 2..Len(p) /\ k - 1 # 1
        BY <1>4, <3>2
      <4> QED BY <1>4, <4>1 DEF Before
    <3> QED BY <3>1, <3>2
  <2> QED BY <1>3, <2>1, <2>2
<1> QED BY <1>2, <1>5, <1>6 DEF p, q, at, ws

\* A creep is never in a tower and always has a path that leads out past the towers, from
\* cell to neighbouring cell: the search that made it finds a way wherever there is one,
\* going on with it keeps it, and a tower's death has all of them searched anew.  It holds
\* of every board on which the search looks from the first column to all of it (the
\* repository's 24 by 80 is one), as long as a creep far ahead has in sight what is left of
\* its path whenever it is searched anew (there: in columns 72 and 73, of the corners).
THEOREM CreepsAlwaysOnTheirWay ==
  ASSUME 2 * Cols + Rows <= Farthest PROVE Spec /\ []InSight => []CreepsOnTheirWay
<1> DEFINE Inv == Fit /\ SpawnRangesFit /\ WaysFit
<1>1. Init => Inv
  BY FitInit, SpawnRangesInit, WaysInit
<1>2. InSight /\ Inv /\ [Next]_vars => Inv'
  BY FitStep, SpawnRangesStep, WaysStep
<1>3. Inv => CreepsOnTheirWay
  BY TypesFollow, WaysFollow DEF CreepsOnTheirWay
<1> HIDE DEF Inv
<1> QED BY <1>1, <1>2, <1>3, PTL DEF Spec

\* On a board that is a little narrower (24 by 79) no cell is far ahead of anything, and the
\* creeps are on their way whatever happens.
THEOREM NarrowBoardsLeadOut ==
  ASSUME Rows + 3 * Cols <= Farthest + TowerCols + 2 PROVE Spec => []CreepsOnTheirWay
<1> DEFINE Inv == Fit /\ SpawnRangesFit /\ WaysFit
<1>1. 2 * Cols + Rows <= Farthest
  BY Constants
<1>2. Init => Inv
  BY FitInit, SpawnRangesInit, WaysInit
<1>3. Inv => InSight
  <2> SUFFICES ASSUME WaysFit, NEW c \in DOMAIN creeps PROVE ~FarAhead(creeps[c].cell)
    BY DEF InSight
  <2>1. creeps[c].cell[2] \in Int
    BY CellsFacts DEF WaysFit, OnItsWay, CreepRec
  <2> QED BY <2>1, Constants DEF FarAhead
<1>4. Inv /\ [Next]_vars => Inv'
  BY <1>1, <1>3, FitStep, SpawnRangesStep, WaysStep
<1>5. Inv => CreepsOnTheirWay
  BY TypesFollow, WaysFollow DEF CreepsOnTheirWay
<1> HIDE DEF Inv
<1> QED BY <1>2, <1>4, <1>5, PTL DEF Spec

\* A pair that is spawned gets paths that lead out, on every board on which the search can
\* look from the first column to all of it.
THEOREM SpawnedPathsLead ==
  ASSUME 2 * Cols + Rows <= Farthest
  PROVE  Spec => [][SpawnPair => \A c \in DOMAIN creeps' \ DOMAIN creeps :
                                   OnItsWay(creeps'[c], Walls(towers))]_vars
<1>1. Fit /\ [Next]_vars => [SpawnPair => \A c \in DOMAIN creeps' \ DOMAIN creeps :
                                            OnItsWay(creeps'[c], Walls(towers))]_vars
  <2> SUFFICES ASSUME Fit, SpawnPair, NEW c \in DOMAIN creeps' \ DOMAIN creeps
               PROVE  OnItsWay(creeps'[c], Walls(towers))
    OBVIOUS
  <2>1. PICK one, two \in 0..Rows - 1 :
          creeps' = Added(Added(creeps, bred, Spawned(1, one)), bred + 1, Spawned(2, two))
    BY DEF SpawnPair
  <2>2. pc = "tick" /\ BoardAgrees
    BY DEF SpawnPair, Fit, TowersFit
  <2>3. /\ OnItsWay(Spawned(1, one), Walls(towers))
        /\ OnItsWay(Spawned(2, two), Walls(towers))
    BY <2>2, SpawnedWays DEF Teams, Fit
  <2> QED BY <2>1, <2>3 DEF Added
<1> QED BY <1>1, FitInit, FitStep, PTL DEF Spec
=============================================================================
