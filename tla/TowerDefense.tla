---------------------------- MODULE TowerDefense ----------------------------
(***************************************************************************)
(* The tower-defense engine of vim-mate (src/main.zig, src/engine): one    *)
(* thread that runs the loop of main.  A frame that does not play takes a  *)
(* message; one that plays updates towers, creeps and projectiles in turn  *)
(* and spawns creeps.  pc is the place in that loop; todo, the objects     *)
(* its current for loop still has to visit.                                *)
(*                                                                         *)
(* A position is a cell.  Time is left out: a creep covers up to Stride    *)
(* cells in an update, a tower with a target may or may not fire, a        *)
(* projectile may or may not arrive, a tick may spawn any of the pairs     *)
(* that are left.  Statistics and drawing are left out.                    *)
(***************************************************************************)
EXTENDS Integers, Sequences, FiniteSets, FiniteSetsExt, SequencesExt, Bags

CONSTANTS Rows, Cols,            \* Values.rows, Values.cols
          Farthest,              \* the path search looks only at distances below it (255)
          TowerRows, TowerCols,  \* TOWER_ROW_COUNT, TOWER_COL_COUNT (3, 5)
          TowerRounds,           \* rounds until a side gets one tower more (4)
          TowerAmmo,             \* TowerValues.ammo (40)
          AmmoPerLevel,          \* TowerValues.ammoPerLevel (45)
          CreepLife,             \* CreepValues.life (2)
          LifeRounds,            \* CreepValues.scaleLifeRounds (3)
          Lists,                 \* lists of positions that a side may send
          Stride,                \* bound: cells that a creep covers in an update
          PlayedRounds, MaxRounds  \* bounds: rounds that are played, and placed for

Teams == {1, 2}
Spots == UNION {ToSet(l) : l \in Lists}

ASSUME TDAssumption ==
  /\ {TowerRows, TowerCols, TowerRounds, TowerAmmo, CreepLife, LifeRounds} \subseteq Nat \ {0}
  /\ {Rows, Cols, AmmoPerLevel, Stride, PlayedRounds, MaxRounds, Farthest} \subseteq Nat
  /\ Rows > 2 * TowerRows + 2 /\ Cols > 2 * TowerCols
  /\ Lists \subseteq Seq(Nat \X Nat) \ {<<>>}
-----------------------------------------------------------------------------
(* How a creep finds its way (creep.zig): a best-first search over the free cells of the board, from the
   creep's cell to the last column.  A cell is <<row, col>>. *)

Cells == (0..Rows - 1) \X (0..Cols - 1)
Index(c) == c[1] * Cols + c[2]

Abs(n) == IF n < 0 THEN -n ELSE n
City(a, b) == Abs(a[1] - b[1]) + Abs(a[2] - b[2])
\* Seeded bug: the next index is taken for the next column, in the next row too.
NeighboursByIndex(c) == {d \in Cells : Abs(Index(c) - Index(d)) \in {1, Cols}}

Neighbours(c) == {d \in Cells : City(c, d) = 1}

\* Has a creep in this cell left the board?
Exit(c) == c[2] = Cols - 1

\* walkAStar's estimate for a cell, seen from where the creep stands.
Distance(start, c) == 2 * (Cols - c[2]) + City(start, c)

\* walkAStar: the state of a search is the cell it is at, how each cell found was
\* reached, and the cells visited.  One turn reaches the free neighbours not found
\* before and goes on to the nearest cell found and not visited, the lowest index
\* first; it stops in the last column, or when nothing near enough is left.
Turn(walls, start, s) ==
  LET fresh == {c \in Neighbours(s.at) : c \notin walls /\ c \notin DOMAIN s.from}
      from == [c \in fresh \cup DOMAIN s.from |-> IF c \in fresh THEN s.at ELSE s.from[c]]
      open == {c \in DOMAIN from \ s.seen : Distance(start, c) < Farthest}
      near == {c \in open : \A d \in open : Distance(start, c) <= Distance(start, d)}
      at == CHOOSE c \in near : \A d \in near : Index(c) <= Index(d)
  IN IF open = {} THEN [s EXCEPT !.from = from, !.stuck = TRUE]
     ELSE [at |-> at, from |-> from, seen |-> s.seen \cup {at}, stuck |-> FALSE]

\* F(x), with x evaluated once and not wherever F uses it.
Once(x, F(_)) == CHOOSE r \in {F(y) : y \in {x}} : TRUE

Search(walls, start) ==
  LET next(s) == IF s.stuck \/ (s.at # start /\ Exit(s.at)) THEN s ELSE Turn(walls, start, s)
      s[n \in 0..Rows * Cols] ==
        IF n = 0
        THEN [at |-> start, from |-> [c \in {start} |-> start], seen |-> {start}, stuck |-> FALSE]
        ELSE Once(s[n - 1], next)
  IN s[Rows * Cols]

\* path: back from the last cell to the creep's own, which it leaves out.
Steps(from, last) ==
  LET back(q) == IF from[q.at] = q.at THEN q
                 ELSE [at |-> from[q.at], cells |-> <<q.at>> \o q.cells]
      p[n \in 0..Rows * Cols] ==
        IF n = 0 THEN [at |-> last, cells |-> <<>>] ELSE Once(p[n - 1], back)
  IN p[Rows * Cols].cells

\* calculatePath; nothing when the search finds no way, where the code calls never.
NoWay == <<>>
CalculatePath(walls, start) ==
  LET way(s) == IF s.stuck THEN NoWay ELSE Steps(s.from, s.at)
  IN Once(Search(walls, start), way)
-----------------------------------------------------------------------------
VARIABLES
  pc,           \* top, place, towers, creeps, projectiles, tick, done, failed
  todo,         \* what the loop at pc has not visited
  round, playing,
  owed,         \* oneAvailableTower, twoAvailableTower
  positions,    \* onePositions, twoPositions
  orders,       \* placements that the round message has still to make
  towers,       \* the living towers, by id
  built,        \* towers.items.len
  towerCount,   \* oneTowerCount, twoTowerCount
  walls,        \* board: the cells that are not free
  changed,      \* has boardChanged moved in this update?
  creeps,       \* the living creeps, by id
  bred,         \* creeps.items.len
  active,       \* activeCreepCount
  spawned, spawnCount,  \* of CreepSpawner
  shots,        \* the projectiles in flight, a bag
  damage,       \* oneCreepDamage, twoCreepDamage
  noBuildZone, noBuild, \* noBuild is noBuildRange
  creepRange,   \* oneCreepRange, twoCreepRange
  buildRange    \* oneNoBuildTowerRange, twoNoBuildTowerRange

msgVars == <<owed, positions, orders>>
towerVars == <<towers, built, towerCount>>
boardVars == <<walls, changed>>
creepVars == <<creeps, bred, active>>
spawnVars == <<spawned, spawnCount>>
zoneVars == <<noBuildZone, noBuild, creepRange, buildRange>>
vars == <<pc, todo, round, playing, msgVars, towerVars, boardVars, creepVars, spawnVars,
          shots, damage, zoneVars>>
-----------------------------------------------------------------------------
(* Boxes, ranges and numbers *)

Monus(a, b) == IF a > b THEN a - b ELSE 0
Lowest(S) == CHOOSE i \in S : \A j \in S : i <= j

\* A box is <<min, max>>, max excluded; overlaps of math.AABB.
TowerBox(p) == <<p, <<p[1] + TowerRows, p[2] + TowerCols>>>>
CreepBox(c) == <<c, <<c[1] + 1, c[2] + 1>>>>
Overlap(a, b) == \A k \in {1, 2} : a[1][k] < b[2][k] /\ b[1][k] < a[2][k]

InRange(r, row) == r.s <= row /\ row < r.e
RangeLen(r) == Monus(r.e, r.s)

\* firingRangeAABB: one cell around the tower, and more with its level.
Reach(t) ==
  LET g == 1 + Cardinality({l \in {3, 5, 7} : t.level >= l}) + (IF t.level = 9 THEN 2 ELSE 0)
  IN <<<<t.pos[1] - g, t.pos[2] - g>>,
       <<t.pos[1] + TowerRows + g, t.pos[2] + TowerCols + g>>>>

Damage(t) == (IF t.level >= 5 THEN 2 ELSE 1) * (IF t.level = 9 THEN 3 ELSE 1)

\* Seeded bug: no tower until TowerRounds have been played.
TowerCountLate(r) == r \div TowerRounds

TowerCount(r) == 1 + (r \div TowerRounds)
SpawnCount(r) == (r * r * 75) \div 10000 + r

OwnTowers(t) == {i \in DOMAIN towers : towers[i].team = t}

\* Seeded bug: the first tower is left out of the board.
WallsButFirst(ts) ==
  {c \in Cells : \E i \in DOMAIN ts \ {0} : Overlap(CreepBox(c), TowerBox(ts[i].pos))}

\* updateBoard.
Walls(ts) == {c \in Cells : \E i \in DOMAIN ts : Overlap(CreepBox(c), TowerBox(ts[i].pos))}

\* calculatePath for every living creep.
Rerouted(cs, ws) == [i \in DOMAIN cs |-> [cs[i] EXCEPT !.path = CalculatePath(ws, cs[i].cell)]]

Added(f, i, v) == [j \in DOMAIN f \cup {i} |-> IF j = i THEN v ELSE f[j]]
Removed(f, i) == [j \in DOMAIN f \ {i} |-> f[j]]
-----------------------------------------------------------------------------
(* GameState.init and init *)

Init ==
  LET one == [s |-> 0, e |-> TowerRows + 1]
      two == [s |-> Rows - TowerRows - 1, e |-> Rows]
  IN /\ pc = "top" /\ todo = {}
     /\ round = 1 /\ playing = FALSE
     /\ owed = [t \in Teams |-> TowerCount(1)]
     /\ positions = [t \in Teams |-> <<>>] /\ orders = <<>>
     /\ towers = <<>> /\ built = 0 /\ towerCount = [t \in Teams |-> 0]
     /\ walls = {} /\ changed = FALSE
     /\ creeps = <<>> /\ bred = 0 /\ active = 0
     /\ spawned = 0 /\ spawnCount = 0
     /\ shots = EmptyBag /\ damage = [t \in Teams |-> 1]
     /\ noBuildZone = TRUE /\ noBuild = [s |-> one.e, e |-> two.s]
     /\ creepRange = <<one, two>>
     /\ buildRange = <<one, [two EXCEPT !.e = Rows - TowerRows]>>

Completed == ~noBuildZone /\ \E t \in Teams : towerCount[t] = 0
-----------------------------------------------------------------------------
(* Messages, taken only by a frame that does not play *)

Idle == pc = "top" /\ ~playing /\ ~Completed

\* message: the positions of one side; the last list counts.
Positions == /\ Idle
             /\ \E t \in Teams, l \in Lists : positions' = [positions EXCEPT ![t] = l]
             /\ UNCHANGED <<pc, todo, round, playing, owed, orders, towerVars, boardVars,
                            creepVars, spawnVars, shots, damage, zoneVars>>

\* What the round message places for a side: the list, then its first entry again.
Order(t, list) ==
  [i \in 1..owed[t] |-> [team |-> t, pos |-> IF i <= Len(list) THEN list[i] ELSE list[1]]]

\* message: the round message.  A side that has sent nothing has an undefined list; in
\* the first round it may pass for any, later its team is 0.
Round ==
  /\ Idle /\ round <= MaxRounds
  /\ \E list \in [Teams -> Lists] :
       /\ \A t \in Teams : IF positions[t] = <<>> THEN round = 1 ELSE list[t] = positions[t]
       /\ orders' = Order(1, list[1]) \o Order(2, list[2])
  /\ positions' = [t \in Teams |-> <<>>]
  /\ owed' = [t \in Teams |-> 0]
  /\ pc' = "place"
  /\ UNCHANGED <<todo, round, playing, towerVars, boardVars, creepVars, spawnVars, shots,
                 damage, zoneVars>>

\* The same without positions: an assertion ends the process.
RoundUndefined ==
  /\ Idle /\ round <= MaxRounds
  /\ \E t \in Teams : positions[t] = <<>>
  /\ pc' = "failed"
  /\ UNCHANGED <<todo, round, playing, msgVars, towerVars, boardVars, creepVars, spawnVars,
                 shots, damage, zoneVars>>
-----------------------------------------------------------------------------
(* place: upgrade an own tower, hurt the enemy's, or build *)

\* towerByAABB, and whose tower it is.
Hit(p) == {i \in DOMAIN towers : Overlap(TowerBox(towers[i].pos), TowerBox(p))}
Holder(o) == IF Hit(o.pos) = {} THEN "none"
             ELSE IF towers[Lowest(Hit(o.pos))].team = o.team THEN "own" ELSE "enemy"

InBuildRange(t, p) == buildRange[t].s <= p[1] /\ buildRange[t].e >= p[1] + TowerRows

CanPlaceTower(t, p) ==
  /\ noBuildZone => InRange(buildRange[t], p[1])
  /\ 0 < p[2] /\ p[2] < Cols - TowerCols
  /\ p[1] < Rows - TowerRows

\* Seeded bug: the column just past the last one that a tower fits before.
RandomSpotsPast(t) == {p \in Cells : /\ InRange(buildRange[t], p[1])
                                     /\ TowerCols <= p[2] /\ p[2] <= Cols - TowerCols}

\* positionInRange.
RandomSpots(t) == {p \in Cells : /\ InRange(buildRange[t], p[1])
                                 /\ TowerCols <= p[2] /\ p[2] < Cols - TowerCols}

Upgraded(t) == LET level == IF t.level < 9 THEN t.level + 1 ELSE t.level
               IN [team |-> t.team, pos |-> t.pos, level |-> level,
                   ammo |-> TowerAmmo + (level - 1) * AmmoPerLevel]

Placing == pc = "place" /\ orders # <<>>
PlaceUnchanged == UNCHANGED <<pc, todo, round, playing, owed, positions, changed, bred, active,
                              spawnVars, shots, damage, zoneVars>>

Upgrade ==
  /\ Placing /\ orders' = Tail(orders)
  /\ LET o == Head(orders) IN
     /\ Holder(o) = "own"
     /\ towers' = [towers EXCEPT ![Lowest(Hit(o.pos))] = Upgraded(@)]
  /\ UNCHANGED <<built, towerCount, walls, creeps>> /\ PlaceUnchanged

Hurt ==
  /\ Placing /\ orders' = Tail(orders)
  /\ LET o == Head(orders) IN
     /\ Holder(o) = "enemy" /\ InBuildRange(o.team, o.pos)
     /\ towers' = [towers EXCEPT ![Lowest(Hit(o.pos))].ammo = Monus(@, TowerAmmo)]
  /\ UNCHANGED <<built, towerCount, walls, creeps>> /\ PlaceUnchanged

\* placeTower, at the position asked for or else at a random one of the side's range.
Build ==
  /\ Placing /\ orders' = Tail(orders)
  /\ LET o == Head(orders) IN
     /\ Holder(o) = "none" \/ (Holder(o) = "enemy" /\ ~InBuildRange(o.team, o.pos))
     /\ \E p \in IF CanPlaceTower(o.team, o.pos) THEN {o.pos} ELSE RandomSpots(o.team) :
          /\ CanPlaceTower(o.team, p)
          /\ towers' = Added(towers, built, [team |-> o.team, pos |-> p, level |-> 1,
                                             ammo |-> TowerAmmo])
     /\ towerCount' = [towerCount EXCEPT ![o.team] = @ + 1]
  /\ built' = built + 1
  /\ walls' = Walls(towers') /\ creeps' = Rerouted(creeps, walls')
  /\ PlaceUnchanged
-----------------------------------------------------------------------------
(* Rounds *)

\* Seeded bug: one creep is counted where the spawner makes a pair.
StartRoundSingle ==
  /\ pc = "place" /\ orders = <<>> /\ round <= PlayedRounds
  /\ pc' = "top" /\ playing' = TRUE
  /\ spawnCount' = SpawnCount(round) /\ spawned' = 0
  /\ active' = spawnCount'
  /\ UNCHANGED <<todo, round, msgVars, towerVars, boardVars, creeps, bred, shots, damage,
                 zoneVars>>

\* The frame of the round message goes on to start the round.
StartRound ==
  /\ pc = "place" /\ orders = <<>> /\ round <= PlayedRounds
  /\ pc' = "top" /\ playing' = TRUE
  /\ spawnCount' = SpawnCount(round) /\ spawned' = 0
  /\ active' = 2 * spawnCount'
  /\ UNCHANGED <<todo, round, msgVars, towerVars, boardVars, creeps, bred, shots, damage,
                 zoneVars>>

Grown(r, one, two) == <<[r[1] EXCEPT !.e = @ + one], [r[2] EXCEPT !.s = @ - two]>>

EndRound ==
  /\ pc = "top" /\ playing /\ active = 0 /\ ~Completed
  /\ playing' = FALSE /\ round' = round + 1
  /\ owed' = [t \in Teams |-> TowerCount(round')]
  /\ LET n == IF noBuildZone THEN 1 ELSE 0
         whole == [s |-> 0, e |-> Rows - TowerRows]
     IN /\ noBuild' = [s |-> noBuild.s + n, e |-> noBuild.e - n]
        /\ creepRange' = Grown(creepRange, n, n)
        /\ noBuildZone' = (noBuildZone /\ RangeLen(noBuild') # 0)
        /\ buildRange' = IF RangeLen(noBuild') = 0 THEN [t \in Teams |-> whole]
                         ELSE Grown(buildRange, n, n)
  /\ UNCHANGED <<pc, todo, positions, orders, towerVars, boardVars, creepVars, spawnVars,
                 shots, damage>>

\* The loop of main ends.
Finish == /\ pc = "top" /\ Completed
          /\ pc' = "done"
          /\ UNCHANGED <<todo, round, playing, msgVars, towerVars, boardVars, creepVars,
                         spawnVars, shots, damage, zoneVars>>
-----------------------------------------------------------------------------
(* A frame that plays: the towers, in the order of their ids *)

BeginUpdate ==
  /\ pc = "top" /\ playing /\ active > 0 /\ ~Completed
  /\ pc' = "towers" /\ todo' = DOMAIN towers
  /\ UNCHANGED <<round, playing, msgVars, towerVars, boardVars, creepVars, spawnVars, shots,
                 damage, zoneVars>>

\* creepWithinRange: of the side's creeps in range, the one closest to the exit.  Which one
\* that is hangs on where in their cells the creeps are, so it may be any of them.  Only
\* when there is none, towerWithinRange: the first of the weakest enemy towers.
CreepsInReach(i) ==
  LET r == Reach(towers[i])
  IN {c \in DOMAIN creeps : /\ creeps[c].team = towers[i].team
                            /\ \A k \in {1, 2} : /\ r[1][k] <= creeps[c].cell[k]
                                                 /\ creeps[c].cell[k] < r[2][k]}
TowersInReach(i) ==
  {j \in DOMAIN towers : /\ towers[j].team # towers[i].team
                         /\ Overlap(Reach(towers[i]), TowerBox(towers[j].pos))}

Targets(i) ==
  LET cs == CreepsInReach(i)
      ts == TowersInReach(i)
      weak == {j \in ts : \A k \in ts : towers[j].ammo <= towers[k].ammo}
  IN IF cs # {} THEN {[kind |-> "creep", id |-> c] : c \in cs}
     ELSE IF ts # {} THEN {[kind |-> "tower", id |-> Lowest(weak)]} ELSE {}

TowerTurn(i) == pc = "towers" /\ todo # {} /\ i = Lowest(todo) /\ todo' = todo \ {i}
TowerUnchanged == UNCHANGED <<pc, round, playing, msgVars, built, walls, creepVars, spawnVars,
                              damage, zoneVars>>

\* Seeded bug: only the first side's towers are counted out.
TowerDiesUncounted(i) ==
  /\ TowerTurn(i) /\ towers[i].ammo = 0
  /\ towers' = Removed(towers, i)
  /\ towerCount' = [towerCount EXCEPT ![1] = IF towers[i].team = 1 THEN @ - 1 ELSE @]
  /\ changed' = TRUE
  /\ UNCHANGED shots /\ TowerUnchanged

\* Seeded bug: a tower's death does not move boardChanged.
TowerDiesQuietly(i) ==
  /\ TowerTurn(i) /\ towers[i].ammo = 0
  /\ towers' = Removed(towers, i)
  /\ towerCount' = [towerCount EXCEPT ![towers[i].team] = @ - 1]
  /\ UNCHANGED <<changed, shots>> /\ TowerUnchanged

\* kill, then towerDied.
TowerDies(i) ==
  /\ TowerTurn(i) /\ towers[i].ammo = 0
  /\ towers' = Removed(towers, i)
  /\ towerCount' = [towerCount EXCEPT ![towers[i].team] = @ - 1]
  /\ changed' = TRUE
  /\ UNCHANGED shots /\ TowerUnchanged

\* No target, or not the time to fire.
TowerRests(i) ==
  /\ TowerTurn(i) /\ towers[i].ammo > 0
  /\ UNCHANGED <<towers, towerCount, changed, shots>> /\ TowerUnchanged

TowerFires(i) ==
  /\ TowerTurn(i) /\ towers[i].ammo > 0
  /\ \E t \in Targets(i) :
       shots' = shots (+) SetToBag({[target |-> t, damage |-> Damage(towers[i])]})
  /\ towers' = [towers EXCEPT ![i].ammo = @ - 1]
  /\ UNCHANGED <<towerCount, changed>> /\ TowerUnchanged

EndTowers ==
  /\ pc = "towers" /\ todo = {}
  /\ pc' = "creeps" /\ todo' = DOMAIN creeps
  /\ UNCHANGED <<round, playing, msgVars, towerVars, boardVars, creepVars, spawnVars, shots,
                 damage, zoneVars>>
-----------------------------------------------------------------------------
(* The creeps *)

CreepTurn(c) == pc = "creeps" /\ todo # {} /\ c = Lowest(todo) /\ todo' = todo \ {c}
CreepUnchanged == UNCHANGED <<pc, round, playing, msgVars, built, towerCount, boardVars, bred,
                              spawnVars, shots, zoneVars>>

\* Where a creep is after n cells of its path.
Walked(cr, n) ==
  [cr EXCEPT !.cell = IF n = 0 THEN @ ELSE cr.path[n],
             !.path = SubSeq(@, n + 1, Len(@))]

\* A creep without life is killed before it moves.
CreepDies(c) ==
  /\ CreepTurn(c) /\ creeps[c].life = 0
  /\ creeps' = Removed(creeps, c) /\ active' = active - 1
  /\ UNCHANGED <<towers, damage>> /\ CreepUnchanged

CreepWalks(c) ==
  /\ CreepTurn(c) /\ creeps[c].life > 0
  /\ \E n \in 0..Stride :
       /\ n < Len(creeps[c].path)
       /\ creeps' = [creeps EXCEPT ![c] = Walked(@, n)]
  /\ UNCHANGED <<active, towers, damage>> /\ CreepUnchanged

\* Seeded bug: the cell before the exit counts, the exit does not.
ReachesExitLate(c) == Len(creeps[c].path) < Stride

\* Can the creep cover what is left of its path?
ReachesExit(c) == Len(creeps[c].path) <= Stride

\* A creep that gets to the exit is killed and takes ammo from its side's towers.
CreepArrives(c) ==
  LET t == creeps[c].team IN
  /\ CreepTurn(c) /\ creeps[c].life > 0
  /\ ReachesExit(c)
  /\ creeps' = Removed(creeps, c) /\ active' = active - 1
  /\ towers' = [i \in DOMAIN towers |->
                  IF towers[i].team = t
                  THEN [towers[i] EXCEPT !.ammo = Monus(@, damage[t])] ELSE towers[i]]
  /\ damage' = [damage EXCEPT ![t] = @ + 1]
  /\ CreepUnchanged

EndCreeps ==
  /\ pc = "creeps" /\ todo = {}
  /\ pc' = "projectiles"
  /\ UNCHANGED <<todo, round, playing, msgVars, towerVars, boardVars, creepVars, spawnVars,
                 shots, damage, zoneVars>>
-----------------------------------------------------------------------------
(* The projectiles, the board, and the spawner *)

Alive(target) == target.id \in IF target.kind = "creep" THEN DOMAIN creeps ELSE DOMAIN towers

Struck(landed, kind, id) ==
  MapThenSumSet(LAMBDA s : s.damage * landed[s],
                {s \in BagToSet(landed) : s.target = [kind |-> kind, id |-> id]})

\* projectiles.update for all of them: those whose target is dead end, any others may
\* arrive.  Then, if a tower has died, the board and the paths are made anew.
Strike ==
  /\ pc = "projectiles" /\ pc' = "tick"
  /\ \E landed \in [BagToSet(shots) -> UNION {0..shots[s] : s \in BagToSet(shots)}] :
       /\ \A s \in BagToSet(shots) : /\ landed[s] <= shots[s]
                                     /\ ~Alive(s.target) => landed[s] = shots[s]
       /\ shots' = shots (-) landed
       /\ towers' = [i \in DOMAIN towers |->
                       [towers[i] EXCEPT !.ammo = Monus(@, Struck(landed, "tower", i))]]
       /\ LET hit == [c \in DOMAIN creeps |->
                        [creeps[c] EXCEPT !.life = Monus(@, Struck(landed, "creep", c))]]
          IN IF changed THEN walls' = Walls(towers) /\ creeps' = Rerouted(hit, walls')
             ELSE creeps' = hit /\ UNCHANGED walls
  /\ changed' = FALSE
  /\ UNCHANGED <<todo, round, playing, msgVars, built, towerCount, bred, active, spawnVars,
                 damage, zoneVars>>

Spawned(t, row) ==
  [team |-> t, cell |-> <<row, 0>>, path |-> CalculatePath(walls, <<row, 0>>),
   life |-> CreepLife + (round \div LifeRounds)]

\* One turn of the loop of tick: a creep for each side.
SpawnPair ==
  /\ pc = "tick" /\ spawned < spawnCount
  /\ \E one, two \in 0..Rows - 1 :
       /\ InRange(creepRange[1], one) /\ InRange(creepRange[2], two)
       /\ creeps' = Added(Added(creeps, bred, Spawned(1, one)), bred + 1, Spawned(2, two))
  /\ bred' = bred + 2 /\ spawned' = spawned + 1
  /\ UNCHANGED <<pc, todo, round, playing, msgVars, towerVars, boardVars, active, spawnCount,
                 shots, damage, zoneVars>>

\* The first tick spawns at least one pair.  A frame may hold several updates.
EndTick ==
  /\ pc = "tick" /\ spawned > 0
  /\ \/ pc' = "top" /\ UNCHANGED todo
     \/ pc' = "towers" /\ todo' = DOMAIN towers
  /\ UNCHANGED <<round, playing, msgVars, towerVars, boardVars, creepVars, spawnVars, shots,
                 damage, zoneVars>>
-----------------------------------------------------------------------------
(* The engine *)

Message == Positions \/ Round \/ RoundUndefined
Place == Upgrade \/ Hurt \/ Build
Towers == \E i \in todo : TowerDies(i) \/ TowerRests(i) \/ TowerFires(i)
Creeps == \E c \in todo : CreepDies(c) \/ CreepWalks(c) \/ CreepArrives(c)
Frame == BeginUpdate \/ Towers \/ EndTowers \/ Creeps \/ EndCreeps \/ Strike
         \/ SpawnPair \/ EndTick \/ EndRound \/ Finish

Next == Message \/ Place \/ StartRound \/ Frame

\* The thread runs.  And time passes: an update comes in which some creep has covered a
\* cell, a tick comes that spawns, a frame ends.
Advance == \E c \in todo : \/ CreepWalks(c) /\ creeps'[c].cell # creeps[c].cell
                          \/ CreepArrives(c)
EndFrame == EndTick /\ pc' = "top"
Fairness == /\ WF_vars(Place \/ StartRound \/ Frame)
            /\ SF_vars(Advance) /\ SF_vars(SpawnPair) /\ SF_vars(EndFrame)

Spec == Init /\ [][Next]_vars /\ Fairness
-----------------------------------------------------------------------------
(* Properties *)

TowerRec == [team : Teams, pos : Nat \X Nat, level : 1..9, ammo : Nat]
CreepRec == [team : Teams, cell : Cells, path : Seq(Cells), life : Nat]
RangeRec == [s : Int, e : Int]

TypeOK ==
  /\ pc \in {"top", "place", "towers", "creeps", "projectiles", "tick", "done", "failed"}
  /\ round \in Nat \ {0} /\ playing \in BOOLEAN
  /\ owed \in [Teams -> Nat]
  /\ positions \in [Teams -> Lists \cup {<<>>}]
  /\ orders \in Seq([team : Teams, pos : Nat \X Nat])
  /\ built \in Nat /\ DOMAIN towers \subseteq 0..built - 1
  /\ \A i \in DOMAIN towers : towers[i] \in TowerRec
  /\ towerCount \in [Teams -> Nat]
  /\ walls \subseteq Cells /\ changed \in BOOLEAN
  /\ bred \in Nat /\ DOMAIN creeps \subseteq 0..bred - 1
  /\ \A c \in DOMAIN creeps : creeps[c] \in CreepRec
  /\ active \in Nat /\ spawned \in Nat /\ spawnCount \in Nat
  /\ damage \in [Teams -> Nat]
  /\ noBuildZone \in BOOLEAN /\ noBuild \in RangeRec
  /\ creepRange \in [Teams -> RangeRec] /\ buildRange \in [Teams -> RangeRec]
  /\ todo \subseteq CASE pc = "towers" -> DOMAIN towers
                      [] pc = "creeps" -> DOMAIN creeps
                      [] OTHER -> {}

\* validateState: each side's tower count is the number of its living towers, through
\* placement, creeps at the exit, and deaths in the middle of an update.
CountersAgree == \A t \in Teams : towerCount[t] = Cardinality(OwnTowers(t))

\* The round ends on activeCreepCount alone: it must be the living creeps and those that
\* are still to be spawned, so that creepKilled never takes it below zero and endRound
\* finds no creep left behind.
CreepsCounted == active = Cardinality(DOMAIN creeps) + 2 * (spawnCount - spawned)

\* Both counters by which games and rounds end are right.
CountersHold == CountersAgree /\ CreepsCounted

\* validateState: no living creep is within a living tower, though towers may overlap and
\* creeps keep the path they were given until a tower dies.
NoCreepInTower ==
  \A c \in DOMAIN creeps, i \in DOMAIN towers :
    ~Overlap(CreepBox(creeps[c].cell), TowerBox(towers[i].pos))

\* A creep always has a way to the exit: its path goes from cell to neighbouring cell, over
\* cells without a tower, to the last column (creep.zig: "unable to move creep forward").
PathsLead ==
  \A c \in DOMAIN creeps :
    LET p == <<creeps[c].cell>> \o creeps[c].path
    IN /\ Len(p) > 1 /\ Exit(Last(p))
       /\ \A k \in 2..Len(p) : City(p[k - 1], p[k]) = 1 /\ p[k] \notin Walls(towers)

\* Creeps are on the board, outside of towers, and on a way out.
CreepsOnTheirWay == TypeOK /\ NoCreepInTower /\ PathsLead

\* The board that paths are made from shows the living towers, except in the update in
\* which one has died.
BoardAgrees == changed \/ walls = Walls(towers)

\* place tries random positions until one can be built on: from every range that the
\* rounds go through, any of them can.
RandomSpotsServe == \A t \in Teams : /\ RandomSpots(t) # {}
                                     /\ \A p \in RandomSpots(t) : CanPlaceTower(t, p)

\* The board serves paths and places.
BoardServes == BoardAgrees /\ RandomSpotsServe

\* To the program that plays, the engine keeps the promise of TDRounds.
stage == CASE pc = "done" -> "finished" [] pc = "failed" -> "failed"
           [] OTHER -> IF playing THEN "playing" ELSE "waiting"
Rounds == INSTANCE TDRounds WITH owed <- \E t \in Teams : owed[t] > 0
KeepsRounds == Rounds!Spec

\* A round that has started ends: every creep is spawned and reaches the exit or dies.
RoundsEnd == playing ~> (~playing \/ pc = "done")
=============================================================================
