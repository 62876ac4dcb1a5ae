--------------------------- MODULE GameServerProofs ---------------------------
(***************************************************************************)
(* Safety of the game-server runner for every finite set of clients: the   *)
(* types, CountsAgree and ClosesEmpty of GameServer.tla, and that the      *)
(* runner implements ServerRow.tla.                                        *)
(***************************************************************************)
EXTENDS GameServer, FiniteSetTheorems, TLAPS

USE GSAssumption, MaxLoadAssumption

\* g.mutex is held by the client that is half way through incConnections, and
\* by nobody else; the counters are off by its other half.
MutexInv ==
  /\ \A c \in Clients : cl[c] \in {"inc", "dec"} <=> mutex = c
  /\ mutex = Free => conns + removed = added
  /\ \A c \in Clients : /\ cl[c] = "inc" => conns + removed = added + 1
                        /\ cl[c] = "dec" => conns + removed + 1 = added

\* Where Run is once its context is done, and when its state is closed.
LoopInv ==
  /\ ctxDone /\ ~interrupted => st = "closed"
  /\ pc \in {"closing", "final", "returned", "exited"} => ctxDone
  /\ pc \in {"none", "main"} /\ ctxDone => interrupted
  /\ pc = "ready" => st # "closed"
  /\ st = "closed" => ctxDone

IInv == TypeOK /\ MutexInv /\ LoopInv /\ CountsAgree /\ ClosesEmpty
-----------------------------------------------------------------------------
LEMMA InitIInv == Init => IInv
<1> SUFFICES ASSUME Init PROVE IInv
  OBVIOUS
<1>1. Counted = {}
  BY DEF Init, Counted
<1>2. NoStats \in StatsRecord
  BY DEF NoStats, StatsRecord, RowState
<1>3. TypeOK
  BY <1>2 DEF Init, TypeOK, Label, ClientState, Crash, RowState
<1>4. CountsAgree
  BY <1>1, FS_EmptySet DEF Init, CountsAgree
<1>5. MutexInv /\ LoopInv /\ ClosesEmpty
  BY DEF Init, MutexInv, LoopInv, ClosesEmpty
<1> QED
  BY <1>3, <1>4, <1>5 DEF IInv

\* The clients counted are finitely many, so their number is a number.
LEMMA CountedFinite == IsFiniteSet(Counted) /\ Cardinality(Counted) \in Nat
  BY FS_Subset, FS_CardinalityType DEF Counted

\* A copy of the counters is a row, whatever state is put in it.
LEMMA StatsType ==
  ASSUME TypeOK, NEW s \in RowState
  PROVE  [Stats EXCEPT !.state = s] \in StatsRecord
  BY DEF TypeOK, Stats, StatsRecord

\* The plain copy of the counters, and what becomes of the updater's variables.
LEMMA StatsPlain == TypeOK => Stats \in StatsRecord
  BY DEF TypeOK, Stats, StatsRecord

UpdType == [pc : {"off", "start", "began", "tick", "copy", "write"}, prev : StatsRecord,
            next : StatsRecord, wrote : BOOLEAN]

\* Writing a row keeps row and crash in their types.
LEMMA UpdateType ==
  ASSUME TypeOK, NEW r \in StatsRecord, Update(r)
  PROVE  row' \in StatsRecord /\ crash' \in Crash
  BY DEF Update, TypeOK, Crash

LEMMA MutexStep == TypeOK /\ MutexInv /\ [Next]_vars => MutexInv'
<1> SUFFICES ASSUME TypeOK, MutexInv, [Next]_vars PROVE MutexInv'
  OBVIOUS
<1> USE DEF TypeOK, MutexInv, stats, env
<1>1. CASE Main
  BY <1>1 DEF Main
<1>2. CASE Start
  <2>1. UNCHANGED <<conns, added, removed, mutex, cl>>
    BY <1>2 DEF Start
  <2> QED
    BY <2>1
<1>3. CASE Timer
  BY <1>3 DEF Timer
<1>4. CASE Ready
  BY <1>4 DEF Ready
<1>5. CASE LeaveLoop
  BY <1>5 DEF LeaveLoop
<1>6. CASE Final
  BY <1>6 DEF Final
<1>7. CASE Exit
  BY <1>7 DEF Exit
<1>8a. CASE StatStart
  BY <1>8a DEF StatStart
<1>8. CASE StatTick
  BY <1>8 DEF StatTick
<1>9. CASE StatCopy
  BY <1>9 DEF StatCopy
<1>10. CASE StatWrite
  BY <1>10 DEF StatWrite
<1>11. CASE StatStop
  BY <1>11 DEF StatStop
<1>12. CASE Interrupt
  BY <1>12 DEF Interrupt
<1>13. CASE CloseDB
  BY <1>13 DEF CloseDB
<1>14. ASSUME NEW c \in Clients, Dial(c) PROVE MutexInv'
  BY <1>14 DEF Dial
<1>15. ASSUME NEW c \in Clients, Accept(c) PROVE MutexInv'
  BY <1>15 DEF Accept
<1>16. ASSUME NEW c \in Clients, IncConnections(c) PROVE MutexInv'
  BY <1>16 DEF IncConnections
<1>17. ASSUME NEW c \in Clients, Return(c) PROVE MutexInv'
  BY <1>17 DEF Return
<1>18. ASSUME NEW c \in Clients, Drop(c) PROVE MutexInv'
  BY <1>18 DEF Drop
<1>19. ASSUME NEW c \in Clients, DecConnections(c) PROVE MutexInv'
  BY <1>19 DEF DecConnections
<1>20. CASE UNCHANGED vars
  BY <1>20 DEF vars
<1> QED
  BY <1>1, <1>2, <1>3, <1>4, <1>5, <1>6, <1>7, <1>8, <1>8a, <1>9, <1>10,
     <1>11, <1>12, <1>13, <1>14, <1>15, <1>16, <1>17, <1>18, <1>19, <1>20
  DEF Next, RunStep, StatStep, ClientStep

LEMMA LoopStep == TypeOK /\ LoopInv /\ [Next]_vars => LoopInv'
<1> SUFFICES ASSUME TypeOK, LoopInv, [Next]_vars PROVE LoopInv'
  OBVIOUS
<1> USE DEF TypeOK, LoopInv, stats, env
<1>1. CASE Main
  BY <1>1 DEF Main
<1>2. CASE Start
  BY <1>2 DEF Start
<1>3. CASE Timer
  BY <1>3 DEF Timer
<1>4. CASE Ready
  BY <1>4 DEF Ready
<1>5. CASE LeaveLoop
  BY <1>5 DEF LeaveLoop
<1>6. CASE Final
  BY <1>6 DEF Final
<1>7. CASE Exit
  BY <1>7 DEF Exit
<1>8a. CASE StatStart
  BY <1>8a DEF StatStart
<1>8. CASE StatTick
  BY <1>8 DEF StatTick
<1>9. CASE StatCopy
  BY <1>9 DEF StatCopy
<1>10. CASE StatWrite
  BY <1>10 DEF StatWrite
<1>11. CASE StatStop
  BY <1>11 DEF StatStop
<1>12. CASE Interrupt
  BY <1>12 DEF Interrupt
<1>13. CASE CloseDB
  BY <1>13 DEF CloseDB
<1>14. ASSUME NEW c \in Clients, Dial(c) PROVE LoopInv'
  BY <1>14 DEF Dial
<1>15. ASSUME NEW c \in Clients, Accept(c) PROVE LoopInv'
  BY <1>15 DEF Accept
<1>16. ASSUME NEW c \in Clients, IncConnections(c) PROVE LoopInv'
  BY <1>16 DEF IncConnections
<1>17. ASSUME NEW c \in Clients, Return(c) PROVE LoopInv'
  BY <1>17 DEF Return
<1>18. ASSUME NEW c \in Clients, Drop(c) PROVE LoopInv'
  BY <1>18 DEF Drop
<1>19. ASSUME NEW c \in Clients, DecConnections(c) PROVE LoopInv'
  BY <1>19 DEF DecConnections
<1>20. CASE UNCHANGED vars
  BY <1>20 DEF vars
<1> QED
  BY <1>1, <1>2, <1>3, <1>4, <1>5, <1>6, <1>7, <1>8, <1>8a, <1>9, <1>10,
     <1>11, <1>12, <1>13, <1>14, <1>15, <1>16, <1>17, <1>18, <1>19, <1>20
  DEF Next, RunStep, StatStep, ClientStep

\* Counted changes in the first half of incConnections only.
LEMMA CountedStep ==
  ASSUME TypeOK, [Next]_vars
  PROVE  \/ Counted' = Counted /\ UNCHANGED conns
         \/ \E c \in Clients \ Counted : Counted' = Counted \cup {c} /\ conns' = conns + 1
         \/ \E c \in Counted : Counted' = Counted \ {c} /\ conns' = conns - 1
<1> DEFINE Goal == \/ Counted' = Counted /\ UNCHANGED conns
                   \/ \E c \in Clients \ Counted : Counted' = Counted \cup {c} /\ conns' = conns + 1
                   \/ \E c \in Counted : Counted' = Counted \ {c} /\ conns' = conns - 1
<1> SUFFICES Goal
  OBVIOUS
<1> USE DEF TypeOK, Counted, stats, env
<1>1. CASE Main
  BY <1>1 DEF Main
<1>2. CASE Start
  BY <1>2 DEF Start
<1>3. CASE Timer
  BY <1>3 DEF Timer
<1>4. CASE Ready
  BY <1>4 DEF Ready
<1>5. CASE LeaveLoop
  BY <1>5 DEF LeaveLoop
<1>6. CASE Final
  BY <1>6 DEF Final
<1>7. CASE Exit
  BY <1>7 DEF Exit
<1>8a. CASE StatStart
  BY <1>8a DEF StatStart
<1>8. CASE StatTick
  BY <1>8 DEF StatTick
<1>9. CASE StatCopy
  BY <1>9 DEF StatCopy
<1>10. CASE StatWrite
  BY <1>10 DEF StatWrite
<1>11. CASE StatStop
  BY <1>11 DEF StatStop
<1>12. CASE Interrupt
  BY <1>12 DEF Interrupt
<1>13. CASE CloseDB
  BY <1>13 DEF CloseDB
<1>14. ASSUME NEW c \in Clients, Dial(c) PROVE Goal
  BY <1>14 DEF Dial
<1>15. ASSUME NEW c \in Clients, Accept(c) PROVE Goal
  BY <1>15 DEF Accept
<1>16. ASSUME NEW c \in Clients, IncConnections(c) PROVE Goal
  BY <1>16 DEF IncConnections
<1>17. ASSUME NEW c \in Clients, Return(c) PROVE Goal
  BY <1>17 DEF Return
<1>18. ASSUME NEW c \in Clients, Drop(c) PROVE Goal
  BY <1>18 DEF Drop
<1>19. ASSUME NEW c \in Clients, DecConnections(c) PROVE Goal
  BY <1>19 DEF DecConnections
<1>20. CASE UNCHANGED vars
  BY <1>20 DEF vars
<1> QED
  BY <1>1, <1>2, <1>3, <1>4, <1>5, <1>6, <1>7, <1>8, <1>8a, <1>9, <1>10,
     <1>11, <1>12, <1>13, <1>14, <1>15, <1>16, <1>17, <1>18, <1>19, <1>20
  DEF Next, RunStep, StatStep, ClientStep

LEMMA CountsStep == IInv /\ MutexInv' /\ [Next]_vars => CountsAgree' /\ conns' \in Nat
<1> SUFFICES ASSUME IInv, MutexInv', [Next]_vars PROVE CountsAgree' /\ conns' \in Nat
  OBVIOUS
<1>1. conns' = Cardinality(Counted') /\ conns' \in Nat
  <2>1. conns = Cardinality(Counted) /\ conns \in Nat
    BY DEF IInv, CountsAgree, TypeOK
  <2>2. CASE Counted' = Counted /\ UNCHANGED conns
    BY <2>1, <2>2
  <2>3. ASSUME NEW c \in Clients \ Counted,
               Counted' = Counted \cup {c}, conns' = conns + 1
        PROVE  conns' = Cardinality(Counted') /\ conns' \in Nat
    <3>1. c \notin Counted /\ IsFiniteSet(Counted)
      BY CountedFinite
    <3>2. Cardinality(Counted') = Cardinality(Counted) + 1
      BY <2>3, <3>1, FS_AddElement
    <3> QED
      BY <2>1, <2>3, <3>2
  <2>4. ASSUME NEW c \in Counted, Counted' = Counted \ {c}, conns' = conns - 1
        PROVE  conns' = Cardinality(Counted') /\ conns' \in Nat
    <3>1. IsFiniteSet(Counted') /\ Cardinality(Counted') = Cardinality(Counted) - 1
      BY <2>4, CountedFinite, FS_RemoveElement
    <3>2. Cardinality(Counted') \in Nat
      BY <3>1, FS_CardinalityType
    <3> QED
      BY <2>1, <2>4, <3>1, <3>2
  <2> QED
    BY <2>2, <2>3, <2>4, CountedStep DEF IInv
<1> QED
  BY <1>1 DEF CountsAgree, MutexInv

LEMMA TypeStep == TypeOK /\ conns' \in Nat /\ [Next]_vars => TypeOK'
<1> SUFFICES ASSUME TypeOK, conns' \in Nat, [Next]_vars PROVE TypeOK'
  OBVIOUS
<1> USE DEF TypeOK, stats, env, Label, ClientState
<1>1. CASE Main
  BY <1>1 DEF Main
<1>2. CASE Start
  <2>1. row' \in StatsRecord /\ crash' \in Crash
    BY <1>2, StatsType, UpdateType DEF Start, RowState
  <2>2. upd' \in UpdType
    BY <1>2, StatsPlain DEF Start, UpdType
  <2> QED
    BY <1>2, <2>1, <2>2 DEF Start, UpdType, RowState
<1>3. CASE Timer
  <2>1. row' \in StatsRecord /\ crash' \in Crash /\ st' \in RowState
    BY <1>3, StatsType, UpdateType DEF Timer, RowState, Crash
  <2> QED
    BY <1>3, <2>1 DEF Timer
<1>4. CASE Ready
  <2>1. row' \in StatsRecord /\ crash' \in Crash /\ st' \in RowState
    BY <1>4, StatsType, UpdateType DEF Ready, RowState
  <2> QED
    BY <1>4, <2>1 DEF Ready
<1>5. CASE LeaveLoop
  BY <1>5 DEF LeaveLoop
<1>6. CASE Final
  <2>1. row' \in StatsRecord /\ crash' \in Crash /\ st' \in RowState
    BY <1>6, StatsType, UpdateType DEF Final, RowState
  <2> QED
    BY <1>6, <2>1 DEF Final
<1>7. CASE Exit
  BY <1>7 DEF Exit
<1>8a. CASE StatStart
  <2>1. [upd.prev EXCEPT !.added = added, !.removed = removed] \in StatsRecord
    BY DEF StatsRecord
  <2>2. upd' \in UpdType
    BY <1>8a, <2>1, StatsPlain DEF StatStart, UpdType
  <2> QED
    BY <1>8a, <2>2 DEF StatStart, UpdType
<1>8. CASE StatTick
  <2>1. upd' \in UpdType
    BY <1>8, StatsPlain DEF StatTick, UpdType
  <2> QED
    BY <1>8, <2>1 DEF StatTick, UpdType
<1>9. CASE StatCopy
  <2>1. [upd.next EXCEPT !.added = added, !.removed = removed] \in StatsRecord
    BY DEF StatsRecord
  <2>2. upd' \in UpdType
    BY <1>9, <2>1 DEF StatCopy, UpdType
  <2> QED
    BY <1>9, <2>2 DEF StatCopy, UpdType
<1>10. CASE StatWrite
  <2>1. row' \in StatsRecord /\ crash' \in Crash
    BY <1>10, UpdateType DEF StatWrite
  <2> QED
    BY <1>10, <2>1 DEF StatWrite
<1>11. CASE StatStop
  BY <1>11 DEF StatStop
<1>12. CASE Interrupt
  BY <1>12 DEF Interrupt
<1>13. CASE CloseDB
  BY <1>13 DEF CloseDB
<1>14. ASSUME NEW c \in Clients, Dial(c) PROVE TypeOK'
  BY <1>14 DEF Dial
<1>15. ASSUME NEW c \in Clients, Accept(c) PROVE TypeOK'
  <2>1. crash' \in Crash /\ pc' \in Label /\ cl' \in [Clients -> ClientState]
    BY <1>15 DEF Accept, Crash
  <2> QED
    BY <1>15, <2>1 DEF Accept
<1>16. ASSUME NEW c \in Clients, IncConnections(c) PROVE TypeOK'
  BY <1>16 DEF IncConnections
<1>17. ASSUME NEW c \in Clients, Return(c) PROVE TypeOK'
  BY <1>17 DEF Return
<1>18. ASSUME NEW c \in Clients, Drop(c) PROVE TypeOK'
  BY <1>18 DEF Drop
<1>19. ASSUME NEW c \in Clients, DecConnections(c) PROVE TypeOK'
  BY <1>19 DEF DecConnections
<1>20. CASE UNCHANGED vars
  BY <1>20 DEF vars
<1> QED
  BY <1>1, <1>2, <1>3, <1>4, <1>5, <1>6, <1>7, <1>8, <1>8a, <1>9, <1>10,
     <1>11, <1>12, <1>13, <1>14, <1>15, <1>16, <1>17, <1>18, <1>19, <1>20
  DEF Next, RunStep, StatStep, ClientStep

\* Nobody is counted when the counter is zero.
LEMMA ZeroIsEmpty == IInv /\ conns = 0 => Counted = {}
  BY CountedFinite, FS_EmptySet DEF IInv, CountsAgree

LEMMA ClosesStep == IInv /\ [Next]_vars => ClosesEmpty'
<1> SUFFICES ASSUME IInv, [Next]_vars PROVE ClosesEmpty'
  OBVIOUS
<1> USE DEF IInv, TypeOK, LoopInv, ClosesEmpty, Counted, stats, env
<1>1. CASE Main
  BY <1>1 DEF Main
<1>2. CASE Start
  BY <1>2 DEF Start
<1>3. CASE Timer
  BY <1>3, ZeroIsEmpty DEF Timer, TurnIsLong
<1>4. CASE Ready
  BY <1>4 DEF Ready
<1>5. CASE LeaveLoop
  BY <1>5 DEF LeaveLoop
<1>6. CASE Final
  BY <1>6 DEF Final
<1>7. CASE Exit
  BY <1>7 DEF Exit
<1>8a. CASE StatStart
  BY <1>8a DEF StatStart
<1>8. CASE StatTick
  BY <1>8 DEF StatTick
<1>9. CASE StatCopy
  BY <1>9 DEF StatCopy
<1>10. CASE StatWrite
  BY <1>10 DEF StatWrite
<1>11. CASE StatStop
  BY <1>11 DEF StatStop
<1>12. CASE Interrupt
  BY <1>12 DEF Interrupt
<1>13. CASE CloseDB
  BY <1>13 DEF CloseDB
<1>14. ASSUME NEW c \in Clients, Dial(c) PROVE ClosesEmpty'
  BY <1>14 DEF Dial
<1>15. ASSUME NEW c \in Clients, Accept(c) PROVE ClosesEmpty'
  BY <1>15 DEF Accept
<1>16. ASSUME NEW c \in Clients, IncConnections(c) PROVE ClosesEmpty'
  BY <1>16 DEF IncConnections
<1>17. ASSUME NEW c \in Clients, Return(c) PROVE ClosesEmpty'
  BY <1>17 DEF Return
<1>18. ASSUME NEW c \in Clients, Drop(c) PROVE ClosesEmpty'
  BY <1>18 DEF Drop
<1>19. ASSUME NEW c \in Clients, DecConnections(c) PROVE ClosesEmpty'
  BY <1>19 DEF DecConnections
<1>20. CASE UNCHANGED vars
  BY <1>20 DEF vars
<1> QED
  BY <1>1, <1>2, <1>3, <1>4, <1>5, <1>6, <1>7, <1>8, <1>8a, <1>9, <1>10,
     <1>11, <1>12, <1>13, <1>14, <1>15, <1>16, <1>17, <1>18, <1>19, <1>20
  DEF Next, RunStep, StatStep, ClientStep
-----------------------------------------------------------------------------
LEMMA Invariance == Spec => []IInv
<1>1. IInv /\ [Next]_vars => IInv'
  BY MutexStep, LoopStep, CountsStep, TypeStep, ClosesStep DEF IInv
<1> QED
  BY <1>1, InitIInv, PTL DEF Spec

\* Every variable keeps its type; in particular Connections is never negative.
THEOREM TypeCorrect == Spec => []TypeOK
<1>1. IInv => TypeOK
  BY DEF IInv
<1> QED
  BY <1>1, Invariance, PTL

\* Connections is the number of clients between their two incConnections.
THEOREM CountsCorrect == Spec => []CountsAgree
<1>1. IInv => CountsAgree
  BY DEF IInv
<1> QED
  BY <1>1, Invariance, PTL

\* A server that closes itself leaves no client behind.
THEOREM ClosesEmptyCorrect == Spec => []ClosesEmpty
<1>1. IInv => ClosesEmpty
  BY DEF IInv
<1> QED
  BY <1>1, Invariance, PTL
-----------------------------------------------------------------------------
(* The runner implements ServerRow.tla *)

\* Nothing happens before Run starts: no client, no copy of the counters, no row.  Once it
\* has, what the stat updater is about to write is a state the server has reached.
StagesInv ==
  /\ pc \in {"none", "main"} =>
       /\ st = "ready" /\ conns = 0 /\ row = NoStats /\ upd.pc = "off"
       /\ \A c \in Clients : cl[c] = "out"
  /\ st \in {"ready", "idle", "closed"}
  /\ upd.pc \in {"copy", "write"} => /\ upd.next.state \in {"ready", "idle", "closed"}
                                     /\ Rank(upd.next.state) <= Rank(st)

LEMMA RanksUp ==
  /\ Rank("ready") = 2 /\ Rank("idle") = 3 /\ Rank("closed") = 4
  /\ Promise!Rank("ready") = 2 /\ Promise!Rank("idle") = 3 /\ Promise!Rank("closed") = 4
  BY DEF Rank, Promise!Rank

LEMMA StagesStep == TypeOK /\ LoopInv /\ StagesInv /\ [Next]_vars => StagesInv'
<1> SUFFICES ASSUME TypeOK, LoopInv, StagesInv, [Next]_vars PROVE StagesInv'
  OBVIOUS
<1> USE RanksUp DEF TypeOK, LoopInv, StagesInv, stats, env
<1>1. CASE Main
  BY <1>1 DEF Main
<1>2. CASE Start
  BY <1>2 DEF Start
<1>3. CASE Timer
  BY <1>3 DEF Timer
<1>4. CASE Ready
  BY <1>4 DEF Ready
<1>5. CASE LeaveLoop
  BY <1>5 DEF LeaveLoop
<1>6. CASE Final
  BY <1>6 DEF Final
<1>7. CASE Exit
  BY <1>7 DEF Exit
<1>8a. CASE StatStart
  BY <1>8a DEF StatStart
<1>8. CASE StatTick
  BY <1>8, StatsPlain DEF StatTick, Stats, StatsRecord
<1>9. CASE StatCopy
  BY <1>9 DEF StatCopy, StatsRecord
<1>10. CASE StatWrite
  BY <1>10 DEF StatWrite
<1>11. CASE StatStop
  BY <1>11 DEF StatStop
<1>12. CASE Interrupt
  BY <1>12 DEF Interrupt
<1>13. CASE CloseDB
  BY <1>13 DEF CloseDB
<1>14. ASSUME NEW c \in Clients, Dial(c) PROVE StagesInv'
  BY <1>14 DEF Dial, Listening
<1>15. ASSUME NEW c \in Clients, Accept(c) PROVE StagesInv'
  BY <1>15 DEF Accept
<1>16. ASSUME NEW c \in Clients, IncConnections(c) PROVE StagesInv'
  BY <1>16 DEF IncConnections
<1>17. ASSUME NEW c \in Clients, Return(c) PROVE StagesInv'
  BY <1>17 DEF Return
<1>18. ASSUME NEW c \in Clients, Drop(c) PROVE StagesInv'
  BY <1>18 DEF Drop
<1>19. ASSUME NEW c \in Clients, DecConnections(c) PROVE StagesInv'
  BY <1>19 DEF DecConnections
<1>20. CASE UNCHANGED vars
  BY <1>20 DEF vars
<1> QED
  BY <1>1, <1>2, <1>3, <1>4, <1>5, <1>6, <1>7, <1>8, <1>8a, <1>9, <1>10,
     <1>11, <1>12, <1>13, <1>14, <1>15, <1>16, <1>17, <1>18, <1>19, <1>20
  DEF Next, RunStep, StatStep, ClientStep

\* A process that runs and has started Run is in the state that Run is in.
LEMMA Lives ==
  ASSUME TypeOK
  PROVE  /\ crash # "none" => Life = "exited"
         /\ crash = "none" => /\ pc = "none" => Life = "none"
                              /\ pc = "main" => Life = "starting"
                              /\ pc = "exited" => Life = "exited"
                              /\ pc \notin {"none", "main", "exited"} => Life = st
  BY DEF Life, TypeOK

LEMMA LivesNext ==
  ASSUME TypeOK'
  PROVE  /\ crash' # "none" => Life' = "exited"
         /\ crash' = "none" => /\ pc' = "none" => Life' = "none"
                               /\ pc' = "main" => Life' = "starting"
                               /\ pc' = "exited" => Life' = "exited"
                               /\ pc' \notin {"none", "main", "exited"} => Life' = st'
  BY DEF Life, TypeOK

LEMMA CappedBounded == \A n \in Nat : Capped(n) \in 0..MaxLoad
  BY DEF Capped

\* Every step of the runner is one of ServerRow's, or leaves the process and its row alone.
LEMMA PromiseStep ==
  ASSUME TypeOK, TypeOK', LoopInv, StagesInv, [Next]_vars
  PROVE  [Promise!Next]_(<<Life, Seen(row)>>)
<1> USE Lives, LivesNext, RanksUp, CappedBounded
        DEF TypeOK, LoopInv, StagesInv, stats, env, Running
<1> DEFINE Stutter == Life' = Life /\ Seen(row)' = Seen(row)
<1>a. ASSUME crash' # "none", crash = "none", pc # "none", pc # "exited", row' = row
      PROVE  Promise!Next
  BY <1>a DEF Promise!Next, Promise!Exit
<1>1. CASE Main
  BY <1>1 DEF Main, Promise!Next, Promise!Spawn
<1>2. CASE Start
  <2>1. CASE dbClosed
    BY <1>2, <2>1, <1>a DEF Start, Update
  <2>2. CASE ~dbClosed
    <3>1. row' = [Stats EXCEPT !.state = "ready"] /\ crash' = crash
      BY <1>2, <2>2 DEF Start, Update
    <3>2. Seen(row)' = [state |-> "ready", load |-> 0]
      BY <1>2, <3>1 DEF Start, Seen, Stats, Capped
    <3> QED
      BY <1>2, <3>1, <3>2 DEF Start, Promise!Next, Promise!FirstPublish
  <2> QED
    BY <2>1, <2>2
<1>3. CASE Timer
  <2>1. CASE crash' # "none"
    BY <1>3, <2>1, <1>a DEF Timer, Update
  <2>2. CASE crash' = "none" /\ st = "ready"
    <3>1. row' = [Stats EXCEPT !.state = "idle"]
      BY <1>3, <2>2 DEF Timer, Update
    <3>2. Seen(row)' = [state |-> "idle", load |-> 0]
      BY <1>3, <3>1 DEF Timer, Seen, Stats, Capped
    <3> QED
      BY <1>3, <2>2, <3>2 DEF Timer, Promise!Next, Promise!GoIdle
  <2>3. CASE crash' = "none" /\ st = "idle"
    <3>1. row' = [Stats EXCEPT !.state = "closed"]
      BY <1>3, <2>3 DEF Timer, Update
    <3>2. Seen(row)' = [state |-> "closed", load |-> 0]
      BY <1>3, <3>1 DEF Timer, Seen, Stats, Capped
    <3> QED
      BY <1>3, <2>3, <3>2 DEF Timer, Promise!Next, Promise!GoClosed
  <2> QED
    BY <1>3, <2>1, <2>2, <2>3 DEF Timer
<1>4. CASE Ready
  <2>1. CASE st = "ready" /\ UNCHANGED <<st, row, crash>>
    BY <1>4, <2>1 DEF Ready
  <2>2. CASE st # "ready" /\ crash' # "none"
    BY <1>4, <2>2, <1>a DEF Ready, Update
  <2>3. CASE st # "ready" /\ crash' = "none"
    <3>1. row' = [Stats EXCEPT !.state = "idle"] /\ st' = "idle" /\ st = "idle"
      BY <1>4, <2>3 DEF Ready, Update
    <3>2. Seen(row)' = [state |-> "idle", load |-> Capped(conns)]
      BY <3>1 DEF Seen, Stats
    <3>3. Promise!StatWrite
      BY <1>4, <2>3, <3>1, <3>2 DEF Ready, Promise!StatWrite
    <3> QED
      BY <3>3 DEF Promise!Next
  <2> QED
    BY <1>4, <2>1, <2>2, <2>3 DEF Ready
<1>5. CASE LeaveLoop
  BY <1>5 DEF LeaveLoop
<1>6. CASE Final
  <2>1. CASE crash' # "none"
    BY <1>6, <2>1, <1>a DEF Final, Update
  <2>2. CASE crash' = "none"
    <3>1. row' = [Stats EXCEPT !.state = "closed"] /\ st' = "closed"
      BY <1>6, <2>2 DEF Final, Update
    <3>2. Seen(row)' = [state |-> "closed", load |-> Capped(conns)]
      BY <1>6, <3>1 DEF Final, Seen, Stats
    <3>3. CASE st = "closed"
      <4>1. Promise!StatWrite
        BY <1>6, <2>2, <3>1, <3>2, <3>3 DEF Final, Promise!StatWrite
      <4> QED
        BY <4>1 DEF Promise!Next
    <3>4. CASE st # "closed"
      <4>1. Promise!GoClosed
        BY <1>6, <2>2, <3>1, <3>2, <3>4 DEF Final, Promise!GoClosed
      <4> QED
        BY <4>1 DEF Promise!Next
    <3> QED
      BY <3>3, <3>4
  <2> QED
    BY <2>1, <2>2
<1>7. CASE Exit
  BY <1>7 DEF Exit, Promise!Next, Promise!Exit
<1>8a. CASE StatStart
  BY <1>8a DEF StatStart
<1>8. CASE StatTick
  BY <1>8 DEF StatTick
<1>9. CASE StatCopy
  BY <1>9 DEF StatCopy
<1>10. CASE StatWrite
  <2>0. pc \notin {"none", "main", "exited"} /\ UNCHANGED <<pc, st>> /\ upd.pc = "write"
    BY <1>10 DEF StatWrite
  <2>1. CASE crash' # "none"
    BY <1>10, <2>0, <2>1, <1>a DEF StatWrite, Update
  <2>2. CASE crash' = "none"
    <3>1. row' = upd.next
      BY <1>10, <2>2 DEF StatWrite, Update
    <3>2. Seen(row)' = [state |-> upd.next.state, load |-> Capped(upd.next.conns)]
      BY <3>1 DEF Seen
    <3>3. upd.next.conns \in Nat
      BY DEF StatsRecord
    <3>4. Promise!Rank(upd.next.state) <= Promise!Rank(st)
      BY <2>0
    <3>5. Life \in {"ready", "idle", "closed"} /\ Life = st /\ UNCHANGED Life
      BY <1>10, <2>0, <2>2 DEF StatWrite
    <3>6. upd.next.state \in {"ready", "idle", "closed"} /\ Capped(upd.next.conns) \in 0..MaxLoad
      BY <2>0, <3>3
    <3>7. Promise!StatWrite
      <4>1. PICK s \in {"ready", "idle", "closed"}, l \in 0..MaxLoad :
               s = upd.next.state /\ l = Capped(upd.next.conns)
        BY <3>6
      <4>2. Promise!Rank(s) <= Promise!Rank(Life)
        BY <3>4, <3>5, <4>1
      <4>3. Seen(row)' = [state |-> s, load |-> l]
        BY <3>2, <4>1
      <4> QED
        BY ONLY <3>5, <3>6, <4>1, <4>2, <4>3 DEF Promise!StatWrite
    <3> QED
      BY <3>7 DEF Promise!Next
  <2> QED
    BY <2>1, <2>2
<1>11. CASE StatStop
  BY <1>11 DEF StatStop
<1>12. CASE Interrupt
  BY <1>12 DEF Interrupt
<1>13. CASE CloseDB
  BY <1>13 DEF CloseDB
<1>14. ASSUME NEW c \in Clients, Dial(c) PROVE Stutter
  BY <1>14 DEF Dial
<1>15. ASSUME NEW c \in Clients, Accept(c) PROVE Promise!Next \/ Stutter
  <2>1. CASE crash' # "none"
    BY <1>15, <2>1, <1>a DEF Accept
  <2>2. CASE crash' = "none"
    BY <1>15, <2>2 DEF Accept
  <2> QED
    BY <2>1, <2>2
<1>16. ASSUME NEW c \in Clients, IncConnections(c) PROVE Stutter
  BY <1>16 DEF IncConnections
<1>17. ASSUME NEW c \in Clients, Return(c) PROVE Stutter
  BY <1>17 DEF Return
<1>18. ASSUME NEW c \in Clients, Drop(c) PROVE Stutter
  BY <1>18 DEF Drop
<1>19. ASSUME NEW c \in Clients, DecConnections(c) PROVE Stutter
  BY <1>19 DEF DecConnections
<1>20. CASE UNCHANGED vars
  BY <1>20 DEF vars
<1> QED
  BY <1>1, <1>2, <1>3, <1>4, <1>5, <1>6, <1>7, <1>8, <1>8a, <1>9, <1>10,
     <1>11, <1>12, <1>13, <1>14, <1>15, <1>16, <1>17, <1>18, <1>19, <1>20
  DEF Next, RunStep, StatStep, ClientStep

\* The process and its row keep the promise of ServerRow.tla, which is what the proxy's
\* matchmaking is built on: every behaviour of the runner is one of ServerRow's.
THEOREM PromiseKept == Spec => KeepsPromise
<1>1. Init => Promise!Init /\ StagesInv
  BY RanksUp DEF Init, Promise!Init, Life, Seen, Capped, NoStats, Promise!NoRow, StagesInv
<1>2. IInv => TypeOK /\ LoopInv
  BY DEF IInv
<1>3. TypeOK /\ LoopInv /\ StagesInv /\ [Next]_vars => StagesInv'
  BY StagesStep
<1>4. TypeOK /\ TypeOK' /\ LoopInv /\ StagesInv /\ [Next]_vars
      => [Promise!Next]_(<<Life, Seen(row)>>)
  BY PromiseStep
<1> QED
  BY <1>1, <1>2, <1>3, <1>4, Invariance, PTL DEF Spec, KeepsPromise, Promise!Spec, Promise!vars
=============================================================================
