-------------------------- MODULE MatchMakingProofs --------------------------
(***************************************************************************)
(* Safety of matchmaking for every set of connections and every number of  *)
(* servers: the type invariant, OneCreator, OneServerStarting and          *)
(* OnlyOvertakenMiss of MatchMaking.tla.                                   *)
(***************************************************************************)
EXTENDS MatchMaking, TLAPS

USE ConstAssumption, MaxLoadAssumption

\* A server has a row from the moment it is ready on, and only from then on.
RowsFollowServers ==
  \A s \in ServerIds :
     /\ s >= nextId => srv[s] = "none"
     /\ srv[s] \in {"none", "starting"} => row[s].state = "none"

\* Somebody polls for every server that is on its way up.
StartingIsPolled ==
  \A s \in ServerIds : srv[s] = "starting" =>
     \E c \in Conns : pc[c] = "poll" /\ gameId[c] = s

\* A creator's server is the last one created, and has a row once the poll
\* has seen it.
CreatorsServer ==
  \A c \in Conns :
     /\ pc[c] \in {"poll", "stop"} => /\ gameId[c] = lastCreatedGameId
                                      /\ gameId[c] \in ServerIds
     /\ pc[c] = "stop" => Published(gameId[c])

\* Between two creations the last server created has a row.
LastIsPublished == ~waitingForServer /\ gen > 0 => Published(lastCreatedGameId)

\* No token is in the semaphore before Done, so a waiter that is past Wait and
\* was not overtaken finds no creation in progress.
WaitersPastDone ==
  /\ waitingForServer => wg.sema = 0 /\ gen > 0
  /\ \A c \in Conns :
        /\ joined[c] <= gen
        /\ pc[c] \in {"wait", "sema", "woken", "last"} => joined[c] > 0
        /\ pc[c] \in {"woken", "last"} /\ joined[c] = gen => ~waitingForServer

IInv == /\ TypeOK
        /\ OneCreator
        /\ RowsFollowServers
        /\ StartingIsPolled
        /\ CreatorsServer
        /\ LastIsPublished
        /\ WaitersPastDone
        /\ OnlyOvertakenMiss
-----------------------------------------------------------------------------
LEMMA InitIInv == Init => IInv
<1> SUFFICES ASSUME Init PROVE IInv
  OBVIOUS
<1>1. TypeOK
  <2>1. NoRow \in Row
    BY DEF NoRow, Row, RowState
  <2>2. NewWaitGroup \in [counter : Nat, waiters : Nat, sema : Nat]
    BY DEF NewWaitGroup
  <2>3. NoGame \in ServerIds \cup {NoGame}
    OBVIOUS
  <2>4. /\ "matchmake" \in Label /\ "none" \in Crash /\ "none" \in SrvState
        /\ 0 \in 0..MaxServers /\ 0 \in 0..MaxStatWrites
    BY DEF Label, Crash, SrvState
  <2> QED
    BY <2>1, <2>2, <2>3, <2>4 DEF Init, TypeOK
<1>2. /\ OneCreator /\ RowsFollowServers /\ StartingIsPolled /\ CreatorsServer
      /\ LastIsPublished /\ WaitersPastDone /\ OnlyOvertakenMiss
  BY DEF Init, OneCreator, RowsFollowServers, StartingIsPolled, CreatorsServer,
         LastIsPublished, WaitersPastDone, OnlyOvertakenMiss, Creating,
         NewWaitGroup, NoRow, ServerIds
<1> QED
  BY <1>1, <1>2 DEF IInv

\* Types: only StopWaiting needs more than TypeOK, for the counter it lowers.
LEMMA TypeStep == TypeOK /\ OneCreator /\ [Next]_vars => TypeOK'
<1> SUFFICES ASSUME TypeOK, OneCreator, [Next]_vars PROVE TypeOK'
  OBVIOUS
<1> USE DEF TypeOK, Goto, At, Running, mmVars, serverVars, history, proxyVars, Label
<1>1. ASSUME NEW c \in Conns, GetBestServer(c) PROVE TypeOK'
  BY <1>1 DEF GetBestServer, Best, Eligible
<1>2. ASSUME NEW c \in Conns, StartWaiting(c) PROVE TypeOK'
  <2>1. CASE ~waitingForServer
    <3>1. wg' \in [counter : Nat, waiters : Nat, sema : Nat]
      BY <1>2, <2>1 DEF StartWaiting
    <3>2. pc' \in [Conns -> Label]
      BY <1>2, <2>1 DEF StartWaiting
    <3>3. gen' \in Nat
      BY <1>2, <2>1 DEF StartWaiting
    <3> QED
      BY <1>2, <2>1, <3>1, <3>2, <3>3 DEF StartWaiting
  <2>2. CASE waitingForServer
    BY <1>2, <2>2 DEF StartWaiting
  <2> QED
    BY <2>1, <2>2
<1>3. ASSUME NEW c \in Conns, CreateNewServer(c) PROVE TypeOK'
  BY <1>3 DEF CreateNewServer, ServerIds, SrvState
<1>4. ASSUME NEW c \in Conns, WaitForReady(c) PROVE TypeOK'
  BY <1>4 DEF WaitForReady
<1>5. ASSUME NEW c \in Conns, StopWaiting(c) PROVE TypeOK'
  <2>1. wg.counter - 1 \in Nat \/ ~waitingForServer
    BY DEF OneCreator
  <2>2. wg' \in [counter : Nat, waiters : Nat, sema : Nat]
    BY <1>5, <2>1 DEF StopWaiting
  <2> QED
    BY <1>5, <2>2 DEF StopWaiting
<1>6. ASSUME NEW c \in Conns, Wait(c) PROVE TypeOK'
  BY <1>6 DEF Wait
<1>7. ASSUME NEW c \in Conns, Acquire(c) PROVE TypeOK'
  BY <1>7 DEF Acquire
<1>8. ASSUME NEW c \in Conns, Woken(c) PROVE TypeOK'
  BY <1>8 DEF Woken, Crash
<1>9. ASSUME NEW c \in Conns, ReadLast(c) PROVE TypeOK'
  BY <1>9 DEF ReadLast
<1>10. ASSUME NEW c \in Conns, GetConnectionString(c) PROVE TypeOK'
  BY <1>10 DEF GetConnectionString, Crash
<1>11. ASSUME NEW s \in ServerIds, ServerReady(s) PROVE TypeOK'
  BY <1>11 DEF ServerReady, SrvState, Row, RowState
<1>12. ASSUME NEW s \in ServerIds, ServerIdle(s) PROVE TypeOK'
  BY <1>12 DEF ServerIdle, SrvState, Row, RowState
<1>13. ASSUME NEW s \in ServerIds, ServerCloses(s) PROVE TypeOK'
  BY <1>13 DEF ServerCloses, SrvState, Row, RowState
<1>14. ASSUME NEW s \in ServerIds, ServerWritesStats(s) PROVE TypeOK'
  BY <1>14 DEF ServerWritesStats, Row, RowState
<1>15. ASSUME NEW s \in ServerIds, ServerExits(s) PROVE TypeOK'
  BY <1>15 DEF ServerExits, SrvState, CmderDone, Crash
<1>16. ASSUME NEW s \in ServerIds, ServerDies(s) PROVE TypeOK'
  BY <1>16 DEF ServerDies, SrvState, CmderDone, Crash
<1>17. CASE Cancel
  BY <1>17 DEF Cancel
<1>18. CASE UNCHANGED vars
  BY <1>18 DEF vars
<1> QED
  BY <1>1, <1>2, <1>3, <1>4, <1>5, <1>6, <1>7, <1>8, <1>9,
     <1>10, <1>11, <1>12, <1>13, <1>14, <1>15, <1>16, <1>17, <1>18
  DEF Next, ConnStep, ServerStep

LEMMA CreatorStep == TypeOK /\ OneCreator /\ [Next]_vars => OneCreator'
<1> SUFFICES ASSUME TypeOK, OneCreator, [Next]_vars PROVE OneCreator'
  OBVIOUS
<1> USE DEF TypeOK, OneCreator, Creating, Goto, At, Running, mmVars, serverVars, history, proxyVars
<1>1. ASSUME NEW c \in Conns, GetBestServer(c) PROVE OneCreator'
  BY <1>1 DEF GetBestServer
<1>2. ASSUME NEW c \in Conns, StartWaiting(c) PROVE OneCreator'
  BY <1>2 DEF StartWaiting, NewWaitGroup
<1>3. ASSUME NEW c \in Conns, CreateNewServer(c) PROVE OneCreator'
  BY <1>3 DEF CreateNewServer
<1>4. ASSUME NEW c \in Conns, WaitForReady(c) PROVE OneCreator'
  BY <1>4 DEF WaitForReady
<1>5. ASSUME NEW c \in Conns, StopWaiting(c) PROVE OneCreator'
  BY <1>5 DEF StopWaiting
<1>6. ASSUME NEW c \in Conns, Wait(c) PROVE OneCreator'
  BY <1>6 DEF Wait
<1>7. ASSUME NEW c \in Conns, Acquire(c) PROVE OneCreator'
  BY <1>7 DEF Acquire
<1>8. ASSUME NEW c \in Conns, Woken(c) PROVE OneCreator'
  BY <1>8 DEF Woken
<1>9. ASSUME NEW c \in Conns, ReadLast(c) PROVE OneCreator'
  BY <1>9 DEF ReadLast
<1>10. ASSUME NEW c \in Conns, GetConnectionString(c) PROVE OneCreator'
  BY <1>10 DEF GetConnectionString
<1>11. ASSUME NEW s \in ServerIds, ServerReady(s) PROVE OneCreator'
  BY <1>11 DEF ServerReady
<1>12. ASSUME NEW s \in ServerIds, ServerIdle(s) PROVE OneCreator'
  BY <1>12 DEF ServerIdle
<1>13. ASSUME NEW s \in ServerIds, ServerCloses(s) PROVE OneCreator'
  BY <1>13 DEF ServerCloses
<1>14. ASSUME NEW s \in ServerIds, ServerWritesStats(s) PROVE OneCreator'
  BY <1>14 DEF ServerWritesStats
<1>15. ASSUME NEW s \in ServerIds, ServerExits(s) PROVE OneCreator'
  BY <1>15 DEF ServerExits
<1>16. ASSUME NEW s \in ServerIds, ServerDies(s) PROVE OneCreator'
  BY <1>16 DEF ServerDies
<1>17. CASE Cancel
  BY <1>17 DEF Cancel
<1>18. CASE UNCHANGED vars
  BY <1>18 DEF vars
<1> QED
  BY <1>1, <1>2, <1>3, <1>4, <1>5, <1>6, <1>7, <1>8, <1>9,
     <1>10, <1>11, <1>12, <1>13, <1>14, <1>15, <1>16, <1>17, <1>18
  DEF Next, ConnStep, ServerStep

LEMMA RowsFollowServersStep == IInv /\ TypeOK' /\ [Next]_vars => RowsFollowServers'
<1> SUFFICES ASSUME IInv, TypeOK', [Next]_vars PROVE RowsFollowServers'
  OBVIOUS
<1> USE DEF IInv, TypeOK, RowsFollowServers, Goto, At, Running, mmVars, serverVars, history,
            proxyVars
<1>1. ASSUME NEW c \in Conns, GetBestServer(c) PROVE RowsFollowServers'
  BY <1>1 DEF GetBestServer, Best, Eligible
<1>2. ASSUME NEW c \in Conns, StartWaiting(c) PROVE RowsFollowServers'
  BY <1>2 DEF StartWaiting, NewWaitGroup
<1>3. ASSUME NEW c \in Conns, CreateNewServer(c) PROVE RowsFollowServers'
  BY <1>3 DEF CreateNewServer, OneCreator, Creating
<1>4. ASSUME NEW c \in Conns, WaitForReady(c) PROVE RowsFollowServers'
  BY <1>4 DEF WaitForReady, OneCreator, Creating
<1>5. ASSUME NEW c \in Conns, StopWaiting(c) PROVE RowsFollowServers'
  BY <1>5 DEF StopWaiting, OneCreator, Creating
<1>6. ASSUME NEW c \in Conns, Wait(c) PROVE RowsFollowServers'
  BY <1>6 DEF Wait, OneCreator, Creating
<1>7. ASSUME NEW c \in Conns, Acquire(c) PROVE RowsFollowServers'
  BY <1>7 DEF Acquire
<1>8. ASSUME NEW c \in Conns, Woken(c) PROVE RowsFollowServers'
  BY <1>8 DEF Woken
<1>9. ASSUME NEW c \in Conns, ReadLast(c) PROVE RowsFollowServers'
  BY <1>9 DEF ReadLast
<1>10. ASSUME NEW c \in Conns, GetConnectionString(c) PROVE RowsFollowServers'
  BY <1>10 DEF GetConnectionString
<1>11. ASSUME NEW s \in ServerIds, ServerReady(s) PROVE RowsFollowServers'
  BY <1>11 DEF ServerReady
<1>12. ASSUME NEW s \in ServerIds, ServerIdle(s) PROVE RowsFollowServers'
  BY <1>12 DEF ServerIdle
<1>13. ASSUME NEW s \in ServerIds, ServerCloses(s) PROVE RowsFollowServers'
  BY <1>13 DEF ServerCloses
<1>14. ASSUME NEW s \in ServerIds, ServerWritesStats(s) PROVE RowsFollowServers'
  BY <1>14 DEF ServerWritesStats
<1>15. ASSUME NEW s \in ServerIds, ServerExits(s) PROVE RowsFollowServers'
  BY <1>15 DEF ServerExits
<1>16. ASSUME NEW s \in ServerIds, ServerDies(s) PROVE RowsFollowServers'
  BY <1>16 DEF ServerDies
<1>17. CASE Cancel
  BY <1>17 DEF Cancel
<1>18. CASE UNCHANGED vars
  BY <1>18 DEF vars
<1> QED
  BY <1>1, <1>2, <1>3, <1>4, <1>5, <1>6, <1>7, <1>8, <1>9,
     <1>10, <1>11, <1>12, <1>13, <1>14, <1>15, <1>16, <1>17, <1>18
  DEF Next, ConnStep, ServerStep

LEMMA StartingIsPolledStep == IInv /\ TypeOK' /\ [Next]_vars => StartingIsPolled'
<1> SUFFICES ASSUME IInv, TypeOK', [Next]_vars PROVE StartingIsPolled'
  OBVIOUS
<1> USE DEF IInv, TypeOK, StartingIsPolled, Goto, At, Running, mmVars, serverVars, history,
            proxyVars
<1>1. ASSUME NEW c \in Conns, GetBestServer(c) PROVE StartingIsPolled'
  BY <1>1 DEF GetBestServer, Best, Eligible
<1>2. ASSUME NEW c \in Conns, StartWaiting(c) PROVE StartingIsPolled'
  BY <1>2 DEF StartWaiting, NewWaitGroup
<1>3. ASSUME NEW c \in Conns, CreateNewServer(c) PROVE StartingIsPolled'
  BY <1>3 DEF CreateNewServer, OneCreator, Creating
<1>4. ASSUME NEW c \in Conns, WaitForReady(c) PROVE StartingIsPolled'
  BY <1>4 DEF WaitForReady, RowsFollowServers, CreatorsServer
<1>5. ASSUME NEW c \in Conns, StopWaiting(c) PROVE StartingIsPolled'
  BY <1>5 DEF StopWaiting, OneCreator, Creating
<1>6. ASSUME NEW c \in Conns, Wait(c) PROVE StartingIsPolled'
  BY <1>6 DEF Wait, OneCreator, Creating
<1>7. ASSUME NEW c \in Conns, Acquire(c) PROVE StartingIsPolled'
  BY <1>7 DEF Acquire
<1>8. ASSUME NEW c \in Conns, Woken(c) PROVE StartingIsPolled'
  BY <1>8 DEF Woken
<1>9. ASSUME NEW c \in Conns, ReadLast(c) PROVE StartingIsPolled'
  BY <1>9 DEF ReadLast
<1>10. ASSUME NEW c \in Conns, GetConnectionString(c) PROVE StartingIsPolled'
  BY <1>10 DEF GetConnectionString
<1>11. ASSUME NEW s \in ServerIds, ServerReady(s) PROVE StartingIsPolled'
  BY <1>11 DEF ServerReady
<1>12. ASSUME NEW s \in ServerIds, ServerIdle(s) PROVE StartingIsPolled'
  BY <1>12 DEF ServerIdle
<1>13. ASSUME NEW s \in ServerIds, ServerCloses(s) PROVE StartingIsPolled'
  BY <1>13 DEF ServerCloses
<1>14. ASSUME NEW s \in ServerIds, ServerWritesStats(s) PROVE StartingIsPolled'
  BY <1>14 DEF ServerWritesStats
<1>15. ASSUME NEW s \in ServerIds, ServerExits(s) PROVE StartingIsPolled'
  BY <1>15 DEF ServerExits
<1>16. ASSUME NEW s \in ServerIds, ServerDies(s) PROVE StartingIsPolled'
  BY <1>16 DEF ServerDies
<1>17. CASE Cancel
  BY <1>17 DEF Cancel
<1>18. CASE UNCHANGED vars
  BY <1>18 DEF vars
<1> QED
  BY <1>1, <1>2, <1>3, <1>4, <1>5, <1>6, <1>7, <1>8, <1>9,
     <1>10, <1>11, <1>12, <1>13, <1>14, <1>15, <1>16, <1>17, <1>18
  DEF Next, ConnStep, ServerStep

LEMMA CreatorsServerStep == IInv /\ TypeOK' /\ [Next]_vars => CreatorsServer'
<1> SUFFICES ASSUME IInv, TypeOK', [Next]_vars PROVE CreatorsServer'
  OBVIOUS
<1> USE DEF IInv, TypeOK, CreatorsServer, Published, Goto, At, Running, mmVars, serverVars, history,
            proxyVars
<1>1. ASSUME NEW c \in Conns, GetBestServer(c) PROVE CreatorsServer'
  BY <1>1 DEF GetBestServer, Best, Eligible
<1>2. ASSUME NEW c \in Conns, StartWaiting(c) PROVE CreatorsServer'
  BY <1>2 DEF StartWaiting, NewWaitGroup
<1>3. ASSUME NEW c \in Conns, CreateNewServer(c) PROVE CreatorsServer'
  BY <1>3 DEF CreateNewServer, OneCreator, Creating
<1>4. ASSUME NEW c \in Conns, WaitForReady(c) PROVE CreatorsServer'
  BY <1>4 DEF WaitForReady, OneCreator, Creating
<1>5. ASSUME NEW c \in Conns, StopWaiting(c) PROVE CreatorsServer'
  BY <1>5 DEF StopWaiting, OneCreator, Creating
<1>6. ASSUME NEW c \in Conns, Wait(c) PROVE CreatorsServer'
  BY <1>6 DEF Wait, OneCreator, Creating
<1>7. ASSUME NEW c \in Conns, Acquire(c) PROVE CreatorsServer'
  BY <1>7 DEF Acquire
<1>8. ASSUME NEW c \in Conns, Woken(c) PROVE CreatorsServer'
  BY <1>8 DEF Woken
<1>9. ASSUME NEW c \in Conns, ReadLast(c) PROVE CreatorsServer'
  BY <1>9 DEF ReadLast
<1>10. ASSUME NEW c \in Conns, GetConnectionString(c) PROVE CreatorsServer'
  BY <1>10 DEF GetConnectionString
<1>11. ASSUME NEW s \in ServerIds, ServerReady(s) PROVE CreatorsServer'
  BY <1>11 DEF ServerReady
<1>12. ASSUME NEW s \in ServerIds, ServerIdle(s) PROVE CreatorsServer'
  BY <1>12 DEF ServerIdle
<1>13. ASSUME NEW s \in ServerIds, ServerCloses(s) PROVE CreatorsServer'
  BY <1>13 DEF ServerCloses
<1>14. ASSUME NEW s \in ServerIds, ServerWritesStats(s) PROVE CreatorsServer'
  BY <1>14 DEF ServerWritesStats
<1>15. ASSUME NEW s \in ServerIds, ServerExits(s) PROVE CreatorsServer'
  BY <1>15 DEF ServerExits
<1>16. ASSUME NEW s \in ServerIds, ServerDies(s) PROVE CreatorsServer'
  BY <1>16 DEF ServerDies
<1>17. CASE Cancel
  BY <1>17 DEF Cancel
<1>18. CASE UNCHANGED vars
  BY <1>18 DEF vars
<1> QED
  BY <1>1, <1>2, <1>3, <1>4, <1>5, <1>6, <1>7, <1>8, <1>9,
     <1>10, <1>11, <1>12, <1>13, <1>14, <1>15, <1>16, <1>17, <1>18
  DEF Next, ConnStep, ServerStep

LEMMA LastIsPublishedStep == IInv /\ TypeOK' /\ [Next]_vars => LastIsPublished'
<1> SUFFICES ASSUME IInv, TypeOK', [Next]_vars PROVE LastIsPublished'
  OBVIOUS
<1> USE DEF IInv, TypeOK, LastIsPublished, Published, Goto, At, Running, mmVars, serverVars, history,
            proxyVars
<1>1. ASSUME NEW c \in Conns, GetBestServer(c) PROVE LastIsPublished'
  BY <1>1 DEF GetBestServer, Best, Eligible
<1>2. ASSUME NEW c \in Conns, StartWaiting(c) PROVE LastIsPublished'
  BY <1>2 DEF StartWaiting, NewWaitGroup
<1>3. ASSUME NEW c \in Conns, CreateNewServer(c) PROVE LastIsPublished'
  BY <1>3 DEF CreateNewServer, OneCreator, Creating
<1>4. ASSUME NEW c \in Conns, WaitForReady(c) PROVE LastIsPublished'
  BY <1>4 DEF WaitForReady, OneCreator, Creating
<1>5. ASSUME NEW c \in Conns, StopWaiting(c) PROVE LastIsPublished'
  BY <1>5 DEF StopWaiting, OneCreator, Creating, CreatorsServer
<1>6. ASSUME NEW c \in Conns, Wait(c) PROVE LastIsPublished'
  BY <1>6 DEF Wait, OneCreator, Creating
<1>7. ASSUME NEW c \in Conns, Acquire(c) PROVE LastIsPublished'
  BY <1>7 DEF Acquire
<1>8. ASSUME NEW c \in Conns, Woken(c) PROVE LastIsPublished'
  BY <1>8 DEF Woken
<1>9. ASSUME NEW c \in Conns, ReadLast(c) PROVE LastIsPublished'
  BY <1>9 DEF ReadLast
<1>10. ASSUME NEW c \in Conns, GetConnectionString(c) PROVE LastIsPublished'
  BY <1>10 DEF GetConnectionString
<1>11. ASSUME NEW s \in ServerIds, ServerReady(s) PROVE LastIsPublished'
  BY <1>11 DEF ServerReady
<1>12. ASSUME NEW s \in ServerIds, ServerIdle(s) PROVE LastIsPublished'
  BY <1>12 DEF ServerIdle
<1>13. ASSUME NEW s \in ServerIds, ServerCloses(s) PROVE LastIsPublished'
  BY <1>13 DEF ServerCloses
<1>14. ASSUME NEW s \in ServerIds, ServerWritesStats(s) PROVE LastIsPublished'
  BY <1>14 DEF ServerWritesStats
<1>15. ASSUME NEW s \in ServerIds, ServerExits(s) PROVE LastIsPublished'
  BY <1>15 DEF ServerExits
<1>16. ASSUME NEW s \in ServerIds, ServerDies(s) PROVE LastIsPublished'
  BY <1>16 DEF ServerDies
<1>17. CASE Cancel
  BY <1>17 DEF Cancel
<1>18. CASE UNCHANGED vars
  BY <1>18 DEF vars
<1> QED
  BY <1>1, <1>2, <1>3, <1>4, <1>5, <1>6, <1>7, <1>8, <1>9,
     <1>10, <1>11, <1>12, <1>13, <1>14, <1>15, <1>16, <1>17, <1>18
  DEF Next, ConnStep, ServerStep

LEMMA WaitersPastDoneStep == IInv /\ TypeOK' /\ [Next]_vars => WaitersPastDone'
<1> SUFFICES ASSUME IInv, TypeOK', [Next]_vars PROVE WaitersPastDone'
  OBVIOUS
<1> USE DEF IInv, TypeOK, WaitersPastDone, Goto, At, Running, mmVars, serverVars, history,
            proxyVars
<1>1. ASSUME NEW c \in Conns, GetBestServer(c) PROVE WaitersPastDone'
  BY <1>1 DEF GetBestServer, Best, Eligible
<1>2. ASSUME NEW c \in Conns, StartWaiting(c) PROVE WaitersPastDone'
  BY <1>2 DEF StartWaiting, NewWaitGroup
<1>3. ASSUME NEW c \in Conns, CreateNewServer(c) PROVE WaitersPastDone'
  BY <1>3 DEF CreateNewServer, OneCreator, Creating
<1>4. ASSUME NEW c \in Conns, WaitForReady(c) PROVE WaitersPastDone'
  BY <1>4 DEF WaitForReady, OneCreator, Creating
<1>5. ASSUME NEW c \in Conns, StopWaiting(c) PROVE WaitersPastDone'
  BY <1>5 DEF StopWaiting, OneCreator, Creating
<1>6. ASSUME NEW c \in Conns, Wait(c) PROVE WaitersPastDone'
  BY <1>6 DEF Wait, OneCreator, Creating
<1>7. ASSUME NEW c \in Conns, Acquire(c) PROVE WaitersPastDone'
  BY <1>7 DEF Acquire
<1>8. ASSUME NEW c \in Conns, Woken(c) PROVE WaitersPastDone'
  BY <1>8 DEF Woken
<1>9. ASSUME NEW c \in Conns, ReadLast(c) PROVE WaitersPastDone'
  BY <1>9 DEF ReadLast
<1>10. ASSUME NEW c \in Conns, GetConnectionString(c) PROVE WaitersPastDone'
  BY <1>10 DEF GetConnectionString
<1>11. ASSUME NEW s \in ServerIds, ServerReady(s) PROVE WaitersPastDone'
  BY <1>11 DEF ServerReady
<1>12. ASSUME NEW s \in ServerIds, ServerIdle(s) PROVE WaitersPastDone'
  BY <1>12 DEF ServerIdle
<1>13. ASSUME NEW s \in ServerIds, ServerCloses(s) PROVE WaitersPastDone'
  BY <1>13 DEF ServerCloses
<1>14. ASSUME NEW s \in ServerIds, ServerWritesStats(s) PROVE WaitersPastDone'
  BY <1>14 DEF ServerWritesStats
<1>15. ASSUME NEW s \in ServerIds, ServerExits(s) PROVE WaitersPastDone'
  BY <1>15 DEF ServerExits
<1>16. ASSUME NEW s \in ServerIds, ServerDies(s) PROVE WaitersPastDone'
  BY <1>16 DEF ServerDies
<1>17. CASE Cancel
  BY <1>17 DEF Cancel
<1>18. CASE UNCHANGED vars
  BY <1>18 DEF vars
<1> QED
  BY <1>1, <1>2, <1>3, <1>4, <1>5, <1>6, <1>7, <1>8, <1>9,
     <1>10, <1>11, <1>12, <1>13, <1>14, <1>15, <1>16, <1>17, <1>18
  DEF Next, ConnStep, ServerStep

LEMMA OnlyOvertakenMissStep == IInv /\ TypeOK' /\ [Next]_vars => OnlyOvertakenMiss'
<1> SUFFICES ASSUME IInv, TypeOK', [Next]_vars PROVE OnlyOvertakenMiss'
  OBVIOUS
<1> USE DEF IInv, TypeOK, OnlyOvertakenMiss, Published, Goto, At, Running, mmVars, serverVars, history,
            proxyVars
<1>1. ASSUME NEW c \in Conns, GetBestServer(c) PROVE OnlyOvertakenMiss'
  BY <1>1 DEF GetBestServer, Best, Eligible
<1>2. ASSUME NEW c \in Conns, StartWaiting(c) PROVE OnlyOvertakenMiss'
  BY <1>2 DEF StartWaiting, NewWaitGroup
<1>3. ASSUME NEW c \in Conns, CreateNewServer(c) PROVE OnlyOvertakenMiss'
  BY <1>3 DEF CreateNewServer, OneCreator, Creating
<1>4. ASSUME NEW c \in Conns, WaitForReady(c) PROVE OnlyOvertakenMiss'
  BY <1>4 DEF WaitForReady, OneCreator, Creating
<1>5. ASSUME NEW c \in Conns, StopWaiting(c) PROVE OnlyOvertakenMiss'
  BY <1>5 DEF StopWaiting, OneCreator, Creating, CreatorsServer
<1>6. ASSUME NEW c \in Conns, Wait(c) PROVE OnlyOvertakenMiss'
  BY <1>6 DEF Wait, OneCreator, Creating
<1>7. ASSUME NEW c \in Conns, Acquire(c) PROVE OnlyOvertakenMiss'
  BY <1>7 DEF Acquire
<1>8. ASSUME NEW c \in Conns, Woken(c) PROVE OnlyOvertakenMiss'
  BY <1>8 DEF Woken
<1>9. ASSUME NEW c \in Conns, ReadLast(c) PROVE OnlyOvertakenMiss'
  BY <1>9 DEF ReadLast, WaitersPastDone, LastIsPublished
<1>10. ASSUME NEW c \in Conns, GetConnectionString(c) PROVE OnlyOvertakenMiss'
  BY <1>10 DEF GetConnectionString
<1>11. ASSUME NEW s \in ServerIds, ServerReady(s) PROVE OnlyOvertakenMiss'
  BY <1>11 DEF ServerReady
<1>12. ASSUME NEW s \in ServerIds, ServerIdle(s) PROVE OnlyOvertakenMiss'
  BY <1>12 DEF ServerIdle
<1>13. ASSUME NEW s \in ServerIds, ServerCloses(s) PROVE OnlyOvertakenMiss'
  BY <1>13 DEF ServerCloses
<1>14. ASSUME NEW s \in ServerIds, ServerWritesStats(s) PROVE OnlyOvertakenMiss'
  BY <1>14 DEF ServerWritesStats
<1>15. ASSUME NEW s \in ServerIds, ServerExits(s) PROVE OnlyOvertakenMiss'
  BY <1>15 DEF ServerExits
<1>16. ASSUME NEW s \in ServerIds, ServerDies(s) PROVE OnlyOvertakenMiss'
  BY <1>16 DEF ServerDies
<1>17. CASE Cancel
  BY <1>17 DEF Cancel
<1>18. CASE UNCHANGED vars
  BY <1>18 DEF vars
<1> QED
  BY <1>1, <1>2, <1>3, <1>4, <1>5, <1>6, <1>7, <1>8, <1>9,
     <1>10, <1>11, <1>12, <1>13, <1>14, <1>15, <1>16, <1>17, <1>18
  DEF Next, ConnStep, ServerStep

\* OneCreator and StartingIsPolled leave room for one starting server only.
LEMMA OneStarting == IInv => OneServerStarting
  BY DEF IInv, OneCreator, StartingIsPolled, OneServerStarting, Creating
-----------------------------------------------------------------------------
LEMMA Invariance == Spec => []IInv
<1>1. IInv /\ [Next]_vars => IInv'
  BY TypeStep, CreatorStep, RowsFollowServersStep, StartingIsPolledStep, CreatorsServerStep,
     LastIsPublishedStep, WaitersPastDoneStep, OnlyOvertakenMissStep DEF IInv
<1> QED
  BY <1>1, InitIInv, PTL DEF Spec

\* Every variable keeps its type; in particular the WaitGroup's counter never
\* goes below zero, which would be a panic.
THEOREM TypeCorrect == Spec => []TypeOK
<1>1. IInv => TypeOK
  BY DEF IInv
<1> QED
  BY <1>1, Invariance, PTL

\* startWaiting and stopWaiting let one goroutine at a time create a server.
THEOREM CreatorUnique == Spec => []OneCreator
<1>1. IInv => OneCreator
  BY DEF IInv
<1> QED
  BY <1>1, Invariance, PTL

\* The proxy never has two game servers on their way up.
THEOREM StartingUnique == Spec => []OneServerStarting
  BY OneStarting, Invariance, PTL

\* Only a waiter overtaken by a later creation can ask for the address of a
\* server that has no row.
THEOREM MissIsOvertaken == Spec => []OnlyOvertakenMiss
<1>1. IInv => OnlyOvertakenMiss
  BY DEF IInv
<1> QED
  BY <1>1, Invariance, PTL

\* Creations come one after the other, for any number of connections and servers.
THEOREM CreationsOneAtATime == Spec => []OneAtATime
<1>1. IInv => OneAtATime
  BY OneStarting DEF IInv, OneAtATime
<1> QED
  BY <1>1, Invariance, PTL

\* What a server does, and what is done to it, is a step of ServerRow.
LEMMA RowStep ==
  ASSUME IInv, [Next]_vars
  PROVE  \A s \in ServerIds : FollowsRow(s)
<1> SUFFICES ASSUME NEW s \in ServerIds PROVE FollowsRow(s)
  OBVIOUS
<1> USE DEF FollowsRow
<1>1. srv \in [ServerIds -> SrvState] /\ row \in [ServerIds -> Row] /\ nextId \in 0..MaxServers
  BY DEF IInv, TypeOK
<1>2. ASSUME NEW c \in Conns, CreateNewServer(c) PROVE FollowsRow(s)
  <2>1. nextId \in ServerIds /\ srv[nextId] = "none"
    BY <1>1, <1>2 DEF CreateNewServer, ServerIds, IInv, RowsFollowServers
  <2>2. srv' = [srv EXCEPT ![nextId] = "starting"] /\ row' = row
    BY <1>2 DEF CreateNewServer
  <2> QED
    BY <1>1, <2>1, <2>2 DEF Process!Spawn, Process!Next
<1>3. ASSUME NEW c \in Conns, ConnStep(c), ~CreateNewServer(c) PROVE UNCHANGED <<srv, row>>
  BY <1>3 DEF ConnStep, GetBestServer, StartWaiting, WaitForReady, StopWaiting, Wait, Acquire, Woken,
     ReadLast, GetConnectionString, serverVars
<1>4. ASSUME NEW t \in ServerIds, ServerStep(t), t # s PROVE UNCHANGED <<srv[s], row[s]>>
  BY <1>1, <1>4 DEF ServerStep, ServerReady, ServerIdle, ServerCloses, ServerWritesStats,
     ServerExits, ServerDies
<1>5. ASSUME ServerStep(s) PROVE Process(s)!Next
  <2> USE <1>1 DEF Process!Next
  <2>1. CASE ServerReady(s)
    BY <2>1 DEF ServerReady, Process!FirstPublish
  <2>2. CASE ServerIdle(s)
    BY <2>2 DEF ServerIdle, Process!GoIdle
  <2>3. CASE ServerCloses(s)
    BY <2>3 DEF ServerCloses, Process!GoClosed
  <2>4. CASE ServerWritesStats(s)
    <3>1. PICK st \in {"ready", "idle", "closed"}, l \in 0..MaxLoad :
             Rank(st) <= Rank(srv[s]) /\ row' = [row EXCEPT ![s] = [state |-> st, load |-> l]]
      BY <2>4 DEF ServerWritesStats
    <3>2. Process(s)!Rank(st) <= Process(s)!Rank(srv[s])
      BY <3>1 DEF Rank, Process!Rank
    <3>3. srv[s] \in {"ready", "idle", "closed"} /\ UNCHANGED srv
      BY <2>4 DEF ServerWritesStats
    <3>4. row[s]' = [state |-> st, load |-> l]
      BY <3>1
    <3>5. Process(s)!StatWrite
      BY <3>1, <3>2, <3>3, <3>4 DEF Process!StatWrite
    <3> QED
      BY <3>5
  <2>5. CASE ServerExits(s)
    BY <2>5 DEF ServerExits, Process!Exit
  <2>6. CASE ServerDies(s)
    BY <2>6 DEF ServerDies, Process!Exit
  <2> QED
    BY <1>5, <2>1, <2>2, <2>3, <2>4, <2>5, <2>6 DEF ServerStep
<1>6. CASE Cancel \/ UNCHANGED vars
  BY <1>6 DEF Cancel, vars, serverVars
<1> QED
  BY <1>2, <1>3, <1>4, <1>5, <1>6 DEF Next

\* Every server that the proxy spawns lives as ServerRow says, of which GameServer is the
\* other side.
THEOREM ServersFollow == Spec => ServersFollowRow
<1>1. IInv /\ [Next]_vars => [\A s \in ServerIds : FollowsRow(s)]_<<srv, row>>
  BY RowStep
<1> QED
  BY <1>1, Invariance, PTL DEF Spec, ServersFollowRow
=============================================================================
