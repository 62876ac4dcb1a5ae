----------------------------- MODULE MatchMaking -----------------------------
(***************************************************************************)
(* Matchmaking in the arcadevim proxy: am-proxy/matchmaking.go, run by one *)
(* goroutine per client connection, with server-management/local.go, which *)
(* starts game-server processes and reads their rows, and the queries of   *)
(* game-server-stats/sqlite.go.  Every label of pc is a point between two  *)
(* atomic regions of the Go code.  sync.WaitGroup is modelled by its       *)
(* counter, its waiter count and its semaphore, because the code replaces  *)
(* the WaitGroup in place while goroutines may still be inside Wait.       *)
(* The game servers are those of ServerRow.tla, one per id.                *)
(***************************************************************************)
EXTENDS ServerStates, FiniteSets

CONSTANTS Conns,          \* client connections, one goroutine each
          MaxServers,     \* bound: ids that CreateNewServer may hand out
          MaxStatWrites,  \* bound: stat writes of all servers
          Retires,        \* servers whose 30 s timers may expire in a behaviour
          Flaky           \* servers whose process may die on its own

ServerIds == 0..(MaxServers - 1)

ASSUME ConstAssumption == /\ MaxServers \in Nat \ {0}
                          /\ MaxStatWrites \in Nat
                          /\ Retires \subseteq ServerIds
                          /\ Flaky \subseteq ServerIds

\* "no id": the zero value of lastCreatedGameId, the empty string
NoGame == MaxServers

VARIABLES
  pc, gameId,            \* per goroutine: label, and the local gameId
  waitingForServer, wg,  \* MatchMakingServer
  lastCreatedGameId,
  nextId,                \* the package variable id of local.go
  srv, row, statWrites,  \* the game servers and their rows
  ctxDone,               \* the proxy's context is cancelled
  crash,                 \* why the proxy process ended, "none" while it runs
  gen, joined            \* history: creations begun, the one a goroutine joined

mmVars     == <<waitingForServer, wg, lastCreatedGameId, nextId>>
serverVars == <<srv, row, statWrites>>
history    == <<gen, joined>>
vars == <<pc, gameId, mmVars, serverVars, ctxDone, crash, history>>

Label == {"matchmake", "start", "create", "poll", "stop",
          "wait", "sema", "woken", "last", "connstr", "matched"}
Creating == {"create", "poll", "stop"}
Crash == {"none", "no_address", "closed_unexpectedly", "waitgroup_reused"}

NewWaitGroup == [counter |-> 0, waiters |-> 0, sema |-> 0]

TypeOK == /\ pc \in [Conns -> Label]
          /\ gameId \in [Conns -> ServerIds \cup {NoGame}]
          /\ waitingForServer \in BOOLEAN
          /\ wg \in [counter : Nat, waiters : Nat, sema : Nat]
          /\ lastCreatedGameId \in ServerIds \cup {NoGame}
          /\ nextId \in 0..MaxServers
          /\ srv \in [ServerIds -> SrvState]
          /\ row \in [ServerIds -> Row]
          /\ statWrites \in 0..MaxStatWrites
          /\ ctxDone \in BOOLEAN
          /\ crash \in Crash
          /\ gen \in Nat
          /\ joined \in [Conns -> Nat]

Init == /\ pc = [c \in Conns |-> "matchmake"]
        /\ gameId = [c \in Conns |-> NoGame]
        /\ waitingForServer = FALSE
        /\ wg = NewWaitGroup
        /\ lastCreatedGameId = NoGame
        /\ nextId = 0
        /\ srv = [s \in ServerIds |-> "none"]
        /\ row = [s \in ServerIds |-> NoRow]
        /\ statWrites = 0
        /\ ctxDone = FALSE
        /\ crash = "none"
        /\ gen = 0
        /\ joined = [c \in Conns |-> 0]
-----------------------------------------------------------------------------
(* matchmaking.go: the steps of goroutine c *)

Running == crash = "none"

At(c, label) == Running /\ pc[c] = label

Goto(c, label) == pc' = [pc EXCEPT ![c] = label]

\* GetById finds a row.
Published(s) == s \in ServerIds /\ row[s].state # "none"

\* GetServersByUtilization(MaxLoad): ready, below the limit, fullest first.
Eligible == {s \in ServerIds : row[s].state = "ready" /\ row[s].load < MaxLoad}
Best == {s \in Eligible : \A t \in Eligible : row[t].load <= row[s].load}

\* GetBestServer.  NoBestServer leads to createAndWait.
GetBestServer(c) ==
  /\ At(c, "matchmake")
  /\ \/ /\ Best # {}
        /\ \E s \in Best : gameId' = [gameId EXCEPT ![c] = s]
        /\ Goto(c, "connstr")
     \/ /\ Best = {}
        /\ Goto(c, "start")
        /\ UNCHANGED gameId
  /\ UNCHANGED <<mmVars, serverVars, ctxDone, crash, history>>

\* Seeded bug: startWaiting forgets to set the flag.
StartWaitingNoFlag(c) ==
  /\ At(c, "start") /\ ~waitingForServer
  /\ wg' = [counter |-> 1, waiters |-> 0, sema |-> 0]
  /\ gen' = gen + 1
  /\ Goto(c, "create")
  /\ UNCHANGED <<waitingForServer, joined, gameId, lastCreatedGameId, nextId,
                 serverVars, ctxDone, crash>>

\* startWaiting, under the mutex: the first one in becomes the creator and
\* puts a fresh WaitGroup where the last one was.
StartWaiting(c) ==
  /\ At(c, "start")
  /\ \/ /\ ~waitingForServer
        /\ waitingForServer' = TRUE
        /\ wg' = [counter |-> 1, waiters |-> 0, sema |-> 0]
        /\ gen' = gen + 1
        /\ Goto(c, "create")
        /\ UNCHANGED joined
     \/ /\ waitingForServer
        /\ joined' = [joined EXCEPT ![c] = gen]
        /\ Goto(c, "wait")
        /\ UNCHANGED <<waitingForServer, wg, gen>>
  /\ UNCHANGED <<gameId, lastCreatedGameId, nextId, serverVars, ctxDone, crash>>

\* Seeded bug: createAndWait does not wait for the server it spawned.
CreateNewServerNoWait(c) ==
  /\ At(c, "create") /\ nextId < MaxServers
  /\ gameId' = [gameId EXCEPT ![c] = nextId]
  /\ lastCreatedGameId' = nextId
  /\ nextId' = nextId + 1
  /\ srv' = [srv EXCEPT ![nextId] = "starting"]
  /\ Goto(c, "stop")
  /\ UNCHANGED <<waitingForServer, wg, row, statWrites, ctxDone, crash, history>>

\* CreateNewServer spawns a process with the next id; the id is recorded as
\* the last created one before anyone knows whether the server will be ready.
CreateNewServer(c) ==
  /\ At(c, "create")
  /\ nextId < MaxServers
  /\ gameId' = [gameId EXCEPT ![c] = nextId]
  /\ lastCreatedGameId' = nextId
  /\ nextId' = nextId + 1
  /\ srv' = [srv EXCEPT ![nextId] = "starting"]
  /\ Goto(c, "poll")
  /\ UNCHANGED <<waitingForServer, wg, row, statWrites, ctxDone, crash, history>>

\* Seeded bug: the poll does not check that there is a row.
WaitForReadyNoRow(c) ==
  /\ At(c, "poll")
  /\ row[gameId[c]].state # "idle"
  /\ Goto(c, "stop")
  /\ UNCHANGED <<gameId, mmVars, serverVars, ctxDone, crash, history>>

\* Seeded bug: the poll does not stop for a closed server.
WaitForReadyOnly(c) ==
  /\ At(c, "poll")
  /\ row[gameId[c]].state = "ready"
  /\ Goto(c, "stop")
  /\ UNCHANGED <<gameId, mmVars, serverVars, ctxDone, crash, history>>

\* WaitForReady: the poll that sees a ready, or a closed, server.
WaitForReady(c) ==
  /\ At(c, "poll")
  /\ row[gameId[c]].state \in {"ready", "closed"}
  /\ Goto(c, "stop")
  /\ UNCHANGED <<gameId, mmVars, serverVars, ctxDone, crash, history>>

\* Seeded bug: stopWaiting lowers the flag and forgets Done.
StopWaitingNoDone(c) ==
  /\ At(c, "stop")
  /\ waitingForServer' = FALSE
  /\ Goto(c, "connstr")
  /\ UNCHANGED <<wg, gameId, lastCreatedGameId, nextId, serverVars, ctxDone, crash,
                 history>>

\* stopWaiting, under the mutex.  Done brings the counter to zero and releases
\* the semaphore once for every waiter.
StopWaiting(c) ==
  /\ At(c, "stop")
  /\ IF waitingForServer
     THEN /\ waitingForServer' = FALSE
          /\ wg' = [counter |-> wg.counter - 1, waiters |-> 0,
                    sema |-> wg.sema + wg.waiters]
     ELSE UNCHANGED <<waitingForServer, wg>>
  /\ Goto(c, "connstr")
  /\ UNCHANGED <<gameId, lastCreatedGameId, nextId, serverVars, ctxDone, crash,
                 history>>

\* wait.Wait(), first half: return at once, or be counted as a waiter.
Wait(c) ==
  /\ At(c, "wait")
  /\ \/ /\ wg.counter = 0
        /\ Goto(c, "last")
        /\ UNCHANGED wg
     \/ /\ wg.counter > 0
        /\ wg' = [wg EXCEPT !.waiters = @ + 1]
        /\ Goto(c, "sema")
  /\ UNCHANGED <<gameId, waitingForServer, lastCreatedGameId, nextId, serverVars,
                 ctxDone, crash, history>>

\* wait.Wait(), parked on the semaphore of whichever WaitGroup is there now.
Acquire(c) ==
  /\ At(c, "sema")
  /\ wg.sema > 0
  /\ wg' = [wg EXCEPT !.sema = @ - 1]
  /\ Goto(c, "woken")
  /\ UNCHANGED <<gameId, waitingForServer, lastCreatedGameId, nextId, serverVars,
                 ctxDone, crash, history>>

\* wait.Wait(), after waking: "WaitGroup is reused before previous Wait has
\* returned" is a panic of the Go runtime.
Woken(c) ==
  /\ At(c, "woken")
  /\ \/ /\ wg.counter = 0 /\ wg.waiters = 0
        /\ Goto(c, "last")
        /\ UNCHANGED crash
     \/ /\ wg.counter # 0 \/ wg.waiters # 0
        /\ crash' = "waitgroup_reused"
        /\ UNCHANGED pc
  /\ UNCHANGED <<gameId, mmVars, serverVars, ctxDone, history>>

\* A waiter takes whatever id was created last, without the mutex.
ReadLast(c) ==
  /\ At(c, "last")
  /\ gameId' = [gameId EXCEPT ![c] = lastCreatedGameId]
  /\ Goto(c, "connstr")
  /\ UNCHANGED <<mmVars, serverVars, ctxDone, crash, history>>

\* GetConnectionString: "" for an id without a row, on which matchmake's
\* assertion ends the process.
GetConnectionString(c) ==
  /\ At(c, "connstr")
  /\ \/ /\ Published(gameId[c])
        /\ Goto(c, "matched")
        /\ UNCHANGED crash
     \/ /\ ~Published(gameId[c])
        /\ crash' = "no_address"
        /\ UNCHANGED pc
  /\ UNCHANGED <<gameId, mmVars, serverVars, ctxDone, history>>
-----------------------------------------------------------------------------
(* The game servers (ServerRow.tla, one per id) and the goroutine of         *)
(* CreateNewServer that watches each process                                 *)

proxyVars == <<pc, gameId, mmVars, history>>

\* The end of process s, seen by the goroutine that ran it: anything but a
\* closed row is unexpected, unless the proxy is being shut down.
CmderDone(s) ==
  crash' = IF ctxDone \/ row[s].state = "closed" THEN crash
                                                 ELSE "closed_unexpectedly"

ServerReady(s) ==
  /\ Running /\ srv[s] = "starting"
  /\ srv' = [srv EXCEPT ![s] = "ready"]
  /\ row' = [row EXCEPT ![s] = [state |-> "ready", load |-> 0]]
  /\ UNCHANGED <<proxyVars, statWrites, ctxDone, crash>>

ServerIdle(s) ==
  /\ Running /\ srv[s] = "ready" /\ s \in Retires
  /\ srv' = [srv EXCEPT ![s] = "idle"]
  /\ row' = [row EXCEPT ![s] = [state |-> "idle", load |-> 0]]
  /\ UNCHANGED <<proxyVars, statWrites, ctxDone, crash>>

ServerCloses(s) ==
  /\ Running /\ srv[s] = "idle"
  /\ srv' = [srv EXCEPT ![s] = "closed"]
  /\ row' = [row EXCEPT ![s] = [state |-> "closed", load |-> 0]]
  /\ UNCHANGED <<proxyVars, statWrites, ctxDone, crash>>

\* The stat updater's write of a copy taken earlier.
ServerWritesStats(s) ==
  /\ Running /\ srv[s] \in {"ready", "idle", "closed"}
  /\ statWrites < MaxStatWrites
  /\ statWrites' = statWrites + 1
  /\ \E st \in {"ready", "idle", "closed"}, l \in 0..MaxLoad :
        /\ Rank(st) <= Rank(srv[s])
        /\ row' = [row EXCEPT ![s] = [state |-> st, load |-> l]]
  /\ UNCHANGED <<proxyVars, srv, ctxDone, crash>>

\* Run has returned and main with it.
ServerExits(s) ==
  /\ Running /\ srv[s] = "closed"
  /\ srv' = [srv EXCEPT ![s] = "exited"]
  /\ CmderDone(s)
  /\ UNCHANGED <<proxyVars, row, statWrites, ctxDone>>

\* The process dies: a failed build, a port taken, an assertion, or the kill
\* that a cancelled context brings.
ServerDies(s) ==
  /\ Running /\ srv[s] \in {"starting", "ready", "idle"}
  /\ s \in Flaky \/ ctxDone
  /\ srv' = [srv EXCEPT ![s] = "exited"]
  /\ CmderDone(s)
  /\ UNCHANGED <<proxyVars, row, statWrites, ctxDone>>

\* The proxy's context is cancelled.  Nothing in matchmake looks at it.
Cancel ==
  /\ Running /\ ~ctxDone
  /\ ctxDone' = TRUE
  /\ UNCHANGED <<proxyVars, serverVars, crash>>
-----------------------------------------------------------------------------
ConnStep(c) ==
  \/ GetBestServer(c) \/ StartWaiting(c) \/ CreateNewServer(c)
  \/ WaitForReady(c) \/ StopWaiting(c) \/ Wait(c) \/ Acquire(c) \/ Woken(c)
  \/ ReadLast(c) \/ GetConnectionString(c)

ServerStep(s) ==
  \/ ServerReady(s) \/ ServerIdle(s) \/ ServerCloses(s)
  \/ ServerWritesStats(s) \/ ServerExits(s) \/ ServerDies(s)

Next == \/ \E c \in Conns : ConnStep(c)
        \/ \E s \in ServerIds : ServerStep(s)
        \/ Cancel

\* Goroutines are scheduled, a spawned server gets to publish its row, and an
\* idle one is left by its clients and closes.
Fairness == /\ \A c \in Conns : WF_vars(ConnStep(c))
            /\ \A s \in ServerIds : /\ WF_vars(ServerReady(s))
                                    /\ WF_vars(ServerCloses(s))
                                    /\ WF_vars(ServerExits(s))

Spec == Init /\ [][Next]_vars /\ Fairness
-----------------------------------------------------------------------------
(* Properties *)

\* The flag, the WaitGroup's counter and the creating goroutine agree: there
\* is one creator exactly while waitingForServer is set, and the counter that
\* the waiters wait for is its alone.
OneCreator ==
  /\ \A c, d \in Conns : pc[c] \in Creating /\ pc[d] \in Creating => c = d
  /\ waitingForServer <=> \E c \in Conns : pc[c] \in Creating
  /\ wg.counter = IF waitingForServer THEN 1 ELSE 0

\* However many clients arrive at once, the proxy never has two game servers
\* on their way up: createAndWait serialises the spawns.
OneServerStarting ==
  \A s, t \in ServerIds : srv[s] = "starting" /\ srv[t] = "starting" => s = t

\* createAndWait takes creations one after the other: every variable keeps its type (the
\* WaitGroup's counter never goes below zero), one goroutine creates, one server starts.
OneAtATime == TypeOK /\ OneCreator /\ OneServerStarting

\* A goroutine that asks for the address of a server that never published a
\* row (and so trips the assertion of matchmake) was waiting for one server
\* when the creation of a later one began: without being overtaken, no waiter
\* and no creator ever gets there.
OnlyOvertakenMiss ==
  \A c \in Conns : pc[c] = "connstr" /\ ~Published(gameId[c])
                    => 0 < joined[c] /\ joined[c] < gen

\* A creation ends, whatever the server does meanwhile: WaitForReady has no
\* timeout, so every fate of a server must show up in its row or end the proxy.
CreationEnds ==
  \A c \in Conns :
     pc[c] \in Creating ~> pc[c] \notin Creating \/ crash # "none" \/ ctxDone

\* Every goroutine parked in Wait is released and matched, unless a waiter of
\* an earlier creation is still parked (its WaitGroup was replaced under it).
LeftBehind == \E d \in Conns : pc[d] = "sema" /\ joined[d] < gen
WaitersReleased ==
  \A c \in Conns :
     pc[c] = "sema" ~> pc[c] = "matched" \/ LeftBehind \/ crash # "none" \/ ctxDone

\* Each server of the model lives as ServerRow.tla says, whoever spawns it and whenever it dies.
Process(s) == INSTANCE ServerRow WITH srv <- srv[s], row <- row[s]
FollowsRow(s) == Process(s)!Next \/ UNCHANGED <<srv[s], row[s]>>
ServersFollowRow == [][\A s \in ServerIds : FollowsRow(s)]_<<srv, row>>
=============================================================================
