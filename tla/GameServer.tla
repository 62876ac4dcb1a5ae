------------------------------ MODULE GameServer ------------------------------
(***************************************************************************)
(* One game-server process: the GameServerRunner of pkg/api/server.go as   *)
(* cmd/api-server/main.go runs it.  The goroutines are the accept-or-timer *)
(* loop of Run (pc), one handleConnection per client (cl), the stat        *)
(* updater (upd) and the one that closes the database on interrupt.  They  *)
(* share g.stats: incConnections changes it under the mutex, everybody     *)
(* reads it without.                                                       *)
(***************************************************************************)
EXTENDS ServerStates, FiniteSets

CONSTANTS Clients,       \* connections that may be dialed
          Droppers,      \* those that may vanish without a close packet
          Interruptible  \* may the process be interrupted (ctrl-c)?

Free == "free"  \* nobody holds the mutex

ASSUME GSAssumption == /\ IsFiniteSet(Clients)
                       /\ Free \notin Clients
                       /\ Droppers \subseteq Clients
                       /\ Interruptible \in BOOLEAN

VARIABLES
  pc,                      \* main and Run
  st,                      \* g.stats.State
  conns, added, removed,   \* g.stats.Connections, ConnectionsAdded, -Removed
  mutex,                   \* the client whose incConnections holds g.mutex
  cl,                      \* each client and its handleConnection
  upd,                     \* handleStatUpdating: pc, prev and next; history: wrote it any?
  row,                     \* the row in the database
  ctxDone, interrupted, dbClosed,
  crash                    \* the assertion or panic that ended the process

stats == <<st, conns, added, removed>>
env   == <<ctxDone, interrupted, dbClosed>>
vars  == <<pc, stats, mutex, cl, upd, row, env, crash>>

Label == {"none", "main", "select", "ready", "closing", "final", "returned", "exited"}
ClientState == {"out", "dialed", "spawned", "inc", "open", "dropped", "leaving",
                "dec", "gone"}
Crash == {"none", "conn_after_close", "unknown_state", "db_closed"}
StatsRecord == [state : RowState, conns : Nat, added : Nat, removed : Nat]

\* A copy of g.stats as it is now.
Stats == [state |-> st, conns |-> conns, added |-> added, removed |-> removed]

\* GameServerConfig.Equal: the state is not compared.
Equal(a, b) == a.conns = b.conns /\ a.added = b.added /\ a.removed = b.removed

NoStats == [state |-> "none", conns |-> 0, added |-> 0, removed |-> 0]

TypeOK == /\ pc \in Label
          /\ st \in RowState
          /\ conns \in Nat /\ added \in Nat /\ removed \in Nat
          /\ mutex \in Clients \cup {Free}
          /\ cl \in [Clients -> ClientState]
          /\ upd \in [pc : {"off", "start", "began", "tick", "copy", "write"}, prev : StatsRecord,
                      next : StatsRecord, wrote : BOOLEAN]
          /\ row \in StatsRecord
          /\ ctxDone \in BOOLEAN /\ interrupted \in BOOLEAN /\ dbClosed \in BOOLEAN
          /\ crash \in Crash

Init == /\ pc = "none" /\ st = "ready"
        /\ conns = 0 /\ added = 0 /\ removed = 0
        /\ mutex = Free
        /\ cl = [c \in Clients |-> "out"]
        /\ upd = [pc |-> "off", prev |-> NoStats, next |-> NoStats, wrote |-> FALSE]
        /\ row = NoStats
        /\ ctxDone = FALSE /\ interrupted = FALSE /\ dbClosed = FALSE
        /\ crash = "none"

Running == crash = "none" /\ pc # "exited"

\* Sqlite.Update with a closed database: Exec has no result to ask for the
\* rows affected, and the process panics.
Update(r) == IF dbClosed THEN crash' = "db_closed" /\ UNCHANGED row
                         ELSE row' = r /\ UNCHANGED crash
-----------------------------------------------------------------------------
(* main and Run *)

\* The process is spawned; main configures the runner.
Main == /\ Running /\ pc = "none"
        /\ pc' = "main"
        /\ UNCHANGED <<stats, mutex, cl, upd, row, env, crash>>

\* Seeded bug: the first state is not published.
StartUnpublished == /\ Running /\ pc = "main"
                    /\ pc' = "select"
                    /\ upd' = [upd EXCEPT !.pc = "start"]
                    /\ st' = "ready"
                    /\ UNCHANGED <<row, crash, conns, added, removed, mutex, cl, env>>

\* Run up to its loop: listen, start the stat updater's goroutine, publish "ready".
Start == /\ Running /\ pc = "main"
         /\ pc' = "select"
         /\ upd' = [upd EXCEPT !.pc = "start"]
         /\ Update([Stats EXCEPT !.state = "ready"])
         /\ st' = "ready"
         /\ UNCHANGED <<conns, added, removed, mutex, cl, env>>

\* A turn of the loop lasts 30 s before its timer fires.  By then a client that
\* was taken from the channel has been counted, and the stat updater is neither
\* in the middle of a copy nor still writing (the database gives up after 3 s)
\* one that it took before the last timer.
TurnIsLong == /\ \A c \in Clients : cl[c] # "spawned"
              /\ upd.pc # "copy"
              /\ upd.pc = "write" => upd.next.state = st

\* Seeded bug: the timer does not look at the connections.
TimerCloses ==
  /\ Running /\ pc = "select" /\ mutex = Free /\ TurnIsLong
  /\ st' = IF st = "ready" THEN "idle" ELSE "closed"
  /\ Update([Stats EXCEPT !.state = st'])
  /\ ctxDone' = (ctxDone \/ st = "idle")
  /\ pc' = IF ctxDone' THEN "closing" ELSE "select"
  /\ UNCHANGED <<conns, added, removed, mutex, cl, upd, interrupted, dbClosed>>

\* The timer, with nobody connected.
Timer ==
  /\ Running /\ pc = "select"
  /\ conns = 0 /\ mutex = Free /\ TurnIsLong
  /\ IF st = "ready"
     THEN /\ st' = "idle"
          /\ Update([Stats EXCEPT !.state = "idle"])
          /\ pc' = IF ctxDone THEN "closing" ELSE "select"
          /\ UNCHANGED ctxDone
     ELSE IF st = "idle"
     THEN /\ st' = "closed"
          /\ Update([Stats EXCEPT !.state = "closed"])
          /\ ctxDone' = TRUE
          /\ pc' = "closing"
     ELSE /\ crash' = "unknown_state"
          /\ UNCHANGED <<st, row, pc, ctxDone>>
  /\ UNCHANGED <<conns, added, removed, mutex, cl, upd, interrupted, dbClosed>>

\* A connection comes out of the channel.  In "closing" the context was done
\* before this turn began, and select may still take the connection.
Accept(c) ==
  /\ Running /\ pc \in {"select", "closing"}
  /\ cl[c] = "dialed"
  /\ IF st = "closed"
     THEN /\ crash' = "conn_after_close"
          /\ UNCHANGED <<cl, pc>>
     ELSE /\ cl' = [cl EXCEPT ![c] = "spawned"]
          /\ pc' = "ready"
          /\ UNCHANGED crash
  /\ UNCHANGED <<stats, mutex, upd, row, env>>

\* ready(), as the code has it: a server that is not ready is set to idle.
Ready ==
  /\ Running /\ pc = "ready"
  /\ \/ /\ st = "ready"
        /\ UNCHANGED <<st, row, crash>>
     \/ /\ st # "ready" /\ mutex = Free
        /\ st' = "idle"
        /\ Update([Stats EXCEPT !.state = "idle"])
  /\ pc' = IF ctxDone THEN "closing" ELSE "select"
  /\ UNCHANGED <<conns, added, removed, mutex, cl, upd, env>>

\* select sees the context done and leaves the loop.
LeaveLoop == /\ Running /\ pc \in {"select", "closing"} /\ ctxDone
             /\ pc' = "final"
             /\ UNCHANGED <<stats, mutex, cl, upd, row, env, crash>>

\* The end of Run: the last state is published without the mutex.
Final == /\ Running /\ pc = "final"
         /\ st' = "closed"
         /\ Update([Stats EXCEPT !.state = "closed"])
         /\ pc' = "returned"
         /\ UNCHANGED <<conns, added, removed, mutex, cl, upd, env>>

\* Run's deferred function closes the listener and wakes main, which returns.
Exit == /\ Running /\ pc = "returned"
        /\ pc' = "exited"
        /\ UNCHANGED <<stats, mutex, cl, upd, row, env, crash>>
-----------------------------------------------------------------------------
(* Clients and handleConnection *)

Listening == pc \in {"select", "ready", "closing", "final"}

Dial(c) == /\ Running /\ Listening /\ cl[c] = "out"
           /\ cl' = [cl EXCEPT ![c] = "dialed"]
           /\ UNCHANGED <<pc, stats, mutex, upd, row, env, crash>>

\* incConnections(1), first Connections, then ConnectionsAdded.
IncConnections(c) ==
  /\ Running
  /\ \/ /\ cl[c] = "spawned" /\ mutex = Free
        /\ mutex' = c
        /\ conns' = conns + 1
        /\ cl' = [cl EXCEPT ![c] = "inc"]
        /\ UNCHANGED added
     \/ /\ cl[c] = "inc"
        /\ added' = added + 1
        /\ mutex' = Free
        /\ cl' = [cl EXCEPT ![c] = "open"]
        /\ UNCHANGED conns
  /\ UNCHANGED <<pc, st, removed, upd, row, env, crash>>

\* Seeded bug: handleConnection does not defer incConnections(-1).
ReturnNoDec(c) ==
  /\ Running /\ cl[c] \in {"open", "dropped"}
  /\ cl' = [cl EXCEPT ![c] = "gone"]
  /\ UNCHANGED <<pc, stats, mutex, upd, row, env, crash>>

\* The loop of handleConnection returns: the client's close packet, or the
\* context.
Return(c) ==
  /\ Running
  /\ cl[c] = "open" \/ (ctxDone /\ cl[c] = "dropped")
  /\ cl' = [cl EXCEPT ![c] = "leaving"]
  /\ UNCHANGED <<pc, stats, mutex, upd, row, env, crash>>

\* The client's socket is gone; nothing closes the framer's channel, and
\* handleConnection waits on.
Drop(c) == /\ Running /\ cl[c] = "open" /\ c \in Droppers
           /\ cl' = [cl EXCEPT ![c] = "dropped"]
           /\ UNCHANGED <<pc, stats, mutex, upd, row, env, crash>>

\* Seeded bug: the removal does not take the mutex.
DecConnectionsNoLock(c) ==
  /\ Running
  /\ \/ /\ cl[c] = "leaving"
        /\ conns' = conns - 1
        /\ cl' = [cl EXCEPT ![c] = "dec"]
        /\ UNCHANGED removed
     \/ /\ cl[c] = "dec"
        /\ removed' = removed + 1
        /\ cl' = [cl EXCEPT ![c] = "gone"]
        /\ UNCHANGED conns
  /\ UNCHANGED <<mutex, pc, st, added, upd, row, env, crash>>

\* The deferred incConnections(-1).
DecConnections(c) ==
  /\ Running
  /\ \/ /\ cl[c] = "leaving" /\ mutex = Free
        /\ mutex' = c
        /\ conns' = conns - 1
        /\ cl' = [cl EXCEPT ![c] = "dec"]
        /\ UNCHANGED removed
     \/ /\ cl[c] = "dec"
        /\ removed' = removed + 1
        /\ mutex' = Free
        /\ cl' = [cl EXCEPT ![c] = "gone"]
        /\ UNCHANGED conns
  /\ UNCHANGED <<pc, st, added, upd, row, env, crash>>
-----------------------------------------------------------------------------
(* handleStatUpdating *)

\* Its goroutine runs at last, whatever has been counted by then: it takes g.stats,
\* field after field and without the mutex, for what is in the row.
StatStart ==
  /\ Running
  /\ \/ /\ upd.pc = "start"
        /\ upd' = [upd EXCEPT !.pc = "began", !.prev = Stats]
     \/ /\ upd.pc = "began"
        /\ upd' = [upd EXCEPT !.pc = "tick", !.prev = [upd.prev EXCEPT !.added = added, !.removed = removed]]
  /\ UNCHANGED <<pc, stats, mutex, cl, row, env, crash>>

\* A tick copies g.stats without the mutex, field after field: what
\* incConnections does in between is in one half of the copy only.
StatTick == /\ Running /\ upd.pc = "tick"
            /\ upd' = [upd EXCEPT !.pc = "copy", !.next = Stats]
            /\ UNCHANGED <<pc, stats, mutex, cl, row, env, crash>>

StatCopy ==
  /\ Running /\ upd.pc = "copy"
  /\ LET next == [upd.next EXCEPT !.added = added, !.removed = removed]
     IN upd' = [upd EXCEPT !.next = next,
                           !.pc = IF Equal(next, upd.prev) THEN "tick" ELSE "write"]
  /\ UNCHANGED <<pc, stats, mutex, cl, row, env, crash>>

\* Seeded bug: what was written is taken to be what there is now.
StatWritePrevNow == /\ Running /\ upd.pc = "write"
                    /\ Update(upd.next)
                    /\ upd' = [upd EXCEPT !.pc = "tick", !.prev = Stats, !.wrote = TRUE]
                    /\ UNCHANGED <<pc, stats, mutex, cl, env>>

\* The copy reaches the database later.
StatWrite == /\ Running /\ upd.pc = "write"
             /\ Update(upd.next)
             /\ upd' = [upd EXCEPT !.pc = "tick", !.prev = upd.next, !.wrote = TRUE]
             /\ UNCHANGED <<pc, stats, mutex, cl, env>>

StatStop == /\ Running /\ upd.pc = "tick" /\ ctxDone
            /\ upd' = [upd EXCEPT !.pc = "off"]
            /\ UNCHANGED <<pc, stats, mutex, cl, row, env, crash>>
-----------------------------------------------------------------------------
(* ctrl-c: the context is cancelled, and Sqlite.Run closes the database *)

Interrupt == /\ Running /\ Interruptible /\ ~interrupted /\ pc # "none"
             /\ interrupted' = TRUE /\ ctxDone' = TRUE
             /\ UNCHANGED <<pc, stats, mutex, cl, upd, row, dbClosed, crash>>

CloseDB == /\ Running /\ interrupted /\ ~dbClosed
           /\ dbClosed' = TRUE
           /\ UNCHANGED <<pc, stats, mutex, cl, upd, row, ctxDone, interrupted, crash>>
-----------------------------------------------------------------------------
RunStep == Main \/ Start \/ Timer \/ Ready \/ LeaveLoop \/ Final \/ Exit
ClientStep(c) == \/ Dial(c) \/ Accept(c) \/ IncConnections(c)
                 \/ Return(c) \/ Drop(c) \/ DecConnections(c)
StatStep == StatStart \/ StatTick \/ StatCopy \/ StatWrite \/ StatStop

Next == \/ RunStep \/ StatStep \/ Interrupt \/ CloseDB
        \/ \E c \in Clients : ClientStep(c)

\* Goroutines run, and a client that stays connected closes in the end; nobody
\* is obliged to dial.  An expired timer stays in its channel, so the ticks of
\* the stat updater cannot keep it from being taken (SF).
Fairness == /\ WF_vars(RunStep) /\ SF_vars(Timer) /\ WF_vars(StatStep)
            /\ \A c \in Clients : /\ WF_vars(Accept(c)) /\ WF_vars(IncConnections(c))
                                  /\ WF_vars(DecConnections(c))
                                  /\ WF_vars(Return(c))

Spec == Init /\ [][Next]_vars /\ Fairness
-----------------------------------------------------------------------------
(* Properties *)

\* Clients that incConnections has counted and not yet uncounted.
Counted == {c \in Clients : cl[c] \in {"inc", "open", "dropped", "leaving"}}

\* Connections counts exactly the clients between their two incConnections,
\* however these interleave, and outside the mutex the three counters agree.
CountsAgree == /\ conns = Cardinality(Counted)
               /\ mutex = Free => conns + removed = added

\* A server that closes itself leaves nobody behind: no client it has counted,
\* or is about to count, is there when its state becomes closed.
ClosesEmpty ==
  st = "closed" /\ ~interrupted => /\ Counted = {}
                                   /\ \A c \in Clients : cl[c] # "spawned"

\* The updater began after clients had been counted, takes their counters, which are
\* still the server's, for written, and has not written any.
Overlooked == upd.pc = "tick" /\ ~upd.wrote /\ Equal(upd.prev, Stats)

\* The row's counters catch up with the server's, although the updater copies
\* them in the middle of incConnections and others write the row meanwhile; if
\* clients were overlooked, then with the next change.  (A client that vanishes keeps
\* the server up for ever, and one that was overlooked is never in the row.)
RowCatchesUp ==
  ~Equal(row, Stats) ~> Equal(row, Stats) \/ Overlooked \/ ctxDone \/ crash # "none"

\* A server whose clients all say goodbye goes idle, closes and exits, unless a
\* connection comes between the closing and the end of the loop, or an interrupt
\* closes its database first.  (A client that vanishes keeps it up.)
ShutsDown == \/ <>(pc = "exited" \/ crash # "none")
             \/ <>[](\E c \in Clients : cl[c] = "dropped")

\* The process and its row, as the proxy may rely on them.
Capped(n) == IF n < MaxLoad THEN n ELSE MaxLoad
Seen(r) == [state |-> r.state, load |-> Capped(r.conns)]
Life == IF crash # "none" THEN "exited"
        ELSE CASE pc = "none" -> "none" [] pc = "main" -> "starting"
               [] pc = "exited" -> "exited" [] OTHER -> st
Promise == INSTANCE ServerRow WITH srv <- Life, row <- Seen(row)

\* The process and its row live as ServerRow.tla says: the proxy sees a server
\* first when it is ready and empty, never in a state it has not reached yet,
\* and nothing after it has exited.
KeepsPromise == Promise!Spec
=============================================================================
