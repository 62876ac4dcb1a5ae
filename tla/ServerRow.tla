------------------------------ MODULE ServerRow ------------------------------
(***************************************************************************)
(* What one game-server process promises to the rest of arcadevim: the     *)
(* life of the process (srv) and of its row in the GameServerConfigs table *)
(* (row), which is all that the proxy ever sees of it.  GameServer.tla     *)
(* (the runner of pkg/api/server.go) is shown to implement this module,    *)
(* and MatchMaking.tla (the proxy's side) is built against it.             *)
(***************************************************************************)
EXTENDS ServerStates

VARIABLES srv, row

vars == <<srv, row>>

TypeOK == srv \in SrvState /\ row \in Row

Init == srv = "none" /\ row = NoRow

Spawn == /\ srv = "none"
         /\ srv' = "starting"
         /\ UNCHANGED row

\* Run: the first thing a server publishes is that it is ready and empty.
FirstPublish == /\ srv = "starting"
                /\ srv' = "ready"
                /\ row' = [state |-> "ready", load |-> 0]

\* idle(): the runner's timer, with no connection left.
GoIdle == /\ srv = "ready"
          /\ srv' = "idle"
          /\ row' = [state |-> "idle", load |-> 0]

\* closeDown(), or the end of Run once its context is cancelled.
GoClosed == /\ srv \in {"ready", "idle"}
            /\ srv' = "closed"
            /\ \E l \in 0..MaxLoad : row' = [state |-> "closed", load |-> l]

\* A write of a copy of the stats taken at any earlier moment: the state in it
\* may be older than the one already published, never newer, and never of a
\* row that was not there.
StatWrite == /\ srv \in {"ready", "idle", "closed"}
             /\ \E s \in {"ready", "idle", "closed"}, l \in 0..MaxLoad :
                   /\ Rank(s) <= Rank(srv)
                   /\ row' = [state |-> s, load |-> l]
             /\ UNCHANGED srv

\* The process ends, after Run returned or through a failed assertion; the row
\* stays as it was last written.
Exit == /\ srv \in {"starting", "ready", "idle", "closed"}
        /\ srv' = "exited"
        /\ UNCHANGED row

Next == Spawn \/ FirstPublish \/ GoIdle \/ GoClosed \/ StatWrite \/ Exit

Spec == Init /\ [][Next]_vars
=============================================================================
