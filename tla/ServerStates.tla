---------------------------- MODULE ServerStates ----------------------------
(***************************************************************************)
(* The values game servers and the proxy exchange through the              *)
(* GameServerConfigs table (game-server-stats/stats.go and sqlite.go).     *)
(***************************************************************************)
EXTENDS Naturals

CONSTANT MaxLoad  \* ServerParams.MaxLoad, counted in connections (0.001 each)

ASSUME MaxLoadAssumption == MaxLoad \in Nat \ {0}

\* GSState* of stats.go; "none" is the absence of a row.
RowState == {"none", "ready", "idle", "closed"}

\* A row as far as the proxy looks at it.  Load is capped at MaxLoad:
\* GetServersByUtilization only asks whether it is below.
Row == [state : RowState, load : 0..MaxLoad]
NoRow == [state |-> "none", load |-> 0]

\* The process: not spawned, spawned but not listening, the three states of
\* GameServerConfig.State it runs through, and gone.
SrvState == {"none", "starting", "ready", "idle", "closed", "exited"}

\* The order of a server's life.
Rank(s) == CASE s = "none" -> 0 [] s = "starting" -> 1 [] s = "ready" -> 2
             [] s = "idle" -> 3 [] s = "closed" -> 4 [] s = "exited" -> 5
=============================================================================
