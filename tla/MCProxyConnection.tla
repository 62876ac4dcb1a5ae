-------------------------- MODULE MCProxyConnection --------------------------
(***************************************************************************)
(* A behaviour is one of three: clients getting into the proxy, one        *)
(* connection through it, or what a connected client goes on reading.      *)
(***************************************************************************)
EXTENDS ProxyConnection, AcceptLoop, ContextReader

VARIABLE part

AllInit == part \in {"accept", "connection", "reader"} /\ Init /\ AcceptInit /\ ReaderInit

Accepting == part = "accept" /\ AcceptNext /\ UNCHANGED <<vars, rvars>>
Connecting == part = "connection" /\ Next /\ UNCHANGED <<avars, rvars>>
Reading == part = "reader" /\ ReaderNext /\ UNCHANGED <<vars, avars>>

\* Goroutines run.  The select of Run takes a connection or leaves.
AcceptRuns == part = "accept" /\ ~panicked
AcceptFair ==
  /\ WF_avars(AcceptRuns /\ Accept) /\ WF_avars(AcceptRuns /\ SendConn)
  /\ WF_avars(AcceptRuns /\ Opening) /\ WF_avars(AcceptRuns /\ Serving)
  /\ WF_avars(AcceptRuns /\ Adding)
ReaderRuns == part = "reader" /\ ~burst
ReaderFair ==
  /\ WF_rvars(ReaderRuns /\ internalRead) /\ WF_rvars(ReaderRuns /\ Relayed)
  /\ WF_rvars(ReaderRuns /\ Waited) /\ WF_rvars(ReaderRuns /\ Consumed)

AllSpec == /\ AllInit /\ [][(Accepting \/ Connecting \/ Reading) /\ UNCHANGED part]_<<vars, avars, rvars, part>>
           /\ Fairness /\ AcceptFair /\ ReaderFair

\* The accept loop and the reader stay in their types and capacities, and end the process
\* only when a connection was on its way in as the proxy closed, or a context was cancelled.
AroundSafe == AcceptTypeOK /\ ReaderTypeOK /\ NoLateAdd /\ PanicNeedsCancel

\* Nobody waits in vain: a proxy that is ready lets clients in, one that is let in is heard,
\* and a goodbye is, too, by the game server's connection and by the client's own goroutines.
EveryoneIsServed == /\ ReadyMeansListening /\ EveryClientAdded
                    /\ ServerHeard /\ GoodbyeReleases /\ HangupIsHeard
=============================================================================
