------------------------------ MODULE AcceptLoop ------------------------------
(***************************************************************************)
(* How clients get into the proxy: AMTCPProxy of pkg/am-proxy/net.go, with *)
(* its goroutines Run and listen and one for each connection that is       *)
(* added, and the goroutine that starts it and closes it (CreateEnvironment *)
(* and ServerState.Close of e2e-tests/sim).  What becomes of a connection  *)
(* that was added is ProxyConnection.                                      *)
(***************************************************************************)
EXTENDS Naturals, SequencesExt

CONSTANTS Clients,
          ChCap    \* capacity of Run's channel (10 in the code)

ASSUME AcceptAssumption == ChCap \in Nat

VARIABLES
  run,       \* Run
  accept,    \* listen
  listener,  \* the listener: "none", "open" or "closed"
  assigned,  \* a.listener is not nil
  ready,     \* the token in a.ready
  owner,     \* the goroutine that waits for ready, and closes
  cancelled, \* Run's and the owner's context is done
  conn,      \* each client's connection
  backlog,   \* connections that nobody has accepted yet
  ch,        \* Run's channel
  closed,    \* AMProxy.closed
  panicked,  \* an assertion has ended the process
  excused    \* history: a connection was being accepted when the proxy closed, or there was
             \* no listener to close

loop == <<run, accept, listener, assigned, ready>>
avars == <<loop, owner, cancelled, conn, backlog, ch, closed, panicked, excused>>

AcceptTypeOK ==
  /\ run \in {"listen", "assign", "ready", "loop", "returned"}
  /\ accept \in {"none", "accept", "send", "returned"}
  /\ listener \in {"none", "open", "closed"} /\ ready \in 0 .. 1
  /\ owner \in {"waiting", "gaveUp", "up", "closing", "closed"}
  /\ conn \in [Clients -> {"new", "refused", "backlog", "held", "queued", "adding", "added"}]
  /\ Len(ch) <= ChCap /\ \A i \in DOMAIN ch : conn[ch[i]] = "queued"
  /\ accept = "send" <=> \E c \in Clients : conn[c] = "held"

AcceptInit ==
  /\ run = "listen" /\ accept = "none" /\ listener = "none" /\ assigned = FALSE /\ ready = 0
  /\ owner = "waiting" /\ cancelled = FALSE
  /\ conn = [c \in Clients |-> "new"] /\ backlog = <<>> /\ ch = <<>>
  /\ closed = FALSE /\ panicked = FALSE /\ excused = FALSE
-----------------------------------------------------------------------------
\* A client dials.
DialProxy(c) ==
  /\ conn[c] = "new"
  /\ IF listener = "open"
     THEN conn' = [conn EXCEPT ![c] = "backlog"] /\ backlog' = Append(backlog, c)
     ELSE conn' = [conn EXCEPT ![c] = "refused"] /\ UNCHANGED backlog
  /\ UNCHANGED <<loop, owner, cancelled, ch, closed, panicked, excused>>

\* Run, as far as the signal.
Listen ==
  /\ run = "listen" /\ listener' = "open" /\ run' = "assign"
  /\ UNCHANGED <<accept, assigned, ready, owner, cancelled, conn, backlog, ch, closed, panicked, excused>>
Assign ==
  /\ run = "assign" /\ assigned' = TRUE /\ accept' = "accept" /\ run' = "ready"
  /\ UNCHANGED <<listener, ready, owner, cancelled, conn, backlog, ch, closed, panicked, excused>>
SignalReady ==
  /\ run = "ready" /\ ready' = 1 /\ run' = "loop"
  /\ UNCHANGED <<accept, listener, assigned, owner, cancelled, conn, backlog, ch, closed, panicked, excused>>

\* listen.
Accept ==
  /\ accept = "accept"
  /\ \/ /\ listener = "open" /\ backlog # <<>>
        /\ conn' = [conn EXCEPT ![Head(backlog)] = "held"]
        /\ backlog' = Tail(backlog) /\ accept' = "send"
     \/ /\ listener = "closed" /\ accept' = "returned"
        /\ UNCHANGED <<conn, backlog>>
  /\ UNCHANGED <<run, listener, assigned, ready, owner, cancelled, ch, closed, panicked, excused>>

\* Seeded bug: a connection that finds the channel full is dropped.
SendConnDrops ==
  /\ accept = "send" /\ accept' = "accept"
  /\ LET c == CHOOSE d \in Clients : conn[d] = "held"
     IN IF Len(ch) < ChCap
        THEN ch' = Append(ch, c) /\ conn' = [conn EXCEPT ![c] = "queued"]
        ELSE conn' = [conn EXCEPT ![c] = "refused"] /\ UNCHANGED ch
  /\ UNCHANGED <<run, listener, assigned, ready, owner, cancelled, backlog, closed, panicked, excused>>
SendConn ==
  /\ accept = "send" /\ Len(ch) < ChCap /\ accept' = "accept"
  /\ LET c == CHOOSE d \in Clients : conn[d] = "held"
     IN ch' = Append(ch, c) /\ conn' = [conn EXCEPT ![c] = "queued"]
  /\ UNCHANGED <<run, listener, assigned, ready, owner, cancelled, backlog, closed, panicked, excused>>

\* Run's loop: what is in the channel is left there when the context is done.
Serve ==
  /\ run = "loop" /\ ch # <<>>
  /\ conn' = [conn EXCEPT ![Head(ch)] = "adding"] /\ ch' = Tail(ch)
  /\ UNCHANGED <<loop, owner, cancelled, backlog, closed, panicked, excused>>
Leave ==
  /\ run = "loop" /\ cancelled /\ run' = "returned"
  /\ UNCHANGED <<accept, listener, assigned, ready, owner, cancelled, conn, backlog, ch, closed, panicked, excused>>

\* AMProxy.Add, in a goroutine of its own.
Add(c) ==
  /\ conn[c] = "adding"
  /\ IF closed THEN panicked' = TRUE /\ UNCHANGED conn
               ELSE conn' = [conn EXCEPT ![c] = "added"] /\ UNCHANGED panicked
  /\ UNCHANGED <<loop, owner, cancelled, backlog, ch, closed, excused>>
-----------------------------------------------------------------------------
Cancel ==
  /\ ~cancelled /\ cancelled' = TRUE
  /\ UNCHANGED <<loop, owner, conn, backlog, ch, closed, panicked, excused>>

WaitForReady ==
  /\ owner = "waiting"
  /\ \/ ready = 1 /\ ready' = 0 /\ owner' = "up"
     \/ cancelled /\ owner' = "gaveUp" /\ UNCHANGED ready
  /\ UNCHANGED <<run, accept, listener, assigned, cancelled, conn, backlog, ch, closed, panicked, excused>>

\* Close: the listener, if there is one; what is in its backlog is reset.
CloseListener ==
  /\ owner \in {"up", "gaveUp"} /\ owner' = "closing"
  /\ IF assigned
     THEN /\ listener' = "closed" /\ backlog' = <<>>
          /\ conn' = [c \in Clients |-> IF conn[c] = "backlog" THEN "refused" ELSE conn[c]]
     ELSE UNCHANGED <<listener, backlog, conn>>
  /\ excused' = ~assigned
  /\ UNCHANGED <<run, accept, assigned, ready, cancelled, ch, closed, panicked>>

\* Seeded bug: the proxy is closed before the listener.
CloseProxyFirst ==
  /\ owner \in {"up", "gaveUp", "closing"} /\ ~closed
  /\ closed' = TRUE /\ owner' = IF owner = "closing" THEN "closed" ELSE owner
  /\ excused' = (excused \/ \E c \in Clients : conn[c] \in {"held", "queued", "adding"})
  /\ UNCHANGED <<loop, cancelled, conn, backlog, ch, panicked>>
\* and the proxy.
CloseProxy ==
  /\ owner = "closing" /\ owner' = "closed" /\ closed' = TRUE
  /\ excused' = (excused \/ \E c \in Clients : conn[c] \in {"held", "queued", "adding"})
  /\ UNCHANGED <<loop, cancelled, conn, backlog, ch, panicked>>
-----------------------------------------------------------------------------
Opening == Listen \/ Assign \/ SignalReady
Serving == Serve \/ Leave
Adding == \E c \in Clients : Add(c)
Closing == CloseListener \/ CloseProxy

AcceptNext == /\ ~panicked
              /\ \/ \E c \in Clients : DialProxy(c)
                 \/ Opening \/ Accept \/ SendConn \/ Serving \/ Adding
                 \/ Cancel \/ WaitForReady \/ Closing
-----------------------------------------------------------------------------
(* Properties *)

\* Closing the proxy ends the process by Add's assertion only if a connection was on its way
\* from listen to Add, or if the proxy was closed, after a context that was done too early,
\* before there was a listener to close.
NoLateAdd == panicked => excused

\* Whoever has waited for the proxy to be ready can connect to it until it is closed.
ReadyMeansListening == [][\A c \in Clients : conn[c] = "new" /\ conn'[c] = "refused" => owner # "up"]_avars

\* A client in the backlog gets in, unless the proxy is being closed or its context is done.
EveryClientAdded ==
  \A c \in Clients : conn[c] = "backlog" ~> conn[c] = "added" \/ owner \in {"closing", "closed"} \/ cancelled
=============================================================================
