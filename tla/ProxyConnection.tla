--------------------------- MODULE ProxyConnection ---------------------------
(***************************************************************************)
(* One client's connection through the proxy: the AMConnectionWrapper of   *)
(* pkg/am-proxy/am-proxy.go, its goroutine (handleConnection, then         *)
(* handleConnectionLifecycles), the two FrameWithReader goroutines that    *)
(* fill the channels of its framers, the api.Client at one end and a game  *)
(* server at the other.  Side "c" is the client's, side "g" the game       *)
(* server's.  A packet is its type and its number among those of its       *)
(* sender.                                                                 *)
(***************************************************************************)
EXTENDS Naturals, Sequences

CONSTANTS ClientPackets,  \* how many messages the client may send
          ServerPackets,  \* and the game server
          ChanCap,        \* capacity of PacketFramer.C (10 in the code)
          Vanishes        \* may the client disappear without Disconnect?

ASSUME PCAssumption == /\ ClientPackets \in Nat /\ ServerPackets \in Nat
                       /\ ChanCap \in Nat \ {0}
                       /\ Vanishes \in BOOLEAN

VARIABLES
  pc,         \* the wrapper's goroutine
  client,     \* api.Client
  sent,       \* messages each side has sent
  wire,       \* per side: sent by the peer, not read by the proxy yet
  hand,       \* per side: read by FrameWithReader, not in the channel yet
  chan,       \* per side: the framer's channel C
  framer,     \* per side: is FrameWithReader still reading?
  sock,       \* per side: the proxy's socket
  peer,       \* per side: the socket of the other end
  out,        \* per side: what the proxy wrote and the peer can read
  ctxDone,    \* w.ctx is done
  proxyClosed,
  finished    \* "connection finished" has been logged

io   == <<wire, hand, chan, framer>>
ends == <<client, sent, peer>>
vars == <<pc, io, ends, sock, out, ctxDone, proxyClosed, finished>>

Side == {"c", "g"}
Other(s) == IF s = "c" THEN "g" ELSE "c"

Sendable == [type : {"auth", "message", "close"}, n : Nat]  \* by client and server
Packet   == [type : {"auth", "response", "message", "close", "error"}, n : Nat]
Auth       == [type |-> "auth", n |-> 0]
Response   == [type |-> "response", n |-> 0]
Close      == [type |-> "close", n |-> 0]
Error      == [type |-> "error", n |-> 0]
Message(n) == [type |-> "message", n |-> n]

TypeOK ==
  /\ pc \in {"auth", "matchmake", "dial", "respond", "loop", "returned"}
  /\ client \in {"dialed", "waiting", "ready", "disconnected", "vanished", "crashed"}
  /\ sent \in [Side -> Nat]
  /\ wire \in [Side -> Seq(Sendable)]
  /\ hand \in [Side -> Seq(Sendable)]
  /\ chan \in [Side -> Seq(Sendable)] /\ \A s \in Side : Len(chan[s]) <= ChanCap
  /\ framer \in [Side -> {"none", "reading", "ended"}]
  /\ sock \in [Side -> {"none", "open", "closed"}]
  /\ peer \in [Side -> {"up", "leaving", "gone"}]
  /\ out \in [Side -> Seq(Packet)]
  /\ ctxDone \in BOOLEAN /\ proxyClosed \in BOOLEAN /\ finished \in BOOLEAN

Init == /\ pc = "auth" /\ client = "dialed"
        /\ sent = [s \in Side |-> 0]
        /\ wire = [s \in Side |-> <<>>]
        /\ hand = [s \in Side |-> <<>>]
        /\ chan = [s \in Side |-> <<>>]
        /\ framer = [s \in Side |-> IF s = "c" THEN "reading" ELSE "none"]
        /\ sock = [s \in Side |-> IF s = "c" THEN "open" ELSE "none"]
        /\ peer = [s \in Side |-> "up"]
        /\ out = [s \in Side |-> <<>>]
        /\ ctxDone = FALSE /\ proxyClosed = FALSE /\ finished = FALSE
-----------------------------------------------------------------------------
(* The client: Connect and Disconnect of pkg/api/client.go *)

SendAuth == /\ client = "dialed"
            /\ client' = "waiting"
            /\ wire' = [wire EXCEPT !["c"] = Append(@, Auth)]
            /\ UNCHANGED <<pc, hand, chan, framer, sent, peer, sock, out,
                           ctxDone, proxyClosed, finished>>

\* Connect asserts that the first packet it gets is the auth response.
Connect ==
  /\ client = "waiting" /\ out["c"] # <<>>
  /\ IF out["c"][1].type = "response"
     THEN client' = "ready" /\ UNCHANGED peer
     ELSE client' = "crashed" /\ peer' = [peer EXCEPT !["c"] = "gone"]
  /\ UNCHANGED <<pc, io, sent, sock, out, ctxDone, proxyClosed, finished>>

Disconnect ==
  /\ client = "ready"
  /\ client' = "disconnected"
  /\ wire' = [wire EXCEPT !["c"] = Append(@, Close)]
  /\ peer' = [peer EXCEPT !["c"] = "gone"]
  /\ UNCHANGED <<pc, hand, chan, framer, sent, sock, out, ctxDone, proxyClosed, finished>>

\* The client's process ends without a word.
Vanish ==
  /\ Vanishes /\ client \in {"dialed", "waiting", "ready"}
  /\ client' = "vanished"
  /\ peer' = [peer EXCEPT !["c"] = "gone"]
  /\ UNCHANGED <<pc, io, sent, sock, out, ctxDone, proxyClosed, finished>>

\* A message from either end (the ready client, a game server that has not
\* closed).
Send(s) ==
  /\ IF s = "c" THEN client = "ready" ELSE sock["g"] # "none"
  /\ peer[s] = "up"
  /\ sent[s] < (IF s = "c" THEN ClientPackets ELSE ServerPackets)
  /\ sent' = [sent EXCEPT ![s] = @ + 1]
  /\ wire' = [wire EXCEPT ![s] = Append(@, Message(sent'[s]))]
  /\ UNCHANGED <<pc, hand, chan, framer, client, peer, sock, out,
                 ctxDone, proxyClosed, finished>>

\* The game server says goodbye, or exits (with or without a goodbye).
ServerClose ==
  /\ sock["g"] # "none" /\ peer["g"] = "up"
  /\ peer' = [peer EXCEPT !["g"] = "leaving"]
  /\ wire' = [wire EXCEPT !["g"] = Append(@, Close)]
  /\ UNCHANGED <<pc, hand, chan, framer, client, sent, sock, out,
                 ctxDone, proxyClosed, finished>>

ServerExit ==
  /\ sock["g"] # "none" /\ peer["g"] # "gone"
  /\ peer' = [peer EXCEPT !["g"] = "gone"]
  /\ UNCHANGED <<pc, io, client, sent, sock, out, ctxDone, proxyClosed, finished>>
-----------------------------------------------------------------------------
(* FrameWithReader, one goroutine per side *)

\* A read returns some of what is on the wire; the framer takes it apart.
FrameRead(s) ==
  /\ framer[s] = "reading" /\ sock[s] = "open" /\ hand[s] = <<>>
  /\ \E n \in 1..Len(wire[s]) :
       /\ hand' = [hand EXCEPT ![s] = SubSeq(wire[s], 1, n)]
       /\ wire' = [wire EXCEPT ![s] = SubSeq(@, n + 1, Len(@))]
  /\ UNCHANGED <<pc, chan, framer, ends, sock, out, ctxDone, proxyClosed, finished>>

\* Seeded bug: the newest packet of a read is sent first.
FramePushNewest(s) ==
  /\ hand[s] # <<>> /\ Len(chan[s]) < ChanCap
  /\ chan' = [chan EXCEPT ![s] = Append(@, hand[s][Len(hand[s])])]
  /\ hand' = [hand EXCEPT ![s] = SubSeq(@, 1, Len(@) - 1)]
  /\ UNCHANGED <<pc, wire, framer, ends, sock, out, ctxDone, proxyClosed, finished>>

\* Its packets go to the channel one by one, when there is room.
FramePush(s) ==
  /\ hand[s] # <<>> /\ Len(chan[s]) < ChanCap
  /\ chan' = [chan EXCEPT ![s] = Append(@, Head(hand[s]))]
  /\ hand' = [hand EXCEPT ![s] = Tail(@)]
  /\ UNCHANGED <<pc, wire, framer, ends, sock, out, ctxDone, proxyClosed, finished>>

\* A read fails (the proxy closed the socket, or the peer did and all it sent
\* is read).  The goroutine ends; nobody closes the channel.
FrameEnd(s) ==
  /\ framer[s] = "reading" /\ hand[s] = <<>>
  /\ sock[s] = "closed" \/ (peer[s] = "gone" /\ wire[s] = <<>>)
  /\ framer' = [framer EXCEPT ![s] = "ended"]
  /\ UNCHANGED <<pc, wire, hand, chan, ends, sock, out, ctxDone, proxyClosed, finished>>
-----------------------------------------------------------------------------
(* handleConnection *)

\* What reaches the peers when p is written to side s.
Written(s, p) == IF sock[s] = "open" /\ peer[s] # "gone"
                 THEN [out EXCEPT ![s] = Append(@, p)] ELSE out

\* A write to a closed socket fails; to one whose peer is gone it may.
MayFail(s)    == sock[s] = "closed" \/ peer[s] = "gone"
MaySucceed(s) == sock[s] = "open"

\* Seeded bug: only the client's end is closed.
RemoveConnectionClientOnly(report, written) ==
  /\ out' = IF report /\ sock["c"] = "open" /\ peer["c"] # "gone"
            THEN [written EXCEPT !["c"] = Append(@, Error)] ELSE written
  /\ sock' = [sock EXCEPT !["c"] = "closed"]
  /\ ctxDone' = TRUE

\* removeConnection: the error, if there is one, is reported to the client,
\* then everything is closed.
RemoveConnection(report, written) ==
  /\ out' = IF report /\ sock["c"] = "open" /\ peer["c"] # "gone"
            THEN [written EXCEPT !["c"] = Append(@, Error)] ELSE written
  /\ sock' = [s \in Side |-> IF sock[s] = "none" THEN "none" ELSE "closed"]
  /\ ctxDone' = TRUE

\* The first packet of the client, whatever it is, authenticates it.
Authenticate ==
  /\ pc = "auth" /\ chan["c"] # <<>>
  /\ chan' = [chan EXCEPT !["c"] = Tail(@)]
  /\ pc' = "matchmake"
  /\ UNCHANGED <<wire, hand, framer, ends, sock, out, ctxDone, proxyClosed, finished>>

Matchmake ==
  /\ pc = "matchmake"
  /\ \/ pc' = "dial" /\ UNCHANGED <<out, sock, ctxDone>>
     \/ pc' = "returned" /\ RemoveConnection(TRUE, out)
  /\ UNCHANGED <<io, ends, proxyClosed, finished>>

\* Seeded bug: the lifecycle starts and the response is forgotten.
DialAndLoop ==
  /\ pc = "dial"
  /\ sock' = [sock EXCEPT !["g"] = "open"]
  /\ framer' = [framer EXCEPT !["g"] = "reading"]
  /\ pc' = "loop"
  /\ UNCHANGED <<out, ctxDone, wire, hand, chan, ends, proxyClosed, finished>>

\* The connection to the game server, and the goroutine that reads it.
Dial ==
  /\ pc = "dial"
  /\ \/ /\ sock' = [sock EXCEPT !["g"] = "open"]
        /\ framer' = [framer EXCEPT !["g"] = "reading"]
        /\ pc' = "respond"
        /\ UNCHANGED <<out, ctxDone>>
     \/ /\ pc' = "returned" /\ RemoveConnection(TRUE, out)
        /\ UNCHANGED framer
  /\ UNCHANGED <<wire, hand, chan, ends, proxyClosed, finished>>

Respond ==
  /\ pc = "respond"
  /\ \/ /\ MaySucceed("c")
        /\ out' = Written("c", Response)
        /\ pc' = "loop"
        /\ UNCHANGED <<sock, ctxDone>>
     \/ /\ MayFail("c")
        /\ pc' = "returned" /\ RemoveConnection(TRUE, out)
  /\ UNCHANGED <<io, ends, proxyClosed, finished>>
-----------------------------------------------------------------------------
(* handleConnectionLifecycles *)

\* Seeded bug: a close packet is passed on like any other.
ForwardCloseOn(s) ==
  /\ pc = "loop" /\ chan[s] # <<>>
  /\ chan' = [chan EXCEPT ![s] = Tail(@)]
  /\ LET p == Head(chan[s])
     IN \/ /\ MaySucceed(Other(s))
           /\ out' = Written(Other(s), p)
           /\ UNCHANGED <<sock, ctxDone>>
        \/ /\ MayFail(Other(s))
           /\ RemoveConnection(TRUE, out)
  /\ UNCHANGED <<pc, wire, hand, framer, ends, proxyClosed, finished>>

\* A packet of either side is written to the other one; a close packet and a
\* failed write remove the connection.  The goroutine goes on.
Forward(s) ==
  /\ pc = "loop" /\ chan[s] # <<>>
  /\ chan' = [chan EXCEPT ![s] = Tail(@)]
  /\ LET p == Head(chan[s])
     IN \/ /\ MaySucceed(Other(s))
           /\ IF p.type = "close"
              THEN RemoveConnection(FALSE, Written(Other(s), p))
              ELSE /\ out' = Written(Other(s), p)
                   /\ UNCHANGED <<sock, ctxDone>>
        \/ /\ MayFail(Other(s))
           /\ RemoveConnection(TRUE, out)
  /\ UNCHANGED <<pc, wire, hand, framer, ends, proxyClosed, finished>>

\* The done context is logged, again and again, and nothing else.
Done == /\ pc = "loop" /\ ctxDone
        /\ finished' = TRUE
        /\ UNCHANGED <<pc, io, ends, sock, out, ctxDone, proxyClosed>>

\* AMProxy.Close cancels the context that every w.ctx is derived from.
ProxyClose == /\ ~proxyClosed
              /\ proxyClosed' = TRUE /\ ctxDone' = TRUE
              /\ UNCHANGED <<pc, io, ends, sock, out, finished>>
-----------------------------------------------------------------------------
Handler == Authenticate \/ Matchmake \/ Dial \/ Respond
Frame(s) == FrameRead(s) \/ FramePush(s) \/ FrameEnd(s)

Next == \/ SendAuth \/ Connect \/ Disconnect \/ Vanish
        \/ ServerClose \/ ServerExit
        \/ Handler \/ Done \/ ProxyClose
        \/ \E s \in Side : Send(s) \/ Frame(s) \/ Forward(s)

\* Goroutines run, and a select that keeps finding a packet in a channel takes
\* it in the end, however often it finds the context done.
Fairness == /\ WF_vars(Handler) /\ WF_vars(Connect)
            /\ \A s \in Side : WF_vars(Frame(s)) /\ WF_vars(Forward(s))

Spec == Init /\ [][Next]_vars /\ Fairness
-----------------------------------------------------------------------------
(* Properties *)

Types(q, T) == {i \in DOMAIN q : q[i].type \in T}

\* The client gets its answer before anything from the game, although the
\* server's packets are already being read when it is written; and it gets one.
AnswerFirst == /\ Types(out["c"], {"message", "close"}) # {} => 1 \in Types(out["c"], {"response"})
               /\ Types(out["c"], {"response"}) \subseteq {1}

\* Each side receives the other's messages without a gap, in the order in which
\* they were sent.
Numbers(q) == {q[i].n : i \in Types(q, {"message"})}
Rising(q) == \A i, j \in Types(q, {"message"}) : i < j => q[i].n < q[j].n
InOrder == \A s \in Side :
             /\ Rising(out[s])
             /\ \A n \in Numbers(out[s]) : /\ n \in 1..sent[Other(s)]
                                          /\ 1..n \subseteq Numbers(out[s])

\* Once an end has been told that the connection is over, by a close packet or
\* an error, neither end receives anything.
Over == \E s \in Side : Types(out[s], {"close", "error"}) # {}
NothingAfterGoodbye == [][Over => out' = out]_vars

\* A client that disconnects frees its connection to the game server.
GoodbyeReleases == client = "disconnected" ~> sock["g"] = "closed"

\* What the game server sends reaches the client, unless one of them is gone or
\* the connection is over.
ServerHeard ==
  \A n \in 1..ServerPackets :
    sent["g"] >= n ~> \/ \E i \in DOMAIN out["c"] : out["c"][i] = Message(n)
                      \/ sock["c"] = "closed" \/ peer["c"] = "gone"
=============================================================================
