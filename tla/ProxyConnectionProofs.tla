------------------------- MODULE ProxyConnectionProofs -------------------------
(***************************************************************************)
(* Proofs about a connection through the proxy, for any number of packets  *)
(* and any capacity of the channels (ProxyConnection.tla), and about what  *)
(* is around it, for any clients, capacities and numbers of reads: the     *)
(* accept loop of the proxy (AcceptLoop.tla) and what a connected client   *)
(* goes on reading (ContextReader.tla).  And below it, for any packets in  *)
(* any pieces, the framer (PacketFramer.tla): it delivers in order what a  *)
(* connection takes in order.                                              *)
(***************************************************************************)
EXTENDS MCProxyConnection, PacketFramer, SequenceTheorems, WellFoundedInduction, TLAPS

LEMMA PacketTypes == /\ Sendable \subseteq Packet
                     /\ Auth \in Sendable /\ Close \in Sendable
                     /\ \A n \in Nat : Message(n) \in Sendable
                     /\ Response \in Packet /\ Error \in Packet
                     /\ Response.type = "response" /\ Error.type = "error"
                     /\ \A p \in Sendable : p.type \in {"auth", "message", "close"}
  BY DEF Sendable, Packet, Auth, Close, Message, Response, Error

LEMMA WrittenType == ASSUME TypeOK, NEW s \in Side, NEW p \in Packet
                     PROVE  Written(s, p) \in [Side -> Seq(Packet)]
  BY DEF TypeOK, Written

LEMMA RemoveType ==
  ASSUME TypeOK, NEW report, NEW w \in [Side -> Seq(Packet)],
         RemoveConnection(report, w)
  PROVE  /\ out' \in [Side -> Seq(Packet)]
         /\ sock' \in [Side -> {"none", "open", "closed"}]
         /\ ctxDone' \in BOOLEAN
<1>1. out' \in [Side -> Seq(Packet)]
  BY PacketTypes DEF RemoveConnection, Side
<1>2. sock' \in [Side -> {"none", "open", "closed"}]
  BY DEF TypeOK, RemoveConnection
<1> QED BY <1>1, <1>2 DEF RemoveConnection

LEMMA FrameTypes ==
  ASSUME TypeOK, NEW s \in Side, Frame(s)
  PROVE  TypeOK'
<1>1. CASE FrameRead(s)
  <2>1. PICK n \in 1..Len(wire[s]) :
          /\ hand' = [hand EXCEPT ![s] = SubSeq(wire[s], 1, n)]
          /\ wire' = [wire EXCEPT ![s] = SubSeq(wire[s], n + 1, Len(wire[s]))]
    BY <1>1 DEF FrameRead, TypeOK
  <2>2. wire[s] \in Seq(Sendable) /\ Len(wire[s]) \in Nat
    BY DEF TypeOK
  <2>3. SubSeq(wire[s], 1, n) \in Seq(Sendable)
    BY <2>2
  <2>4. SubSeq(wire[s], n + 1, Len(wire[s])) \in Seq(Sendable)
    BY <2>2
  <2> QED BY <1>1, <2>1, <2>3, <2>4 DEF FrameRead, TypeOK, ends
<1>2. CASE FramePush(s)
  <2>1. /\ hand[s] \in Seq(Sendable) /\ chan[s] \in Seq(Sendable)
        /\ hand[s] # <<>>
    BY <1>2 DEF FramePush, TypeOK
  <2>2. /\ Head(hand[s]) \in Sendable /\ Tail(hand[s]) \in Seq(Sendable)
        /\ Append(chan[s], Head(hand[s])) \in Seq(Sendable)
        /\ Len(Append(chan[s], Head(hand[s]))) = Len(chan[s]) + 1
    BY <2>1
  <2>3. Len(chan[s]) < ChanCap /\ Len(chan[s]) \in Nat
    BY <1>2, <2>1 DEF FramePush
  <2> QED BY <1>2, <2>2, <2>3, PCAssumption DEF FramePush, TypeOK, ends
<1>3. CASE FrameEnd(s)
  BY <1>3 DEF FrameEnd, TypeOK, ends
<1> QED BY <1>1, <1>2, <1>3 DEF Frame

LEMMA TypeStep == ASSUME TypeOK, [Next]_vars PROVE TypeOK'
<1> USE DEF io, ends
<1>1. CASE SendAuth
  <2>1. Append(wire["c"], Auth) \in Seq(Sendable)
    BY PacketTypes DEF TypeOK, Side
  <2> QED BY <1>1, <2>1 DEF SendAuth, TypeOK
<1>2. CASE Connect
  BY <1>2 DEF Connect, TypeOK
<1>3. CASE Disconnect
  <2>1. Append(wire["c"], Close) \in Seq(Sendable)
    BY PacketTypes DEF TypeOK, Side
  <2> QED BY <1>3, <2>1 DEF Disconnect, TypeOK
<1>4. CASE Vanish
  BY <1>4 DEF Vanish, TypeOK
<1>5. CASE ServerClose
  <2>1. Append(wire["g"], Close) \in Seq(Sendable)
    BY PacketTypes DEF TypeOK, Side
  <2> QED BY <1>5, <2>1 DEF ServerClose, TypeOK
<1>6. CASE ServerExit
  BY <1>6 DEF ServerExit, TypeOK
<1>7. CASE Authenticate
  <2>1. chan["c"] \in Seq(Sendable) /\ chan["c"] # <<>> /\ Len(chan["c"]) <= ChanCap
    BY <1>7 DEF Authenticate, TypeOK, Side
  <2>2. Tail(chan["c"]) \in Seq(Sendable) /\ Len(Tail(chan["c"])) <= ChanCap
    BY <2>1, PCAssumption
  <2> QED BY <1>7, <2>2 DEF Authenticate, TypeOK
<1>8. CASE Matchmake
  <2>1. out \in [Side -> Seq(Packet)]
    BY DEF TypeOK
  <2>2. CASE RemoveConnection(TRUE, out) /\ pc' = "returned"
    BY <1>8, <2>1, <2>2, RemoveType DEF Matchmake, TypeOK
  <2>3. CASE pc' = "dial" /\ UNCHANGED <<out, sock, ctxDone>>
    BY <1>8, <2>3 DEF Matchmake, TypeOK
  <2> QED BY <1>8, <2>2, <2>3 DEF Matchmake
<1>9. CASE Dial
  <2>1. out \in [Side -> Seq(Packet)]
    BY DEF TypeOK
  <2>2. CASE RemoveConnection(TRUE, out) /\ pc' = "returned" /\ UNCHANGED framer
    BY <1>9, <2>1, <2>2, RemoveType DEF Dial, TypeOK
  <2>3. CASE /\ sock' = [sock EXCEPT !["g"] = "open"]
             /\ framer' = [framer EXCEPT !["g"] = "reading"]
             /\ pc' = "respond"
             /\ UNCHANGED <<out, ctxDone>>
    BY <1>9, <2>3 DEF Dial, TypeOK
  <2> QED BY <1>9, <2>2, <2>3 DEF Dial
<1>10. CASE Respond
  <2>1. out \in [Side -> Seq(Packet)]
    BY DEF TypeOK
  <2>2. CASE RemoveConnection(TRUE, out) /\ pc' = "returned"
    BY <1>10, <2>1, <2>2, RemoveType DEF Respond, TypeOK
  <2>3. CASE /\ out' = Written("c", Response) /\ pc' = "loop"
             /\ UNCHANGED <<sock, ctxDone>>
    <3>1. out' \in [Side -> Seq(Packet)]
      BY <2>3, WrittenType, PacketTypes DEF Side
    <3> QED BY <1>10, <2>3, <3>1 DEF Respond, TypeOK
  <2> QED BY <1>10, <2>2, <2>3 DEF Respond
<1>11. CASE Done
  BY <1>11 DEF Done, TypeOK
<1>12. CASE ProxyClose
  BY <1>12 DEF ProxyClose, TypeOK
<1>13. ASSUME NEW s \in Side, Send(s) PROVE TypeOK'
  <2>1. sent[s] + 1 \in Nat /\ sent'[s] = sent[s] + 1
    BY <1>13 DEF Send, TypeOK
  <2>2. Message(sent'[s]) \in Sendable
    BY <2>1, PacketTypes
  <2>3. Append(wire[s], Message(sent'[s])) \in Seq(Sendable)
    BY <2>2 DEF TypeOK
  <2> QED BY <1>13, <2>1, <2>3 DEF Send, TypeOK
<1>14. ASSUME NEW s \in Side, Forward(s) PROVE TypeOK'
  <2>1. chan[s] \in Seq(Sendable) /\ chan[s] # <<>> /\ Len(chan[s]) <= ChanCap
    BY <1>14 DEF Forward, TypeOK
  <2>2. /\ Tail(chan[s]) \in Seq(Sendable) /\ Len(Tail(chan[s])) <= ChanCap
        /\ Head(chan[s]) \in Packet
    BY <2>1, PCAssumption, PacketTypes
  <2>3. chan' \in [Side -> Seq(Sendable)] /\ \A t \in Side : Len(chan'[t]) <= ChanCap
    BY <1>14, <2>2 DEF Forward, TypeOK
  <2>4. Written(Other(s), Head(chan[s])) \in [Side -> Seq(Packet)]
    BY <2>2, WrittenType DEF Side, Other
  <2>5. out \in [Side -> Seq(Packet)]
    BY DEF TypeOK
  <2>6. /\ out' \in [Side -> Seq(Packet)]
        /\ sock' \in [Side -> {"none", "open", "closed"}]
        /\ ctxDone' \in BOOLEAN
    <3>1. CASE RemoveConnection(FALSE, Written(Other(s), Head(chan[s])))
      BY <3>1, <2>4, RemoveType
    <3>2. CASE RemoveConnection(TRUE, out)
      BY <3>2, <2>5, RemoveType
    <3>3. CASE out' = Written(Other(s), Head(chan[s])) /\ UNCHANGED <<sock, ctxDone>>
      BY <3>3, <2>4 DEF TypeOK
    <3> QED BY <1>14, <3>1, <3>2, <3>3 DEF Forward
  <2> QED BY <1>14, <2>3, <2>6 DEF Forward, TypeOK
<1>15. CASE UNCHANGED vars
  BY <1>15 DEF vars, TypeOK
<1> QED
  BY <1>1, <1>2, <1>3, <1>4, <1>5, <1>6, <1>7, <1>8, <1>9, <1>10, <1>11, <1>12,
     <1>13, <1>14, <1>15, FrameTypes DEF Next, Handler

LEMMA TypeInit == Init => TypeOK
<1> SUFFICES ASSUME Init PROVE TypeOK
  OBVIOUS
<1>1. /\ <<>> \in Seq(Sendable) /\ <<>> \in Seq(Packet)
      /\ Len(<<>>) = 0 /\ 0 <= ChanCap
  BY PCAssumption
<1>2. /\ wire \in [Side -> Seq(Sendable)] /\ hand \in [Side -> Seq(Sendable)]
      /\ chan \in [Side -> Seq(Sendable)] /\ \A s \in Side : Len(chan[s]) <= ChanCap
      /\ out \in [Side -> Seq(Packet)]
  BY <1>1 DEF Init
<1> QED BY <1>2 DEF Init, TypeOK

\* The types of ProxyConnection, whatever the number of packets.
THEOREM TypeCorrect == Spec => []TypeOK
  BY TypeInit, TypeStep, PTL DEF Spec
-----------------------------------------------------------------------------
(* What the goroutine has written depends on how far it is. *)

\* Nothing is written before the answer.
Early == pc \in {"auth", "matchmake", "dial", "respond"} => out = [s \in Side |-> <<>>]

\* A connection that never got to its loop told the client of an error, or
\* nothing.
Returned == pc = "returned" => \A i \in DOMAIN out["c"] : out["c"][i].type = "error"

\* In the loop the answer is the first packet, unless the client was gone.
Answered == pc = "loop" => \/ out["c"] # <<>> /\ out["c"][1].type = "response"
                           \/ out["c"] = <<>> /\ peer["c"] = "gone"

AnsweredOnce == \A i \in DOMAIN out["c"] : out["c"][i].type = "response" => i = 1

\* After a goodbye both sockets are closed.
Ended == /\ sock["c"] # "none"
         /\ Over => sock["c"] = "closed" /\ sock["g"] # "open"

IInv == TypeOK /\ Early /\ Returned /\ Answered /\ AnsweredOnce /\ Ended
-----------------------------------------------------------------------------
LEMMA InitIInv == Init => IInv
  BY TypeInit DEF Init, IInv, Early, Returned, Answered, AnsweredOnce, Ended, Over,
                  Types, Side

\* Most steps write nothing, close nothing and do not get the goroutine further
\* than the matchmaking.
LEMMA QuietStep ==
  ASSUME IInv, TypeOK', UNCHANGED <<out, sock>>,
         pc' = pc \/ (pc = "auth" /\ pc' = "matchmake"),
         peer["c"] = "gone" => peer'["c"] = "gone"
  PROVE  IInv'
  BY DEF IInv, Early, Returned, Answered, AnsweredOnce, Ended, Over, Types

\* A goroutine that gives up before its loop.
LEMMA GiveUpStep ==
  ASSUME IInv, TypeOK', pc \in {"matchmake", "dial", "respond"}, pc' = "returned",
         RemoveConnection(TRUE, out)
  PROVE  IInv'
<1>1. out["c"] = <<>> /\ out["g"] = <<>>
  BY DEF IInv, Early, Side
<1>2. out'["c"] \in {<<>>, <<Error>>} /\ out'["g"] = <<>>
  BY <1>1 DEF RemoveConnection, IInv, TypeOK, Side
<1>3. sock'["c"] = "closed" /\ sock'["g"] # "open"
  BY DEF RemoveConnection, Side, IInv, Ended
<1> QED BY <1>1, <1>2, <1>3, PacketTypes
        DEF IInv, Early, Returned, Answered, AnsweredOnce, Ended, Over, Types, Side

\* Whatever is written in the loop comes after the answer.
LEMMA LoopWrite ==
  ASSUME IInv, pc = "loop", peer' = peer, pc' = pc,
         NEW q \in Packet, q.type # "response",
         out'["c"] \in {out["c"], Append(out["c"], q)},
         peer["c"] = "gone" => out'["c"] = out["c"]
  PROVE  Early' /\ Returned' /\ Answered' /\ AnsweredOnce'
<1>1. out["c"] \in Seq(Packet)
  BY DEF IInv, TypeOK, Side
<1>2. CASE out'["c"] = out["c"]
  BY <1>2 DEF IInv, Early, Returned, Answered, AnsweredOnce
<1>3. CASE out'["c"] = Append(out["c"], q) /\ peer["c"] # "gone"
  <2>1. out["c"] # <<>> /\ out["c"][1].type = "response"
    BY <1>3 DEF IInv, Answered
  <2>2. /\ DOMAIN out'["c"] = 1..(Len(out["c"]) + 1)
        /\ \A i \in DOMAIN out["c"] : out'["c"][i] = out["c"][i]
        /\ out'["c"][Len(out["c"]) + 1] = q
        /\ DOMAIN out["c"] = 1..Len(out["c"]) /\ Len(out["c"]) \in Nat \ {0}
    BY <1>1, <1>3, <2>1
  <2>3. out'["c"] # <<>> /\ out'["c"][1].type = "response"
    BY <2>1, <2>2
  <2>4. AnsweredOnce'
    BY <2>2 DEF IInv, AnsweredOnce
  <2> QED BY <2>3, <2>4 DEF Early, Returned, Answered
<1> QED BY <1>2, <1>3

LEMMA ForwardStep ==
  ASSUME IInv, TypeOK', NEW s \in Side, Forward(s)
  PROVE  IInv'
<1>1. /\ chan[s] \in Seq(Sendable) /\ chan[s] # <<>> /\ pc = "loop"
      /\ UNCHANGED <<pc, peer>>
  BY DEF IInv, TypeOK, Forward, ends
<1> DEFINE p == Head(chan[s])
           t == Other(s)
<1>2. /\ p \in Packet /\ p.type \in {"auth", "message", "close"}
      /\ Error \in Packet /\ Error.type = "error"
      /\ t \in Side /\ out \in [Side -> Seq(Packet)]
  <2>1. p \in Sendable
    BY <1>1
  <2> QED BY <2>1, PacketTypes DEF Other, Side, IInv, TypeOK
<1>3. CASE MaySucceed(t) /\ p.type # "close"
           /\ out' = Written(t, p) /\ UNCHANGED <<sock, ctxDone>>
  <2>1. ~Over
    BY <1>2, <1>3 DEF MaySucceed, IInv, Ended, Side
  <2>2. /\ out'["c"] \in {out["c"], Append(out["c"], p)}
        /\ peer["c"] = "gone" => out'["c"] = out["c"]
    BY <1>2, <1>3 DEF Written, Side
  <2>3. ~Over'
    <3>1. \A r \in Side : out'[r] \in {out[r], Append(out[r], p)}
      BY <1>2, <1>3 DEF Written, Side
    <3>2. \A r \in Side : \A i \in DOMAIN out'[r] :
            out'[r][i] = p \/ (i \in DOMAIN out[r] /\ out'[r][i] = out[r][i])
      <4> SUFFICES ASSUME NEW r \in Side, NEW i \in DOMAIN out'[r]
                   PROVE  out'[r][i] = p \/ (i \in DOMAIN out[r] /\ out'[r][i] = out[r][i])
        OBVIOUS
      <4>1. out[r] \in Seq(Packet)
        BY <1>2
      <4>2. CASE out'[r] = out[r]
        BY <4>2
      <4>3. CASE out'[r] = Append(out[r], p)
        <5>1. DOMAIN out'[r] = 1..(Len(out[r]) + 1) /\ DOMAIN out[r] = 1..Len(out[r])
          BY <4>1, <4>3
        <5> QED BY <4>1, <4>3, <5>1
      <4> QED BY <3>1, <4>2, <4>3
    <3> QED BY <2>1, <3>2, <1>2, <1>3 DEF Over, Types
  <2>4. Early' /\ Returned' /\ Answered' /\ AnsweredOnce'
    BY <1>1, <1>2, <2>2, LoopWrite
  <2> QED BY <1>3, <2>3, <2>4 DEF IInv, Ended
<1>4. CASE MaySucceed(t) /\ p.type = "close" /\ RemoveConnection(FALSE, Written(t, p))
  <2>1. /\ out'["c"] \in {out["c"], Append(out["c"], p)}
        /\ peer["c"] = "gone" => out'["c"] = out["c"]
    BY <1>2, <1>4 DEF Written, RemoveConnection, Side
  <2>2. sock'["c"] = "closed" /\ sock'["g"] # "open"
    BY <1>4 DEF RemoveConnection, IInv, Ended, Side
  <2>3. Early' /\ Returned' /\ Answered' /\ AnsweredOnce'
    BY <1>1, <1>2, <2>1, LoopWrite
  <2> QED BY <2>2, <2>3 DEF IInv, Ended
<1>5. CASE RemoveConnection(TRUE, out)
  <2>1. /\ out'["c"] \in {out["c"], Append(out["c"], Error)}
        /\ peer["c"] = "gone" => out'["c"] = out["c"]
    BY <1>2, <1>5 DEF RemoveConnection, Side
  <2>2. sock'["c"] = "closed" /\ sock'["g"] # "open"
    BY <1>5 DEF RemoveConnection, IInv, Ended, Side
  <2>3. Early' /\ Returned' /\ Answered' /\ AnsweredOnce'
    BY <1>1, <1>2, <2>1, LoopWrite
  <2> QED BY <2>2, <2>3 DEF IInv, Ended
<1> QED BY <1>3, <1>4, <1>5 DEF Forward

LEMMA StepIInv == ASSUME IInv, [Next]_vars PROVE IInv'
<1>0. TypeOK'
  BY TypeStep DEF IInv
<1>1. CASE SendAuth \/ Connect \/ Disconnect \/ Vanish \/ ServerClose \/ ServerExit
           \/ Authenticate \/ Done \/ ProxyClose \/ UNCHANGED vars
           \/ \E s \in Side : Send(s) \/ Frame(s)
  <2>1. /\ UNCHANGED <<out, sock>>
        /\ pc' = pc \/ (pc = "auth" /\ pc' = "matchmake")
        /\ peer["c"] = "gone" => peer'["c"] = "gone"
    BY <1>1 DEF SendAuth, Connect, Disconnect, Vanish, ServerClose, ServerExit,
                Authenticate, Done, ProxyClose, vars, Send, Frame, FrameRead,
                FramePush, FrameEnd, ends, io, IInv, TypeOK, Side
  <2> QED BY <1>0, <2>1, QuietStep
<1>2. CASE Matchmake
  <2>1. CASE pc' = "returned" /\ RemoveConnection(TRUE, out)
    BY <1>0, <1>2, <2>1, GiveUpStep DEF Matchmake
  <2>2. CASE pc' = "dial" /\ UNCHANGED <<out, sock, ctxDone>>
    BY <1>0, <1>2, <2>2 DEF Matchmake, IInv, Early, Returned, Answered,
                            AnsweredOnce, Ended, Over, Types
  <2> QED BY <1>2, <2>1, <2>2 DEF Matchmake
<1>3. CASE Dial
  <2>1. CASE pc' = "returned" /\ RemoveConnection(TRUE, out)
    BY <1>0, <1>3, <2>1, GiveUpStep DEF Dial
  <2>2. CASE pc' = "respond" /\ sock' = [sock EXCEPT !["g"] = "open"] /\ out' = out
    <3>1. out = [s \in Side |-> <<>>] /\ out'["c"] = <<>> /\ ~Over'
      BY <1>3, <2>2 DEF Dial, IInv, Early, Over, Types, Side
    <3>2. sock'["c"] # "none"
      BY <2>2 DEF IInv, Ended, TypeOK, Side
    <3> QED BY <1>0, <2>2, <3>1, <3>2 DEF IInv, Early, Returned, Answered,
                                          AnsweredOnce, Ended
  <2> QED BY <1>3, <2>1, <2>2 DEF Dial
<1>4. CASE Respond
  <2>1. CASE pc' = "returned" /\ RemoveConnection(TRUE, out)
    BY <1>0, <1>4, <2>1, GiveUpStep DEF Respond
  <2>2. CASE out' = Written("c", Response) /\ pc' = "loop" /\ UNCHANGED <<sock, ctxDone>>
    <3>1. /\ out["c"] = <<>> /\ out["g"] = <<>> /\ out \in [Side -> Seq(Packet)]
          /\ UNCHANGED peer
      BY <1>4 DEF Respond, IInv, Early, Side, TypeOK, ends
    <3>2. /\ out'["g"] = <<>>
          /\ \/ out'["c"] = <<Response>>
             \/ out'["c"] = <<>> /\ (peer["c"] = "gone" \/ sock["c"] # "open")
      BY <2>2, <3>1 DEF Written, Side
    <3>3. sock["c"] = "open"
      BY <1>4, <2>2 DEF Respond, MaySucceed
    <3>4. ~Over'
      <4>1. /\ Types(out'["g"], {"close", "error"}) = {}
            /\ Types(out'["c"], {"close", "error"}) = {}
        BY <3>2, PacketTypes DEF Types
      <4> QED BY <4>1 DEF Over, Side, Types
    <3>5. Answered' /\ AnsweredOnce'
      <4>1. CASE out'["c"] = <<Response>>
        BY <4>1, PacketTypes DEF Answered, AnsweredOnce
      <4>2. CASE out'["c"] = <<>> /\ peer["c"] = "gone"
        BY <3>1, <4>2 DEF Answered, AnsweredOnce
      <4> QED BY <3>2, <3>3, <4>1, <4>2
    <3>6. Early' /\ Returned' /\ Ended'
      BY <2>2, <3>4 DEF Early, Returned, Ended, IInv
    <3> QED BY <1>0, <3>5, <3>6 DEF IInv
  <2> QED BY <1>4, <2>1, <2>2 DEF Respond
<1>5. ASSUME NEW s \in Side, Forward(s) PROVE IInv'
  BY <1>0, <1>5, ForwardStep
<1> QED BY <1>1, <1>2, <1>3, <1>4, <1>5 DEF Next, Handler

LEMMA Invariance == Spec => []IInv
  BY InitIInv, StepIInv, PTL DEF Spec

\* The client gets the answer before anything from the game, and gets it once.
THEOREM AnswerIsFirst == Spec => []AnswerFirst
<1>1. IInv => AnswerFirst
  <2> SUFFICES ASSUME IInv PROVE AnswerFirst
    OBVIOUS
  <2>1. pc \in {"auth", "matchmake", "dial", "respond"} => out["c"] = <<>>
    BY DEF IInv, Early, Side
  <2>2. CASE out["c"] = <<>>
    BY <2>2 DEF AnswerFirst, Types
  <2>3. CASE pc = "returned"
    BY <2>3 DEF IInv, Returned, AnswerFirst, Types
  <2>4. CASE out["c"] # <<>> /\ out["c"][1].type = "response"
    <3>1. out["c"] \in Seq(Packet) /\ 1 \in DOMAIN out["c"]
      BY <2>4 DEF IInv, TypeOK, Side
    <3> QED BY <2>4, <3>1 DEF IInv, AnsweredOnce, AnswerFirst, Types
  <2> QED BY <2>1, <2>2, <2>3, <2>4 DEF IInv, TypeOK, Answered
<1> QED BY <1>1, Invariance, PTL

\* Once an end was told that the connection is over neither receives anything.
THEOREM GoodbyeIsLast == Spec => NothingAfterGoodbye
<1>1. ASSUME IInv, [Next]_vars PROVE [Over => out' = out]_vars
  <2> SUFFICES ASSUME Over, ~UNCHANGED vars PROVE out' = out
    OBVIOUS
  <2>1. sock["c"] = "closed" /\ sock["g"] # "open"
    BY <1>1 DEF IInv, Ended
  <2>2. pc \notin {"auth", "matchmake", "dial", "respond"}
    BY <1>1 DEF IInv, Early, Over, Types, Side
  <2>3. ASSUME NEW s \in Side, Forward(s) PROVE out' = out
    <3>1. /\ \A p \in Packet : Written(Other(s), p) = out
          /\ ~MaySucceed(Other(s))
      BY <2>1 DEF Written, MaySucceed, Other, Side
    <3> QED BY <2>1, <2>3, <3>1 DEF Forward, RemoveConnection
  <2> QED BY <1>1, <2>2, <2>3 DEF Next, Handler, SendAuth, Connect, Disconnect, Vanish,
             ServerClose, ServerExit, Authenticate, Matchmake, Dial, Respond, Done,
             ProxyClose, Send, Frame, FrameRead, FramePush, FrameEnd
<1> QED BY <1>1, Invariance, PTL DEF Spec, NothingAfterGoodbye
-----------------------------------------------------------------------------
(* Messages in order *)

\* What a side can still be sent, and has been: an end that is there gets every message of the
\* other's, which is in one of four places, in the order of the places.
Live(s) == sock[s] # "closed" /\ peer[s] # "gone"
Line(s) == chan[s] \o (hand[s] \o wire[s])
Stream(s) == out[s] \o Line(Other(s))
StreamFits(s) == Rising(Stream(s)) /\ Numbers(Stream(s)) = 1..sent[Other(s)]
StreamsFit == \A s \in Side : Live(s) => StreamFits(s)

\* No game before the answer: the packet that authenticates the client is no message.
Unanswered == pc \in {"auth", "matchmake", "dial", "respond"} =>
                client \in {"dialed", "waiting", "vanished"} /\ sent["c"] = 0
Undialed == pc \in {"auth", "matchmake", "dial"} => sock["g"] = "none"

Kept(q, m) == /\ Rising(q)
              /\ \A n \in Numbers(q) : n \in 1..m /\ 1..n \subseteq Numbers(q)
Orders == \A s \in Side : Kept(out[s], sent[Other(s)])
SInv == IInv /\ Unanswered /\ Undialed /\ StreamsFit /\ Orders

LEMMA MessageAt == \A q, n : n \in Numbers(q) <=> \E i \in Types(q, {"message"}) : q[i].n = n
  BY DEF Numbers

\* What comes first in a stream without a gap has none.
LEMMA InStream ==
  ASSUME NEW q \in Seq(Packet), NEW r \in Seq(Packet), NEW m \in Nat,
         Rising(q \o r), Numbers(q \o r) = 1..m
  PROVE  Kept(q, m)
<1> DEFINE all == q \o r
<1>1. /\ all \in Seq(Packet) /\ Len(all) = Len(q) + Len(r)
      /\ \A i \in 1..Len(q) : all[i] = q[i]
      /\ DOMAIN q = 1..Len(q) /\ DOMAIN all = 1..Len(all) /\ Len(q) \in Nat /\ Len(r) \in Nat
  BY ConcatProperties, LenProperties
<1>2. Types(q, {"message"}) = {i \in Types(all, {"message"}) : i <= Len(q)}
  BY <1>1 DEF Types
<1>3. \A i \in Types(q, {"message"}) : i \in Types(all, {"message"}) /\ all[i] = q[i] /\ i \in 1..Len(q)
  BY <1>1, <1>2 DEF Types
<1>4. Rising(q)
  BY <1>3 DEF Rising
<1>5. ASSUME NEW n \in Numbers(q) PROVE n \in 1..m /\ 1..n \subseteq Numbers(q)
  <2>1. PICK i \in Types(q, {"message"}) : q[i].n = n
    BY MessageAt
  <2>2. n \in 1..m
    BY <1>3, <2>1, MessageAt
  <2>3. ASSUME NEW k \in 1..n PROVE k \in Numbers(q)
    <3>1. k \in Numbers(all) /\ k \in Nat /\ n \in Nat /\ k <= n
      BY <2>2
    <3>2. PICK j \in Types(all, {"message"}) : all[j].n = k
      BY <3>1, MessageAt
    <3>3. j <= Len(q)
      <4>1. j \in Nat /\ i \in Nat /\ i <= Len(q) /\ Len(q) \in Nat
        BY <1>1, <1>3 DEF Types
      <4>2. i \in Types(all, {"message"}) /\ all[i].n = n
        BY <1>3, <2>1
      <4>3. i < j => all[i].n < all[j].n
        BY <3>2, <4>2 DEF Rising
      <4>4. ~(n < k)
        BY <3>1
      <4>5. ~(i < j)
        BY <3>2, <4>2, <4>3, <4>4
      <4> QED BY <4>1, <4>5
    <3>4. j \in Types(q, {"message"}) /\ q[j].n = k
      BY <1>1, <1>2, <3>2, <3>3 DEF Types
    <3> QED BY <3>4, MessageAt
  <2> QED BY <2>2, <2>3
<1> QED BY <1>4, <1>5 DEF Kept

\* A packet behind others.
LEMMA TypesAppend ==
  ASSUME NEW q \in Seq(Packet), NEW p \in Packet
  PROVE  LET all == Append(q, p)
         IN /\ \A i \in Types(q, {"message"}) : i \in 1..Len(q) /\ i \in Types(all, {"message"}) /\ all[i] = q[i]
            /\ \A i \in Types(all, {"message"}) : i \in Types(q, {"message"}) \/ i = Len(q) + 1
            /\ Len(q) + 1 \in Types(all, {"message"}) <=> p.type = "message"
            /\ all[Len(q) + 1] = p
            /\ Len(q) \in Nat
<1> DEFINE all == Append(q, p)
<1>1. /\ Len(all) = Len(q) + 1 /\ \A i \in 1..Len(q) : all[i] = q[i]
      /\ all[Len(q) + 1] = p /\ all \in Seq(Packet)
      /\ DOMAIN q = 1..Len(q) /\ DOMAIN all = 1..Len(all) /\ Len(q) \in Nat
  BY AppendProperties, LenProperties
<1> HIDE DEF all
<1>2. \A i \in Types(q, {"message"}) : i \in 1..Len(q) /\ i \in Types(all, {"message"}) /\ all[i] = q[i]
  BY <1>1 DEF Types
<1>3. \A i \in Types(all, {"message"}) : i \in Types(q, {"message"}) \/ i = Len(q) + 1
  BY <1>1 DEF Types
<1>4. Len(q) + 1 \in Types(all, {"message"}) <=> p.type = "message"
  BY <1>1 DEF Types
<1> QED BY <1>1, <1>2, <1>3, <1>4 DEF all

LEMMA LastOther ==
  ASSUME NEW q \in Seq(Packet), NEW p \in Packet, p.type # "message"
  PROVE  /\ Numbers(Append(q, p)) = Numbers(q)
         /\ Rising(Append(q, p)) <=> Rising(q)
<1> DEFINE all == Append(q, p)
<1>1. /\ \A i \in Types(q, {"message"}) : i \in Types(all, {"message"}) /\ all[i] = q[i]
      /\ \A i \in Types(all, {"message"}) : i \in Types(q, {"message"})
  BY TypesAppend
<1> HIDE DEF all
<1>2. Numbers(all) = Numbers(q)
  BY <1>1 DEF Numbers
<1>3. Rising(all) <=> Rising(q)
  BY <1>1 DEF Rising
<1> QED BY <1>2, <1>3 DEF all

LEMMA LastMessage ==
  ASSUME NEW q \in Seq(Packet), NEW m \in Nat, Rising(q), Numbers(q) = 1..m
  PROVE  Rising(Append(q, Message(m + 1))) /\ Numbers(Append(q, Message(m + 1))) = 1..(m + 1)
<1> DEFINE p == Message(m + 1)
           all == Append(q, p)
<1>1. p \in Packet /\ p.type = "message" /\ p.n = m + 1
  BY DEF Message, Packet
<1> HIDE DEF p
<1>2. /\ \A i \in Types(q, {"message"}) : i \in 1..Len(q) /\ i \in Types(all, {"message"}) /\ all[i] = q[i]
      /\ \A i \in Types(all, {"message"}) : i \in Types(q, {"message"}) \/ i = Len(q) + 1
      /\ Len(q) + 1 \in Types(all, {"message"}) /\ all[Len(q) + 1] = p
      /\ Len(q) \in Nat
  BY <1>1, TypesAppend
<1> HIDE DEF all
<1>3. \A i \in Types(q, {"message"}) : q[i].n \in 1..m
  BY DEF Numbers
<1>4. Rising(all)
  BY <1>1, <1>2, <1>3 DEF Rising
<1>5. Numbers(all) = Numbers(q) \cup {m + 1}
  BY <1>1, <1>2 DEF Numbers
<1>6. 1..(m + 1) = (1..m) \cup {m + 1}
  OBVIOUS
<1> QED BY <1>4, <1>5, <1>6 DEF all, p

\* A packet before others.
LEMMA TypesFirst ==
  ASSUME NEW q \in Seq(Packet), NEW p \in Packet
  PROVE  LET all == <<p>> \o q
         IN /\ \A i \in Types(q, {"message"}) : i + 1 \in Types(all, {"message"}) /\ all[i + 1] = q[i]
            /\ \A i \in Types(all, {"message"}) :
                 /\ i \in Nat
                 /\ p.type # "message" => i - 1 \in Types(q, {"message"}) /\ all[i] = q[i - 1]
<1> DEFINE all == <<p>> \o q
<1>1. /\ Len(all) = 1 + Len(q) /\ DOMAIN all = 1..Len(all) /\ DOMAIN q = 1..Len(q)
      /\ Len(q) \in Nat /\ all[1] = p /\ \A i \in 1..Len(q) : all[i + 1] = q[i]
  <2>1. <<p>> \in Seq(Packet) /\ Len(<<p>>) = 1 /\ <<p>>[1] = p
    OBVIOUS
  <2>2. all \in Seq(Packet) /\ Len(all) = 1 + Len(q)
        /\ \A i \in 1..(1 + Len(q)) : all[i] = IF i <= 1 THEN <<p>>[i] ELSE q[i - 1]
    BY <2>1, ConcatProperties
  <2> QED BY <2>1, <2>2, LenProperties
<1> HIDE DEF all
<1>2. \A i \in Types(all, {"message"}) :
        /\ i \in Nat
        /\ p.type # "message" => i - 1 \in Types(q, {"message"}) /\ all[i] = q[i - 1]
  BY <1>1 DEF Types
<1>3. \A i \in Types(q, {"message"}) : i + 1 \in Types(all, {"message"}) /\ all[i + 1] = q[i]
  BY <1>1 DEF Types
<1> QED BY <1>2, <1>3 DEF all

LEMMA AfterFirst ==
  ASSUME NEW q \in Seq(Packet), NEW p \in Packet
  PROVE  Numbers(q) \subseteq Numbers(<<p>> \o q)
<1> SUFFICES ASSUME NEW n \in Numbers(q) PROVE n \in Numbers(<<p>> \o q)
  OBVIOUS
<1>1. PICK i \in Types(q, {"message"}) : q[i].n = n
  BY MessageAt
<1> DEFINE all == <<p>> \o q
<1>2. i + 1 \in Types(all, {"message"}) /\ all[i + 1] = q[i]
  BY <1>1, TypesFirst
<1> HIDE DEF all
<1>3. n \in Numbers(all)
  BY <1>1, <1>2, MessageAt
<1> QED BY <1>3 DEF all

LEMMA FirstOther ==
  ASSUME NEW q \in Seq(Packet), NEW p \in Packet, p.type # "message"
  PROVE  /\ Numbers(<<p>> \o q) = Numbers(q)
         /\ Rising(q) => Rising(<<p>> \o q)
<1> DEFINE all == <<p>> \o q
<1>2. \A i \in Types(all, {"message"}) : i - 1 \in Types(q, {"message"}) /\ all[i] = q[i - 1] /\ i \in Nat
  BY TypesFirst
<1>3. \A i \in Types(q, {"message"}) : i + 1 \in Types(all, {"message"}) /\ all[i + 1] = q[i]
  BY TypesFirst
<1> HIDE DEF all
<1>4. Numbers(all) = Numbers(q)
  <2>1. ASSUME NEW n \in Numbers(all) PROVE n \in Numbers(q)
    <3>1. PICK i \in Types(all, {"message"}) : all[i].n = n
      BY <2>1, MessageAt
    <3> QED BY <1>2, <3>1, MessageAt
  <2>2. ASSUME NEW n \in Numbers(q) PROVE n \in Numbers(all)
    <3>1. PICK i \in Types(q, {"message"}) : q[i].n = n
      BY <2>2, MessageAt
    <3> QED BY <1>3, <3>1, MessageAt
  <2> QED BY <2>1, <2>2
<1>5. Rising(q) => Rising(all)
  <2> SUFFICES ASSUME Rising(q), NEW i \in Types(all, {"message"}), NEW j \in Types(all, {"message"}), i < j
               PROVE  all[i].n < all[j].n
    BY DEF Rising
  <2>1. i - 1 < j - 1
    BY <1>2
  <2> QED BY <1>2, <2>1 DEF Rising
<1> QED BY <1>4, <1>5 DEF all

LEMMA Associative == \A q, r, u \in Seq(Packet) : (q \o r) \o u = q \o (r \o u)
  BY ConcatAssociative

LEMMA NoMessages == \A q : Numbers(q) = {} => Rising(q)
  BY DEF Numbers, Rising

LEMMA KeptAppend ==
  ASSUME NEW q \in Seq(Packet), NEW p \in Packet, p.type # "message", NEW m, Kept(q, m)
  PROVE  Kept(Append(q, p), m)
  BY LastOther DEF Kept

LEMMA KeptMore ==
  ASSUME NEW q, NEW m \in Nat, NEW n \in Nat, m <= n, Kept(q, m)
  PROVE  Kept(q, n)
  BY DEF Kept

LEMMA StreamTypes ==
  ASSUME TypeOK, NEW s \in Side
  PROVE  /\ chan[s] \in Seq(Packet) /\ hand[s] \in Seq(Packet) /\ wire[s] \in Seq(Packet)
         /\ hand[s] \o wire[s] \in Seq(Packet) /\ Line(s) \in Seq(Packet)
         /\ out[s] \in Seq(Packet) /\ sent[s] \in Nat
         /\ Other(s) \in Side /\ Other(Other(s)) = s /\ Other(s) # s
         /\ Stream(Other(s)) \in Seq(Packet)
<1>1. chan[s] \in Seq(Packet) /\ hand[s] \in Seq(Packet) /\ wire[s] \in Seq(Packet)
  BY SeqMonotonic, PacketTypes DEF TypeOK
<1>2. Other(s) \in Side /\ Other(Other(s)) = s /\ Other(s) # s
  BY DEF Other, Side
<1>3. hand[s] \o wire[s] \in Seq(Packet)
  BY <1>1, ConcatProperties
<1>4. Line(s) \in Seq(Packet)
  BY <1>1, <1>3, ConcatProperties DEF Line
<1>5. out[s] \in Seq(Packet) /\ out[Other(s)] \in Seq(Packet) /\ sent[s] \in Nat
  BY <1>2 DEF TypeOK
<1>6. Stream(Other(s)) \in Seq(Packet)
  BY <1>2, <1>4, <1>5, ConcatProperties DEF Stream
<1> QED BY <1>1, <1>2, <1>3, <1>4, <1>5, <1>6

\* The first of a queue goes to the end of the one before it.
LEMMA HeadMoves ==
  ASSUME NEW q \in Seq(Packet), NEW r \in Seq(Packet), r # <<>>
  PROVE  Append(q, Head(r)) \o Tail(r) = q \o r
<1>1. Head(r) \in Packet /\ Tail(r) \in Seq(Packet) /\ r = <<Head(r)>> \o Tail(r)
  OBVIOUS
<1>2. <<Head(r)>> \in Seq(Packet) /\ Append(q, Head(r)) = q \o <<Head(r)>>
  BY <1>1, AppendIsConcat
<1> QED BY <1>1, <1>2, Associative

\* What reading does not change.
LEMMA LineStays ==
  ASSUME TypeOK, NEW s \in Side, FrameRead(s) \/ FramePush(s)
  PROVE  \A t \in Side : Line(t)' = Line(t)
<1>0. \A t \in Side : t # s => Line(t)' = Line(t)
  BY DEF Line, FrameRead, FramePush, TypeOK
<1>1. CASE FrameRead(s)
  <2>1. PICK n \in 1..Len(wire[s]) :
          /\ hand' = [hand EXCEPT ![s] = SubSeq(wire[s], 1, n)]
          /\ wire' = [wire EXCEPT ![s] = SubSeq(wire[s], n + 1, Len(wire[s]))]
    BY <1>1 DEF FrameRead, TypeOK
  <2>2. wire[s] \in Seq(Packet) /\ Len(wire[s]) \in Nat /\ n \in 0..Len(wire[s])
    BY StreamTypes, LenProperties
  <2>3. /\ hand'[s] = SubSeq(wire[s], 1, n) /\ wire'[s] = SubSeq(wire[s], n + 1, Len(wire[s]))
        /\ chan'[s] = chan[s] /\ hand[s] = <<>>
    BY <1>1, <2>1 DEF FrameRead, TypeOK
  <2>4. hand'[s] \o wire'[s] = wire[s]
    <3>1. SubSeq(wire[s], 1, n) \o SubSeq(wire[s], n + 1, Len(wire[s])) = SubSeq(wire[s], 1, Len(wire[s]))
      BY <2>2, ConcatAdjacentSubSeq
    <3> QED BY <2>2, <2>3, <3>1, SubSeqFull
  <2>5. hand[s] \o wire[s] = wire[s]
    BY <2>2, <2>3, ConcatEmptySeq
  <2> QED BY <1>0, <2>3, <2>4, <2>5 DEF Line
<1>2. CASE FramePush(s)
  <2>1. /\ chan'[s] = Append(chan[s], Head(hand[s])) /\ hand'[s] = Tail(hand[s])
        /\ wire'[s] = wire[s] /\ hand[s] # <<>>
    BY <1>2 DEF FramePush, TypeOK
  <2>2. chan[s] \in Seq(Packet) /\ hand[s] \in Seq(Packet) /\ wire[s] \in Seq(Packet)
    BY StreamTypes
  <2>3. /\ Append(chan[s], Head(hand[s])) \in Seq(Packet) /\ Tail(hand[s]) \in Seq(Packet)
        /\ Append(chan[s], Head(hand[s])) \o Tail(hand[s]) = chan[s] \o hand[s]
    BY <2>1, <2>2, HeadMoves, HeadTailProperties, AppendProperties
  <2> DEFINE more == Append(chan[s], Head(hand[s]))
             rest == Tail(hand[s])
  <2> HIDE DEF more, rest
  <2>4. more \o (rest \o wire[s]) = (more \o rest) \o wire[s]
    <3>1. more \in Seq(Packet) /\ rest \in Seq(Packet)
      BY <2>3 DEF more, rest
    <3> QED BY <2>2, <3>1, Associative
  <2>5. (chan[s] \o hand[s]) \o wire[s] = chan[s] \o (hand[s] \o wire[s])
    BY <2>2, Associative
  <2>6. Line(s)' = more \o (rest \o wire[s])
    BY <2>1 DEF Line, more, rest
  <2>7. more \o rest = chan[s] \o hand[s]
    BY <2>3 DEF more, rest
  <2>8. Line(s)' = Line(s)
    BY <2>4, <2>5, <2>6, <2>7 DEF Line
  <2> QED BY <1>0, <2>8
<1> QED BY <1>1, <1>2

\* What is sent goes to the end of the other's stream.
LEMMA WireGrows ==
  ASSUME TypeOK, NEW s \in Side, NEW p \in Packet, UNCHANGED <<out, chan, hand>>,
         wire' = [wire EXCEPT ![s] = Append(@, p)]
  PROVE  /\ Stream(Other(s))' = Append(Stream(Other(s)), p)
         /\ Stream(s)' = Stream(s)
<1>1. /\ chan[s] \in Seq(Packet) /\ hand[s] \in Seq(Packet) /\ wire[s] \in Seq(Packet)
      /\ hand[s] \o wire[s] \in Seq(Packet) /\ Line(s) \in Seq(Packet)
      /\ Other(s) \in Side /\ Other(Other(s)) = s /\ Other(s) # s /\ out[Other(s)] \in Seq(Packet)
  BY StreamTypes
<1> DEFINE last == <<p>>
           front == hand[s] \o wire[s]
<1>2. last \in Seq(Packet) /\ \A q \in Seq(Packet) : Append(q, p) = q \o last
  BY AppendIsConcat
<1> HIDE DEF last, front
<1>3. wire'[s] = wire[s] \o last /\ wire'[Other(s)] = wire[Other(s)]
  BY <1>1, <1>2 DEF TypeOK
<1>4. hand[s] \o (wire[s] \o last) = front \o last /\ front \in Seq(Packet)
  BY <1>1, <1>2, Associative DEF front
<1>5. chan[s] \o (front \o last) = Line(s) \o last
  BY <1>1, <1>2, <1>4, Associative DEF Line, front
<1>6. Line(s)' = Line(s) \o last
  BY <1>3, <1>4, <1>5 DEF Line
<1>7. out[Other(s)] \o (Line(s) \o last) = Stream(Other(s)) \o last
  <2>1. Stream(Other(s)) = out[Other(s)] \o Line(s)
    BY <1>1 DEF Stream, Line
  <2>2. (out[Other(s)] \o Line(s)) \o last = out[Other(s)] \o (Line(s) \o last)
    <3>1. out[Other(s)] \in Seq(Packet) /\ Line(s) \in Seq(Packet)
      BY <1>1
    <3> QED BY <1>2, <3>1, Associative
  <2> QED BY <2>1, <2>2
<1>8. Stream(Other(s))' = Append(Stream(Other(s)), p)
  <2>1. Line(Other(Other(s)))' = Line(s)'
    BY <1>1 DEF Line
  <2>2. Stream(Other(s))' = out'[Other(s)] \o Line(Other(Other(s)))'
    BY DEF Stream
  <2>3. Stream(Other(s))' = Stream(Other(s)) \o last
    BY <1>6, <1>7, <2>1, <2>2
  <2>4. Stream(Other(s)) \in Seq(Packet)
    BY StreamTypes
  <2> QED BY <1>2, <2>3, <2>4
<1> QED BY <1>1, <1>3, <1>8 DEF Stream, Line

\* A step that reads, or none of this.
LEMMA SameStep ==
  ASSUME SInv, UNCHANGED <<out, sent>>, NEW u \in Side,
         UNCHANGED <<chan, hand, wire>> \/ FrameRead(u) \/ FramePush(u),
         \A s \in Side : Live(s)' => Live(s)
  PROVE  StreamsFit' /\ Orders'
<1>1. ASSUME NEW s \in Side PROVE Stream(s)' = Stream(s)
  <2>1. Other(s) \in Side /\ TypeOK
    BY StreamTypes DEF SInv, IInv
  <2>2. Line(Other(s))' = Line(Other(s))
    BY <2>1, LineStays DEF Line
  <2> QED BY <2>2 DEF Stream
<1>2. StreamsFit'
  <2> SUFFICES ASSUME NEW s \in Side, Live(s)' PROVE StreamFits(s)'
    BY DEF StreamsFit
  <2>1. StreamFits(s)
    BY DEF SInv, StreamsFit
  <2>2. Stream(s)' = Stream(s)
    BY <1>1
  <2> QED BY <2>1, <2>2 DEF StreamFits
<1> QED BY <1>2 DEF SInv, Orders

\* A packet that is no message, or the next one, is sent.
LEMMA SentStep ==
  ASSUME SInv, NEW s \in Side, NEW p \in Packet, UNCHANGED <<out, chan, hand, sock>>,
         wire' = [wire EXCEPT ![s] = Append(@, p)],
         \A t \in Side : peer[t] = "gone" => peer'[t] = "gone",
         \/ p.type # "message" /\ UNCHANGED sent
         \/ p = Message(sent[s] + 1) /\ sent' = [sent EXCEPT ![s] = @ + 1]
  PROVE  StreamsFit' /\ Orders'
<1>1. /\ TypeOK /\ Other(s) \in Side /\ Other(Other(s)) = s /\ Other(s) # s
      /\ Stream(Other(s)) \in Seq(Packet) /\ sent[s] \in Nat /\ sent \in [Side -> Nat]
      /\ \A t \in Side : t = s \/ t = Other(s)
  BY StreamTypes DEF SInv, IInv, TypeOK, Side, Other
<1>2. \A t \in Side : Live(t)' => Live(t)
  BY DEF Live
<1>3. /\ Stream(Other(s))' = Append(Stream(Other(s)), p)
      /\ Stream(s)' = Stream(s)
  BY <1>1, WireGrows
<1>4. StreamsFit'
  <2>1. ASSUME Live(s)' PROVE StreamFits(s)'
    <3>1. StreamFits(s)
      BY <1>2, <2>1 DEF SInv, StreamsFit
    <3>2. sent'[Other(s)] = sent[Other(s)]
      BY <1>1
    <3> QED BY <1>3, <3>1, <3>2 DEF StreamFits
  <2>2. ASSUME Live(Other(s))'
        PROVE  Rising(Stream(Other(s))') /\ Numbers(Stream(Other(s))') = 1..sent'[s]
    <3>1. Rising(Stream(Other(s))) /\ Numbers(Stream(Other(s))) = 1..sent[s]
      BY <1>1, <1>2, <2>2 DEF SInv, StreamsFit, StreamFits
    <3>2. CASE p.type # "message" /\ UNCHANGED sent
      BY <1>1, <1>3, <3>1, <3>2, LastOther
    <3>3. CASE p = Message(sent[s] + 1) /\ sent' = [sent EXCEPT ![s] = @ + 1]
      BY <1>1, <1>3, <3>1, <3>3, LastMessage
    <3> QED BY <3>2, <3>3
  <2>3. ASSUME Live(Other(s))' PROVE StreamFits(Other(s))'
    BY <1>1, <2>2, <2>3 DEF StreamFits
  <2> QED BY <1>1, <2>1, <2>3 DEF StreamsFit
<1>5. Orders'
  <2> SUFFICES ASSUME NEW t \in Side PROVE Kept(out'[t], sent'[Other(t)])
    BY DEF Orders
  <2>1. sent[Other(t)] \in Nat /\ sent'[Other(t)] \in Nat /\ sent[Other(t)] <= sent'[Other(t)]
    BY <1>1 DEF Other, Side
  <2> QED BY <2>1, KeptMore DEF SInv, Orders
<1> QED BY <1>4, <1>5

\* The packet that authenticates the client.
LEMMA AuthenticateStep ==
  ASSUME SInv, Authenticate
  PROVE  StreamsFit' /\ Orders'
<1>1. /\ chan["c"] \in Seq(Packet) /\ hand["c"] \o wire["c"] \in Seq(Packet) /\ Line("c") \in Seq(Packet)
      /\ Other("g") = "c" /\ Other("c") = "g" /\ "c" \in Side /\ "g" \in Side /\ TypeOK
  BY StreamTypes DEF SInv, IInv, Side, Other
<1>2. /\ out["g"] = <<>> /\ sent["c"] = 0 /\ chan["c"] # <<>>
      /\ UNCHANGED <<wire, hand, peer, sock, out, sent>>
      /\ chan'["c"] = Tail(chan["c"]) /\ chan'["g"] = chan["g"]
  BY <1>1 DEF Authenticate, SInv, IInv, TypeOK, Early, Unanswered, ends, Side
<1>3. Orders'
  BY <1>2 DEF SInv, Orders
<1>4. \A s \in Side : Live(s)' => Live(s)
  BY <1>2 DEF Live
<1>5. Stream("g") = Line("c")
  BY <1>1, <1>2, ConcatEmptySeq DEF Stream, Line
<1> DEFINE behind == hand["c"] \o wire["c"]
           first == Head(chan["c"])
           rest == Tail(chan["c"])
<1>6. /\ first \in Packet /\ rest \in Seq(Packet) /\ chan["c"] = <<first>> \o rest
      /\ <<first>> \in Seq(Packet)
  BY <1>1, <1>2
<1>7. behind \in Seq(Packet) /\ Line("c") = chan["c"] \o behind /\ Line("c")' = rest \o behind
  BY <1>1, <1>2 DEF Line
<1> HIDE DEF behind, first, rest
<1>8. rest \o behind \in Seq(Packet) /\ Line("c") = <<first>> \o (rest \o behind)
  <2>1. (<<first>> \o rest) \o behind = <<first>> \o (rest \o behind)
    BY <1>6, <1>7, Associative
  <2> QED BY <1>6, <1>7, <2>1, ConcatProperties
<1>9. ASSUME Live("g")' PROVE Rising(Stream("g")') /\ Numbers(Stream("g")') = 1..0
  <2>1. Numbers(Line("c")) = 1..0
    BY <1>1, <1>2, <1>4, <1>5, <1>9 DEF SInv, StreamsFit, StreamFits
  <2> DEFINE after == rest \o behind
  <2>2. Stream("g")' = after
    BY <1>1, <1>2, <1>7, <1>8, ConcatEmptySeq DEF Stream, Line
  <2>3. after \in Seq(Packet) /\ Line("c") = <<first>> \o after
    BY <1>8
  <2> HIDE DEF after
  <2>4. Numbers(after) \subseteq Numbers(<<first>> \o after)
    BY <1>6, <2>3, AfterFirst
  <2>5. Numbers(<<first>> \o after) = 1..0
    BY <2>1, <2>3
  <2>6. Numbers(after) = {}
    BY <2>4, <2>5
  <2>7. Rising(after) /\ Numbers(after) = 1..0
    BY <2>6, NoMessages
  <2> QED BY <2>2, <2>7
<1>10. ASSUME Live("g")' PROVE StreamFits("g")'
  BY <1>1, <1>2, <1>9, <1>10 DEF StreamFits
<1>11. ASSUME Live("c")' PROVE StreamFits("c")'
  BY <1>1, <1>2, <1>4, <1>11 DEF SInv, StreamsFit, StreamFits, Stream, Line
<1> QED BY <1>3, <1>10, <1>11 DEF StreamsFit, Side

\* A connection that is removed before it got to its loop.
LEMMA GivenUpStep ==
  ASSUME SInv, RemoveConnection(TRUE, out), UNCHANGED <<chan, hand, wire, ends>>
  PROVE  StreamsFit' /\ Orders'
<1>1. /\ UNCHANGED <<chan, hand, wire, sent, peer>>
      /\ out["c"] \in Seq(Packet) /\ out["g"] \in Seq(Packet) /\ TypeOK
      /\ sock["c"] # "none" /\ Error \in Packet /\ Error.type # "message"
  BY StreamTypes, PacketTypes DEF SInv, IInv, io, ends, Ended, Side
<1>2. /\ out'["c"] \in {out["c"], Append(out["c"], Error)} /\ out'["g"] = out["g"]
      /\ ~Live("c")' /\ (Live("g")' => Live("g"))
  BY <1>1 DEF RemoveConnection, Live, TypeOK, Side
<1>3. ASSUME Live("g")' PROVE StreamFits("g")'
  BY <1>1, <1>2, <1>3 DEF SInv, StreamsFit, StreamFits, Stream, Line, Side
<1>4. Kept(out'["c"], sent["g"])
  BY <1>1, <1>2, KeptAppend DEF SInv, Orders, Side, Other
<1>5. Orders'
  BY <1>1, <1>2, <1>4 DEF SInv, Orders, Side, Other
<1> QED BY <1>2, <1>3, <1>5 DEF StreamsFit, Side

\* The answer is the first packet of the client's stream.
LEMMA ResponseStep ==
  ASSUME SInv, pc = "respond", MaySucceed("c"), out' = Written("c", Response),
         UNCHANGED <<chan, hand, wire, ends, sock>>
  PROVE  StreamsFit' /\ Orders'
<1>1. /\ UNCHANGED <<chan, hand, wire, sent, peer>> /\ TypeOK
      /\ out["c"] = <<>> /\ Line("g") \in Seq(Packet) /\ out["c"] \in Seq(Packet)
      /\ Response \in Packet /\ Response.type # "message"
      /\ "c" \in Side /\ "g" \in Side /\ Other("c") = "g" /\ Other("g") = "c"
  BY StreamTypes, PacketTypes DEF SInv, IInv, Early, io, ends, Side, Other
<1>2. /\ out'["c"] \in {out["c"], Append(out["c"], Response)} /\ out'["g"] = out["g"]
      /\ Live("c")' => Live("c")
      /\ Live("c")' => out'["c"] = <<Response>>
      /\ Live("g")' => Live("g")
  BY <1>1 DEF Written, MaySucceed, Live, TypeOK, Side
<1>3. ASSUME Live("g")' PROVE StreamFits("g")'
  BY <1>1, <1>2, <1>3 DEF SInv, StreamsFit, StreamFits, Stream, Line
<1>4. ASSUME Live("c")' PROVE Rising(Stream("c")') /\ Numbers(Stream("c")') = 1..sent'["g"]
  <2> DEFINE line == Line("g")
  <2>1. Stream("c") = line
    BY <1>1, ConcatEmptySeq DEF Stream, Line
  <2>2. Rising(Stream("c")) /\ Numbers(Stream("c")) = 1..sent["g"]
    BY <1>1, <1>2, <1>4 DEF SInv, StreamsFit, StreamFits
  <2>3. Stream("c")' = <<Response>> \o line
    BY <1>1, <1>2, <1>4 DEF Stream, Line
  <2>4. line \in Seq(Packet)
    BY <1>1
  <2> HIDE DEF line
  <2>5. Rising(<<Response>> \o line) /\ Numbers(<<Response>> \o line) = Numbers(line)
    BY <1>1, <2>1, <2>2, <2>4, FirstOther
  <2>6. Numbers(line) = 1..sent'["g"]
    BY <1>1, <2>1, <2>2
  <2> QED BY <2>3, <2>5, <2>6
<1>5. ASSUME Live("c")' PROVE StreamFits("c")'
  BY <1>1, <1>4, <1>5 DEF StreamFits
<1>6. Kept(out'["c"], sent["g"])
  BY <1>1, <1>2, KeptAppend DEF SInv, Orders
<1>7. Orders'
  BY <1>1, <1>2, <1>6 DEF SInv, Orders, Side
<1> QED BY <1>3, <1>5, <1>7 DEF StreamsFit, Side

\* A packet is passed on, and the streams stay what they were; or the connection is removed.
LEMMA ForwardedStep ==
  ASSUME SInv, NEW s \in Side, Forward(s)
  PROVE  StreamsFit' /\ Orders'
<1> DEFINE t == Other(s)
           p == Head(chan[s])
<1>1. /\ TypeOK /\ chan[s] \in Seq(Packet) /\ hand[s] \o wire[s] \in Seq(Packet)
      /\ t \in Side /\ Other(t) = s /\ t # s /\ out[t] \in Seq(Packet) /\ Line(s) \in Seq(Packet)
      /\ sent[s] \in Nat /\ \A r \in Side : r = s \/ r = t
  BY StreamTypes DEF SInv, IInv, Side, Other
<1>2. /\ UNCHANGED <<hand, wire, peer, sent>> /\ chan[s] # <<>>
      /\ chan'[s] = Tail(chan[s]) /\ chan'[t] = chan[t]
  BY <1>1 DEF Forward, ends, TypeOK
<1>3. p \in Packet /\ Tail(chan[s]) \in Seq(Packet)
  BY <1>1, <1>2
<1>4. Error \in Packet /\ Error.type # "message"
  BY PacketTypes
<1> HIDE DEF p
\* What the side that sent it still gets.
<1>5. Line(t)' = Line(t)
  BY <1>2 DEF Line
<1>6. ASSUME Live(s)', Live(s), out'[s] = out[s] PROVE StreamFits(s)'
  <2>1. StreamFits(s)
    BY <1>6 DEF SInv, StreamsFit
  <2>2. Stream(s)' = Stream(s)
    BY <1>5, <1>6 DEF Stream
  <2> QED BY <1>2, <2>1, <2>2 DEF StreamFits
\* It is enough to look at either side.
<1>10. ASSUME Kept(out'[t], sent[s]), out'[s] = out[s] PROVE Orders'
  <2> SUFFICES ASSUME NEW r \in Side PROVE Kept(out'[r], sent'[Other(r)])
    BY DEF Orders
  <2>1. CASE r = s
    BY <1>2, <1>10, <2>1 DEF SInv, Orders
  <2>2. CASE r = t
    BY <1>1, <1>2, <1>10, <2>2
  <2> QED BY <1>1, <2>1, <2>2
<1>11. ASSUME Live(s)' => StreamFits(s)', Live(t)' => StreamFits(t)' PROVE StreamsFit'
  <2>1. CASE s = "c"
    BY <1>11, <2>1 DEF StreamsFit, Side, Other
  <2>2. CASE s = "g"
    BY <1>11, <2>2 DEF StreamsFit, Side, Other
  <2> QED BY <2>1, <2>2 DEF Side
<1>7. CASE MaySucceed(t) /\ p.type # "close" /\ out' = Written(t, p) /\ UNCHANGED sock
  <2>1. /\ out'[s] = out[s]
        /\ Live(s)' => Live(s)
        /\ Live(t)' => Live(t)
        /\ out'[t] = IF Live(t) THEN Append(out[t], p) ELSE out[t]
    BY <1>1, <1>2, <1>7 DEF Written, MaySucceed, Live, TypeOK
  <2>2. ASSUME Live(t) PROVE Rising(out'[t] \o Line(s)') /\ Numbers(out'[t] \o Line(s)') = 1..sent[s]
    <3> DEFINE rest == Tail(chan[s])
               behind == hand[s] \o wire[s]
               more == Append(out[t], p)
    <3>1. /\ rest \in Seq(Packet) /\ behind \in Seq(Packet) /\ more \in Seq(Packet)
          /\ Line(s) = chan[s] \o behind /\ Line(s)' = rest \o behind /\ out'[t] = more
      BY <1>1, <1>2, <1>3, <2>1, <2>2, AppendProperties DEF Line
    <3>2. more \o rest = out[t] \o chan[s]
      BY <1>1, <1>2, HeadMoves DEF p
    <3> HIDE DEF rest, behind, more
    <3>3. more \o (rest \o behind) = (more \o rest) \o behind
      BY <3>1, Associative
    <3>4. (out[t] \o chan[s]) \o behind = out[t] \o (chan[s] \o behind)
      BY <1>1, <3>1, Associative
    <3>5. out'[t] \o Line(s)' = out[t] \o Line(s)
      BY <3>1, <3>2, <3>3, <3>4
    <3>6. Stream(t) = out[t] \o Line(s)
      BY <1>1 DEF Stream, Line
    <3>7. Rising(Stream(t)) /\ Numbers(Stream(t)) = 1..sent[s]
      BY <1>1, <2>2 DEF SInv, StreamsFit, StreamFits
    <3> QED BY <3>5, <3>6, <3>7
  <2>3. ASSUME Live(t)' PROVE StreamFits(t)'
    <3>1. Stream(t)' = out'[t] \o Line(s)'
      BY <1>1 DEF Stream, Line
    <3>2. Rising(Stream(t)') /\ Numbers(Stream(t)') = 1..sent[s]
      <4>1. Live(t)
        BY <2>1, <2>3
      <4>2. Rising(out'[t] \o Line(s)') /\ Numbers(out'[t] \o Line(s)') = 1..sent[s]
        BY <2>2, <4>1
      <4> QED BY <3>1, <4>2
    <3>3. sent'[Other(t)] = sent[s]
      BY <1>1, <1>2
    <3> QED BY <3>2, <3>3 DEF StreamFits
  <2>4. Kept(out'[t], sent[s])
    <3>1. CASE ~Live(t)
      BY <1>1, <2>1, <3>1 DEF SInv, Orders
    <3>2. CASE Live(t)
      <4> DEFINE got == out'[t]
                 line == Line(s)'
      <4>1. Rising(got \o line) /\ Numbers(got \o line) = 1..sent[s]
        BY <2>2, <3>2
      <4>2. got \in Seq(Packet)
        BY <1>1, <1>3, <2>1, AppendProperties
      <4>3. line \in Seq(Packet)
        BY <1>1, <1>2, <1>3, ConcatProperties DEF Line
      <4> HIDE DEF got, line
      <4>4. Kept(got, sent[s])
        BY <1>1, <4>1, <4>2, <4>3, InStream
      <4> QED BY <4>4 DEF got
    <3> QED BY <3>1, <3>2
  <2> QED BY <1>6, <1>10, <1>11, <2>1, <2>3, <2>4
<1>8. CASE MaySucceed(t) /\ p.type = "close" /\ RemoveConnection(FALSE, Written(t, p))
  <2>1. /\ out'[s] = out[s] /\ ~Live(t)'
        /\ Live(s)' => Live(s)
        /\ out'[t] \in {out[t], Append(out[t], p)}
    BY <1>1, <1>2, <1>8 DEF Written, MaySucceed, Live, TypeOK, RemoveConnection
  <2>2. Kept(out'[t], sent[s])
    BY <1>1, <1>3, <1>8, <2>1, KeptAppend DEF SInv, Orders
  <2>3. Live(s)' => StreamFits(s)'
    BY <1>6, <2>1
  <2> QED BY <1>10, <1>11, <2>1, <2>2, <2>3
<1>9. CASE MayFail(t) /\ RemoveConnection(TRUE, out)
  <2>1. /\ \A r \in Side : out'[r] \in {out[r], Append(out[r], Error)}
        /\ \A r \in Side : out'[r] # out[r] => ~Live(r)'
        /\ \A r \in Side : Live(r)' => Live(r)
        /\ ~Live(t)'
    BY <1>1, <1>2, <1>9 DEF MayFail, Live, TypeOK, RemoveConnection, Side
  <2>2. ASSUME NEW r \in Side PROVE Kept(out'[r], sent[Other(r)])
    <3>1. out[r] \in Seq(Packet) /\ Kept(out[r], sent[Other(r)])
      BY <1>1 DEF SInv, Orders, TypeOK
    <3> QED BY <1>4, <2>1, <3>1, KeptAppend
  <2>3. Orders'
    BY <1>2, <2>2 DEF Orders
  <2>4. Live(s)' => StreamFits(s)'
    <3>1. Live(s)' => Live(s)
      BY <2>1
    <3>2. out'[s] # out[s] => ~Live(s)'
      BY <2>1
    <3> QED BY <1>6, <3>1, <3>2
  <2> QED BY <1>11, <2>1, <2>3, <2>4
<1> QED BY <1>7, <1>8, <1>9 DEF Forward, p

LEMMA SInvInitial == Init => SInv
<1> SUFFICES ASSUME Init PROVE SInv
  OBVIOUS
<1>1. IInv
  BY InitIInv
<1>2. Unanswered /\ Undialed
  BY DEF Init, Unanswered, Undialed, Side
<1>3. Types(<<>>, {"message"}) = {}
  BY DEF Types
<1>4. Numbers(<<>>) = {} /\ Rising(<<>>)
  BY <1>3 DEF Numbers, Rising
<1>5. \A s \in Side : out[s] = <<>> /\ sent[Other(s)] = 0 /\ Stream(s) = <<>>
  <2> SUFFICES ASSUME NEW s \in Side PROVE out[s] = <<>> /\ sent[Other(s)] = 0 /\ Stream(s) = <<>>
    OBVIOUS
  <2>1. /\ Other(s) \in Side /\ out[s] = <<>> /\ sent[Other(s)] = 0
        /\ chan[Other(s)] = <<>> /\ hand[Other(s)] = <<>> /\ wire[Other(s)] = <<>>
    BY DEF Init, Other, Side
  <2>2. <<>> \in Seq(Packet) /\ <<>> \o <<>> = <<>>
    BY EmptySeq, ConcatEmptySeq
  <2> QED BY <2>1, <2>2 DEF Stream, Line
<1>6. 1..0 = {}
  OBVIOUS
<1>7. StreamsFit
  BY <1>4, <1>5, <1>6 DEF StreamsFit, StreamFits
<1>8. Orders
  BY <1>4, <1>5 DEF Orders, Kept
<1> QED BY <1>1, <1>2, <1>7, <1>8 DEF SInv

\* The client is not ready before its answer, and nobody dials twice.
LEMMA BeforeGame ==
  ASSUME SInv, [Next]_vars
  PROVE  Unanswered' /\ Undialed'
<1> USE DEF SInv, IInv, TypeOK, Side, ends, io
<1>1. CASE SendAuth \/ Disconnect \/ Vanish \/ ServerClose \/ ServerExit \/ Done \/ ProxyClose
           \/ UNCHANGED vars
  BY <1>1 DEF SendAuth, Disconnect, Vanish, ServerClose, ServerExit, Done, ProxyClose, vars,
              Unanswered, Undialed
<1>2. CASE Connect
  BY <1>2 DEF Connect, Unanswered, Undialed, Early
<1>3. CASE Authenticate
  BY <1>3 DEF Authenticate, Unanswered, Undialed
<1>4. CASE Matchmake
  BY <1>4 DEF Matchmake, Unanswered, Undialed
<1>5. CASE Dial
  BY <1>5 DEF Dial, Unanswered, Undialed
<1>6. CASE Respond
  BY <1>6 DEF Respond, Unanswered, Undialed
<1>7. ASSUME NEW s \in Side, Send(s) PROVE Unanswered' /\ Undialed'
  <2>1. pc \in {"auth", "matchmake", "dial", "respond"} => s = "g"
    BY <1>7 DEF Send, Unanswered
  <2> QED BY <1>7, <2>1 DEF Send, Unanswered, Undialed
<1>8. ASSUME NEW s \in Side, Frame(s) \/ Forward(s) PROVE Unanswered' /\ Undialed'
  <2>1. UNCHANGED <<pc, client, sent>> /\ (pc = "loop" \/ UNCHANGED sock)
    BY <1>8 DEF Frame, FrameRead, FramePush, FrameEnd, Forward
  <2> QED BY <2>1 DEF Unanswered, Undialed
<1> QED BY <1>1, <1>2, <1>3, <1>4, <1>5, <1>6, <1>7, <1>8 DEF Next, Handler

LEMMA SInvStep == ASSUME SInv, [Next]_vars PROVE SInv'
<1>0. IInv'
  BY StepIInv DEF SInv
<1>1. Unanswered' /\ Undialed'
  BY BeforeGame
<1>2. StreamsFit' /\ Orders'
  <2>1. CASE Connect \/ Vanish \/ ServerExit \/ Done \/ ProxyClose \/ UNCHANGED vars
    <3>1. UNCHANGED <<out, sent, chan, hand, wire, sock>>
      BY <2>1 DEF Connect, Vanish, ServerExit, Done, ProxyClose, vars, io, ends
    <3>2. \A s \in Side : peer[s] = "gone" => peer'[s] = "gone"
      BY <2>1 DEF Connect, Vanish, ServerExit, Done, ProxyClose, vars, ends, SInv, IInv, TypeOK, Side
    <3>3. \A s \in Side : Live(s)' => Live(s)
      BY <3>1, <3>2 DEF Live
    <3>4. "c" \in Side
      BY DEF Side
    <3> QED BY <3>1, <3>3, <3>4, SameStep
  <2>2. CASE SendAuth \/ Disconnect \/ ServerClose
    <3>1. /\ "c" \in Side /\ "g" \in Side /\ Auth \in Packet /\ Close \in Packet
          /\ Auth.type # "message" /\ Close.type # "message"
      BY PacketTypes DEF Side, Auth, Close
    <3>2. \A t \in Side : peer[t] = "gone" => peer'[t] = "gone"
      BY <2>2 DEF SendAuth, Disconnect, ServerClose, SInv, IInv, TypeOK, Side
    <3>3. CASE SendAuth
      BY <3>1, <3>2, <3>3, SentStep DEF SendAuth
    <3>4. CASE Disconnect
      BY <3>1, <3>2, <3>4, SentStep DEF Disconnect
    <3>5. CASE ServerClose
      BY <3>1, <3>2, <3>5, SentStep DEF ServerClose
    <3> QED BY <2>2, <3>3, <3>4, <3>5
  <2>3. ASSUME NEW s \in Side, Send(s) PROVE StreamsFit' /\ Orders'
    <3>1. sent'[s] = sent[s] + 1 /\ sent[s] \in Nat
      BY <2>3 DEF Send, SInv, IInv, TypeOK
    <3>2. Message(sent[s] + 1) \in Packet
      BY <3>1, PacketTypes
    <3> QED BY <2>3, <3>1, <3>2, SentStep DEF Send
  <2>4. ASSUME NEW s \in Side, Frame(s) PROVE StreamsFit' /\ Orders'
    <3>1. UNCHANGED <<out, sent, sock, peer>>
      BY <2>4 DEF Frame, FrameRead, FramePush, FrameEnd, ends
    <3>2. UNCHANGED <<chan, hand, wire>> \/ FrameRead(s) \/ FramePush(s)
      BY <2>4 DEF Frame, FrameEnd
    <3>3. \A t \in Side : Live(t)' => Live(t)
      BY <3>1 DEF Live
    <3> QED BY <3>1, <3>2, <3>3, SameStep
  <2>5. CASE Matchmake
    <3>1. CASE RemoveConnection(TRUE, out)
      BY <2>5, <3>1, GivenUpStep DEF Matchmake, io
    <3>2. CASE UNCHANGED <<out, sock>>
      <4>1. UNCHANGED <<out, sent, chan, hand, wire, sock, peer>> /\ "c" \in Side
        BY <2>5, <3>2 DEF Matchmake, io, ends, Side
      <4> QED BY <4>1, SameStep DEF Live
    <3> QED BY <2>5, <3>1, <3>2 DEF Matchmake
  <2>6. CASE Dial
    <3>1. CASE RemoveConnection(TRUE, out)
      <4>1. UNCHANGED <<chan, hand, wire, ends>>
        BY <2>6 DEF Dial
      <4> QED BY <3>1, <4>1, GivenUpStep
    <3>2. CASE sock' = [sock EXCEPT !["g"] = "open"] /\ UNCHANGED out
      <4>1. UNCHANGED <<out, sent, chan, hand, wire, peer>> /\ "c" \in Side /\ sock["g"] = "none"
        BY <2>6, <3>2 DEF Dial, ends, Side, SInv, Undialed
      <4>2. \A s \in Side : Live(s)' => Live(s)
        BY <3>2, <4>1 DEF Live, Side, SInv, IInv, TypeOK
      <4> QED BY <4>1, <4>2, SameStep
    <3> QED BY <2>6, <3>1, <3>2 DEF Dial
  <2>7. CASE Respond
    <3>1. UNCHANGED <<chan, hand, wire, ends>> /\ pc = "respond"
      BY <2>7 DEF Respond, io
    <3>2. CASE RemoveConnection(TRUE, out)
      BY <3>1, <3>2, GivenUpStep
    <3>3. CASE MaySucceed("c") /\ out' = Written("c", Response) /\ UNCHANGED sock
      BY <3>1, <3>3, ResponseStep
    <3> QED BY <2>7, <3>2, <3>3 DEF Respond
  <2> QED BY <2>1, <2>2, <2>3, <2>4, <2>5, <2>6, <2>7, AuthenticateStep, ForwardedStep DEF Next, Handler
<1> QED BY <1>0, <1>1, <1>2 DEF SInv

\* Each end gets the other's messages in order and without a gap, whatever the proxy, the ends
\* and the framers do in between.
THEOREM MessagesInOrder == Spec => []InOrder
<1>1. SInv => InOrder
  BY DEF SInv, Orders, Kept, InOrder
<1> QED BY <1>1, SInvInitial, SInvStep, PTL DEF Spec
-----------------------------------------------------------------------------
(* The accept loop *)

USE AcceptAssumption, ReaderAssumption

\* A connection stands in at most one queue, once, and listen holds at most one.
QueuesInv ==
  /\ backlog \in Seq(Clients) /\ ch \in Seq(Clients)
  /\ \A i \in DOMAIN backlog : conn[backlog[i]] = "backlog"
  /\ \A i, j \in DOMAIN backlog : backlog[i] = backlog[j] => i = j
  /\ \A i, j \in DOMAIN ch : ch[i] = ch[j] => i = j
  /\ \A c, d \in Clients : conn[c] = "held" /\ conn[d] = "held" => c = d

\* When a proxy that had a listener has closed it and itself, and nothing was on its way, then
\* nothing is on its way any more.
ClosingInv ==
  /\ assigned <=> run \notin {"listen", "assign"}
  /\ assigned <=> accept # "none"
  /\ listener = "closed" => assigned
  /\ closed <=> owner = "closed"
  /\ owner \in {"closing", "closed"} /\ ~excused =>
       listener = "closed" /\ \A c \in Clients : conn[c] # "backlog"
  /\ closed /\ ~excused => \A c \in Clients : conn[c] \notin {"held", "queued", "adding"}

AcceptInv == AcceptTypeOK /\ QueuesInv /\ ClosingInv /\ NoLateAdd

LEMMA AcceptInitial == AcceptInit => AcceptInv
  BY DEF AcceptInit, AcceptInv, AcceptTypeOK, QueuesInv, ClosingInv, NoLateAdd

LEMMA AcceptStep == AcceptInv /\ AcceptNext => AcceptInv'
<1> SUFFICES ASSUME AcceptInv, AcceptNext PROVE AcceptInv'
  OBVIOUS
<1> USE DEF AcceptInv, AcceptTypeOK, QueuesInv, ClosingInv, NoLateAdd, loop
<1>0. ~panicked
  BY DEF AcceptNext
<1>1. ASSUME NEW c \in Clients, DialProxy(c) PROVE AcceptInv'
  <2>1. CASE listener = "open"
    <3>1. /\ backlog' = Append(backlog, c) /\ conn' = [conn EXCEPT ![c] = "backlog"] /\ conn[c] = "new"
          /\ UNCHANGED <<run, accept, listener, assigned, ready, owner, ch, closed, panicked, excused>>
      BY <1>1, <2>1 DEF DialProxy
    <3>2. /\ backlog' \in Seq(Clients) /\ Len(backlog') = Len(backlog) + 1
          /\ \A i \in 1 .. Len(backlog) : backlog'[i] = backlog[i]
          /\ backlog'[Len(backlog) + 1] = c
      BY <3>1, AppendProperties
    <3>3. \A i \in DOMAIN backlog' : i \in DOMAIN backlog \/ i = Len(backlog) + 1
      BY <3>2
    <3>4. \A i \in DOMAIN backlog : backlog[i] # c
      BY <3>1
    <3>5. QueuesInv'
      BY <3>1, <3>2, <3>3, <3>4
    <3>6. AcceptTypeOK' /\ ClosingInv' /\ NoLateAdd'
      BY <3>1, <2>1
    <3> QED
      BY <3>5, <3>6
  <2>2. CASE listener # "open"
    BY <1>1, <2>2 DEF DialProxy
  <2> QED
    BY <2>1, <2>2
<1>2. CASE Listen
  BY <1>2 DEF Listen
<1>3. CASE Assign
  BY <1>3 DEF Assign
<1>4. CASE SignalReady
  BY <1>4 DEF SignalReady
<1>5. CASE Accept
  <2>1. CASE listener = "closed" /\ accept' = "returned" /\ UNCHANGED <<conn, backlog>>
    BY <1>5, <2>1 DEF Accept
  <2>2. CASE listener = "open" /\ backlog # <<>> /\ accept' = "send"
             /\ conn' = [conn EXCEPT ![Head(backlog)] = "held"] /\ backlog' = Tail(backlog)
    <3>1. UNCHANGED <<run, listener, assigned, ready, owner, ch, closed, panicked, excused>>
      BY <1>5 DEF Accept
    <3>2. /\ Head(backlog) = backlog[1] /\ Head(backlog) \in Clients /\ 1 \in DOMAIN backlog
          /\ backlog' \in Seq(Clients) /\ Len(backlog') = Len(backlog) - 1
          /\ \A i \in 1 .. Len(backlog') : backlog'[i] = backlog[i + 1]
      BY <2>2, HeadTailProperties
    <3>3. \A i \in DOMAIN backlog' : i + 1 \in DOMAIN backlog /\ i + 1 # 1
      BY <3>2
    <3>4. conn[Head(backlog)] = "backlog" /\ \A c \in Clients : conn[c] # "held"
      BY <3>2, <1>5 DEF Accept
    <3>5. \A i \in DOMAIN backlog' : backlog'[i] # Head(backlog)
      BY <3>2, <3>3
    <3>6. QueuesInv'
      BY <2>2, <3>1, <3>2, <3>3, <3>4, <3>5
    <3>7. AcceptTypeOK'
      <4>1. conn'[Head(backlog)] = "held"
        BY <2>2, <3>2
      <4>2. \A i \in DOMAIN ch : conn'[ch[i]] = "queued"
        BY <2>2, <3>1, <3>4
      <4> QED
        BY <2>2, <3>1, <3>2, <4>1, <4>2
    <3>8. excused \/ owner \notin {"closing", "closed"}
      BY <2>2
    <3>9. ClosingInv' /\ NoLateAdd'
      BY <1>0, <1>5, <2>2, <3>1, <3>2, <3>8 DEF Accept
    <3> QED
      BY <3>6, <3>7, <3>9
  <2> QED
    BY <1>5, <2>1, <2>2 DEF Accept
<1>6. CASE SendConn
  BY <1>6 DEF SendConn
<1>7. CASE Serve
  BY <1>7 DEF Serve
<1>8. CASE Leave
  BY <1>8 DEF Leave
<1>9. ASSUME NEW c \in Clients, Add(c) PROVE AcceptInv'
  BY <1>9 DEF Add
<1>10. CASE Cancel
  BY <1>10 DEF Cancel
<1>11. CASE WaitForReady
  BY <1>11 DEF WaitForReady
<1>12. CASE CloseListener
  <2>0. UNCHANGED <<run, accept, assigned, ready, ch, closed, panicked>> /\ owner' = "closing"
        /\ excused' = ~assigned /\ ~closed /\ owner \notin {"closing", "closed"}
    BY <1>12 DEF CloseListener
  <2>1. CASE assigned
    <3>1. /\ listener' = "closed" /\ backlog' = <<>>
          /\ conn' = [c \in Clients |-> IF conn[c] = "backlog" THEN "refused" ELSE conn[c]]
      BY <1>12, <2>1 DEF CloseListener
    <3>2. \A c \in Clients : conn'[c] # "backlog" /\ (conn'[c] = "held" <=> conn[c] = "held")
      BY <3>1
    <3>3. \A i \in DOMAIN ch : ch[i] \in Clients /\ conn'[ch[i]] = "queued"
      BY <3>1
    <3> QED
      BY <1>0, <2>0, <2>1, <3>1, <3>2, <3>3
  <2>2. CASE ~assigned
    <3>1. UNCHANGED <<listener, backlog, conn>> /\ excused'
      BY <1>12, <2>0, <2>2 DEF CloseListener
    <3>2. AcceptTypeOK' /\ QueuesInv'
      BY <2>0, <3>1
    <3>3. ClosingInv' /\ NoLateAdd'
      BY <1>0, <2>0, <2>2, <3>1
    <3> QED
      BY <3>2, <3>3
  <2> QED
    BY <2>1, <2>2
<1>13. CASE CloseProxy
  BY <1>13 DEF CloseProxy
<1> QED
  BY <1>1, <1>2, <1>3, <1>4, <1>5, <1>6, <1>7, <1>8, <1>9, <1>10, <1>11, <1>12, <1>13
  DEF AcceptNext, Opening, Serving, Adding, Closing
-----------------------------------------------------------------------------
(* The context reader *)

\* An error is reported by an internalRead that has returned; the inner context is cancelled
\* when it has been passed on; the channels are closed by the waiter, which has seen a context
\* that is done.
ReaderInv ==
  /\ ReaderTypeOK /\ PanicNeedsCancel
  /\ arrived \in Nat /\ framed \in Nat
  /\ err = 1 \/ relay # "wait" => reader = "returned"
  /\ inner => relay = "returned"
  /\ waiter # "wait" => done \/ inner
  /\ errsClosed => waiter # "wait"
  /\ outClosed => waiter = "returned"

LEMMA ReaderInitial == ReaderInit => ReaderInv
  BY DEF ReaderInit, ReaderInv, ReaderTypeOK, PanicNeedsCancel

LEMMA ReaderStep == ReaderInv /\ ReaderNext => ReaderInv'
<1> SUFFICES ASSUME ReaderInv, ReaderNext PROVE ReaderInv'
  OBVIOUS
<1> USE DEF ReaderInv, ReaderTypeOK, PanicNeedsCancel, input, inside
<1>1. CASE Arrive \/ FrameInstead \/ Hangup \/ Expire
  BY <1>1 DEF Arrive, FrameInstead, Hangup, Expire
<1>2. CASE internalRead
  BY <1>2 DEF internalRead, ReadData, ReadFails, ReportError, SendOut
<1>3. CASE Relayed
  BY <1>3 DEF Relayed, TakeError, PassError, CancelInner
<1>4. CASE Waited
  BY <1>4 DEF Waited, CloseErr, CloseOut
<1>5. CASE Consumed
  BY <1>5 DEF Consumed, TakeOut, TakeErr
<1> QED
  BY <1>1, <1>2, <1>3, <1>4, <1>5 DEF ReaderNext
-----------------------------------------------------------------------------
\* Around a connection, assertions and panics end the process only as described: a client is
\* added to a closed proxy (am-proxy.go's assertion) only if it was on its way or the proxy had
\* no listener yet, and a send meets a closed channel (context.go) only after a cancel.
THEOREM AroundAlwaysSafe == AllSpec => []AroundSafe
<1>1. AllInit => AcceptInv /\ ReaderInv
  BY AcceptInitial, ReaderInitial DEF AllInit
<1>2. AcceptInv /\ ReaderInv /\ [(Accepting \/ Connecting \/ Reading) /\ UNCHANGED part]_<<vars, avars, rvars, part>>
      => AcceptInv' /\ ReaderInv'
  <2> SUFFICES ASSUME AcceptInv, ReaderInv,
                      [(Accepting \/ Connecting \/ Reading) /\ UNCHANGED part]_<<vars, avars, rvars, part>>
               PROVE  AcceptInv' /\ ReaderInv'
    OBVIOUS
  <2>1. UNCHANGED avars => AcceptInv'
    BY DEF avars, loop, AcceptInv, AcceptTypeOK, QueuesInv, ClosingInv, NoLateAdd
  <2>2. UNCHANGED rvars => ReaderInv'
    BY DEF rvars, input, inside, ReaderInv, ReaderTypeOK, PanicNeedsCancel
  <2>3. CASE Accepting
    BY <2>2, <2>3, AcceptStep DEF Accepting
  <2>4. CASE Connecting
    BY <2>1, <2>2, <2>4 DEF Connecting
  <2>5. CASE Reading
    BY <2>1, <2>5, ReaderStep DEF Reading
  <2>6. CASE UNCHANGED <<vars, avars, rvars, part>>
    BY <2>1, <2>2, <2>6
  <2> QED
    BY <2>3, <2>4, <2>5, <2>6
<1>3. AcceptInv /\ ReaderInv => AroundSafe
  BY DEF AcceptInv, ReaderInv, AroundSafe
<1> QED
  BY <1>1, <1>2, <1>3, PTL DEF AllSpec
-----------------------------------------------------------------------------
(* The framer of packets *)

IsPacket(p) == p \in RawPacket /\ Len(p.data) < PayloadSize
Size(p) == HEADER_SIZE + Len(p.data)

\* Two sequences of bytes, one behind the other.
LEMMA Pasted ==
    ASSUME NEW s \in Seq(Byte), NEW t \in Seq(Byte)
    PROVE  /\ s \o t \in Seq(Byte) /\ Len(s \o t) = Len(s) + Len(t) /\ Len(s) \in Nat /\ Len(t) \in Nat
           /\ \A i \in 1 .. Len(s) : (s \o t)[i] = s[i]
           /\ \A i \in 1 .. Len(t) : (s \o t)[i + Len(s)] = t[i]
<1>1. /\ s \o t \in Seq(Byte) /\ Len(s \o t) = Len(s) + Len(t) /\ Len(s) \in Nat /\ Len(t) \in Nat
  OBVIOUS
<1>2. \A i \in 1 .. Len(s) : (s \o t)[i] = s[i]
  BY <1>1
<1>3. \A i \in 1 .. Len(t) : (s \o t)[i + Len(s)] = t[i]
  BY <1>1
<1> QED BY <1>1, <1>2, <1>3

\* A number of two bytes is put together again as it was.
LEMMA TwoBytes ==
    ASSUME NEW b \in Nat \ {0}, NEW n \in Nat, n < b * b
    PROVE  /\ n \div b \in 0 .. (b - 1) /\ n % b \in 0 .. (b - 1)
           /\ ((n \div b) % b) * b + (n % b) = n
<1>1. n = b * (n \div b) + (n % b) /\ n % b \in 0 .. (b - 1) /\ n \div b \in Nat
  OBVIOUS
<1>2. n \div b < b
  <2> DEFINE q == n \div b
  <2>1. q \in Nat /\ b * q <= n
    BY <1>1
  <2>2. ASSUME q >= b PROVE FALSE
    <3>1. b * q >= b * b
      <4> HIDE DEF q
      <4> QED BY <2>1, <2>2, SMT
    <3> HIDE DEF q
    <3>2. b * q \in Nat /\ b * b \in Nat
      BY <2>1
    <3> QED BY <2>1, <3>1, <3>2
  <2> HIDE DEF q
  <2> QED BY <2>1, <2>2 DEF q
<1>3. (n \div b) % b = n \div b
  BY <1>1, <1>2
<1>4. (n \div b) * b = b * (n \div b)
  BY <1>1
<1> QED BY <1>1, <1>2, <1>3, <1>4

\* The sizes that fit into two bytes.
LEMMA Fitting ==
    /\ Base \in Nat \ {0, 1} /\ PayloadSize \in Nat \ {0} /\ ChunkSize \in Nat \ {0} /\ Base * Base \in Nat
    /\ PayloadSize + 4 + ChunkSize <= Base * Base
    /\ FrameCap \in Nat \ {0} /\ MaxPackets \in Nat
    /\ \A n \in 1 .. MaxPackets : \A p \in Writable[n] : IsPacket(p)
BY PFAssumption DEF VERSION, HEADER_SIZE, IsPacket

\* What a packet is as bytes.
LEMMA EncodeIs ==
    ASSUME NEW p, IsPacket(p)
    PROVE  /\ Len(p.data) \in Nat /\ Size(p) \in Nat /\ Size(p) = Len(p.data) + 4
           /\ Encode(p) \in Seq(Byte) /\ Len(Encode(p)) = Size(p)
           /\ Encode(p)[1] = p.version /\ Encode(p)[2] = p.type
           /\ Uint16(Encode(p)[3], Encode(p)[4]) = Len(p.data)
           /\ \A j \in 1 .. Len(p.data) : Encode(p)[j + 4] = p.data[j]
<1> DEFINE n == Len(p.data)
           head == <<p.version, p.type>>
           size == PutUint16(n)
<1>1. p.version \in Byte /\ p.type \in Byte /\ p.data \in Seq(Byte) /\ n \in Nat /\ n < PayloadSize
  BY DEF IsPacket, RawPacket
<1>2. n < Base * Base
  BY <1>1, Fitting
<1>3. /\ n \div Base \in Byte /\ n % Base \in Byte /\ (n \div Base) % Base \in Byte
      /\ ((n \div Base) % Base) * Base + (n % Base) = n
  <2>1. Base \in Nat \ {0}
    BY Fitting
  <2>2. n \in Nat
    BY <1>1
  <2> HIDE DEF n
  <2>3. /\ n \div Base \in 0 .. (Base - 1) /\ n % Base \in 0 .. (Base - 1)
        /\ ((n \div Base) % Base) * Base + (n % Base) = n
    BY <2>1, <2>2, <1>2, TwoBytes
  <2>4. (n \div Base) % Base \in 0 .. (Base - 1)
    BY <2>1, <2>3
  <2> QED BY <2>3, <2>4 DEF Byte
<1>4. size \in Seq(Byte) /\ Len(size) = 2 /\ size[1] = (n \div Base) % Base /\ size[2] = n % Base
  BY <1>3 DEF PutUint16
<1>5. head \in Seq(Byte) /\ Len(head) = 2 /\ head[1] = p.version /\ head[2] = p.type
  BY <1>1
<1>6. Uint16(size[1], size[2]) = n
  BY <1>3, <1>4 DEF Uint16
<1>7. Encode(p) = (head \o size) \o p.data
  BY DEF Encode
<1> HIDE DEF head, size, n
<1>8. /\ head \o size \in Seq(Byte) /\ Len(head \o size) = 4
      /\ (head \o size)[1] = head[1] /\ (head \o size)[2] = head[2]
      /\ (head \o size)[3] = size[1] /\ (head \o size)[4] = size[2]
  <2>1. /\ head \o size \in Seq(Byte) /\ Len(head \o size) = Len(head) + Len(size)
        /\ \A i \in 1 .. Len(head) : (head \o size)[i] = head[i]
        /\ \A i \in 1 .. Len(size) : (head \o size)[i + Len(head)] = size[i]
    BY <1>4, <1>5, Pasted, Zenon
  <2> QED BY <2>1, <1>4, <1>5
<1>9. /\ Encode(p) \in Seq(Byte) /\ Len(Encode(p)) = 4 + n
      /\ \A j \in 1 .. 4 : Encode(p)[j] = (head \o size)[j]
      /\ \A j \in 1 .. n : Encode(p)[j + 4] = p.data[j]
  <2> DEFINE h == head \o size
  <2>1. h \in Seq(Byte) /\ Len(h) = 4
    BY <1>8
  <2>2. Encode(p) = h \o p.data
    BY <1>7
  <2> HIDE DEF h
  <2>3. Len(p.data) = n /\ p.data \in Seq(Byte) /\ n \in Nat
    BY <1>1 DEF n
  <2>4. /\ Encode(p) \in Seq(Byte) /\ Len(Encode(p)) = 4 + n
        /\ \A j \in 1 .. 4 : Encode(p)[j] = h[j]
        /\ \A j \in 1 .. n : Encode(p)[j + 4] = p.data[j]
    <3>1. /\ h \o p.data \in Seq(Byte) /\ Len(h \o p.data) = Len(h) + Len(p.data)
          /\ \A i \in 1 .. Len(h) : (h \o p.data)[i] = h[i]
          /\ \A i \in 1 .. Len(p.data) : (h \o p.data)[i + Len(h)] = p.data[i]
      BY <2>1, <2>3, Pasted, Zenon
    <3> QED BY <2>1, <2>2, <2>3, <3>1
  <2> QED BY <2>4 DEF h
<1>10. Size(p) = 4 + n /\ n = Len(p.data)
  BY DEF Size, HEADER_SIZE, n
<1>11. Encode(p)[1] = p.version /\ Encode(p)[2] = p.type /\ Encode(p)[3] = size[1] /\ Encode(p)[4] = size[2]
  BY <1>5, <1>8, <1>9
<1> QED BY <1>1, <1>6, <1>9, <1>10, <1>11

\* Its bytes are read as the packet.
LEMMA DecodeIs ==
    ASSUME NEW p, IsPacket(p), NEW b \in Seq(Byte), Len(b) = Size(p), \A j \in 1 .. Size(p) : b[j] = Encode(p)[j]
    PROVE  Decode(b) = p
<1>1. /\ Size(p) \in Nat /\ Size(p) = Len(p.data) + 4 /\ Len(p.data) \in Nat
      /\ Encode(p)[1] = p.version /\ Encode(p)[2] = p.type
      /\ \A j \in 1 .. Len(p.data) : Encode(p)[j + 4] = p.data[j]
  BY EncodeIs
<1>2. b[1] = p.version /\ b[2] = p.type
  BY <1>1
<1>3. SubSeq(b, 5, Len(b)) = p.data
  <2> DEFINE s == SubSeq(b, 5, Len(b))
  <2>1. s \in Seq(Byte) /\ Len(s) = Len(p.data) /\ \A j \in 1 .. Len(p.data) : s[j] = b[j + 4]
    BY <1>1
  <2>2. \A j \in 1 .. Len(p.data) : b[j + 4] = Encode(p)[j + 4]
    BY <1>1
  <2>3. p.data \in Seq(Byte)
    BY DEF IsPacket, RawPacket
  <2> HIDE DEF s
  <2>4. \A j \in 1 .. Len(p.data) : s[j] = p.data[j]
    BY <1>1, <2>1, <2>2
  <2>5. s = p.data
    BY <2>1, <2>3, <2>4, SeqEqual
  <2> QED BY <2>5 DEF s
<1>4. p = [version |-> p.version, type |-> p.type, data |-> p.data]
  BY DEF IsPacket, RawPacket
<1> QED BY <1>2, <1>3, <1>4 DEF Decode, HEADER_SIZE

\* W is what was written: the packets one behind the other, the i-th from position f[i] on.
Laid(W, f) ==
  /\ W \in Seq(Byte) /\ f \in [1 .. (Len(packets) + 1) -> Nat] /\ f[Len(packets) + 1] = Len(W)
  /\ \A i \in 1 .. Len(packets) :
       /\ f[i + 1] = f[i] + Size(packets[i]) /\ f[i + 1] <= Len(W)
       /\ \A j \in 1 .. Size(packets[i]) : W[f[i] + j] = Encode(packets[i])[j]

\* From position a on it is in the buffer and, behind that, in the connection.
Unread(W, a) ==
  /\ a \in Nat /\ a + idx + Len(stream) = Len(W)
  /\ \A j \in 1 .. idx : buf[j] = W[a + j]
  /\ \A j \in 1 .. Len(stream) : stream[j] = W[a + idx + j]

\* How many packets were pulled.
Out == Len(received) + Len(C)

\* Those are the first ones, all of this version.
OutFits ==
  /\ Out <= Len(packets)
  /\ \A i \in 1 .. Len(received) : received[i] = packets[i]
  /\ \A i \in 1 .. Len(C) : C[i] = packets[Len(received) + i]
  /\ \A i \in 1 .. Out : packets[i].version = VERSION

\* The buffer has less than a packet before a read, unless its first one is of another version.
HeldFits ==
  Out < Len(packets) /\ packets[Out + 1].version = VERSION =>
    idx < IF step = "read" THEN Size(packets[Out + 1]) ELSE PayloadSize + HEADER_SIZE - 1 + ChunkSize
OneVersion == \A i \in 1 .. Len(packets) : packets[i].version = VERSION
BufFits == OneVersion => Len(buf) <= PayloadSize + HEADER_SIZE + ChunkSize - 2

FramerInv ==
  /\ FramerTypeOK /\ \A i \in 1 .. Len(packets) : IsPacket(packets[i])
  /\ OutFits /\ HeldFits /\ BufFits
  /\ \E W, f : Laid(W, f) /\ Unread(W, f[Out + 1])

\* The lengths are numbers.
LEMMA LengthsAre ==
    ASSUME FramerTypeOK
    PROVE  /\ Len(packets) \in Nat /\ Len(stream) \in Nat /\ Len(buf) \in Nat /\ idx \in Nat /\ idx <= Len(buf)
           /\ Len(received) \in Nat /\ Len(C) \in Nat /\ Out \in Nat
           /\ DOMAIN packets = 1 .. Len(packets)
BY DEF FramerTypeOK, Out

\* At the start nothing is written.
LEMMA FramerInvInit == FramerInit => FramerInv
<1> SUFFICES ASSUME FramerInit PROVE FramerInv
  OBVIOUS
<1>0. PayloadSize \in Nat /\ ChunkSize \in Nat \ {0} /\ Base \in Nat \ {0, 1} /\ FrameCap \in Nat
  BY Fitting
<1>1. /\ packets = <<>> /\ stream = <<>> /\ C = <<>> /\ received = <<>> /\ idx = 0 /\ step = "read"
      /\ buf = [i \in 1 .. PayloadSize |-> 0]
  BY DEF FramerInit
<1>2. 0 \in Byte
  BY <1>0 DEF Byte
<1>3. buf \in Seq(Byte) /\ Len(buf) = PayloadSize
  BY <1>0, <1>1, <1>2
<1>4. FramerTypeOK
  BY <1>0, <1>1, <1>3 DEF FramerTypeOK
<1>5. Len(packets) = 0 /\ Len(received) = 0 /\ Len(C) = 0 /\ Len(stream) = 0 /\ Out = 0
  BY <1>1 DEF Out
<1>6. OutFits /\ HeldFits
  BY <1>5 DEF OutFits, HeldFits
<1>7. BufFits
  BY <1>0, <1>3 DEF BufFits, HEADER_SIZE
<1>8. Laid(<<>>, [i \in 1 .. 1 |-> 0]) /\ Unread(<<>>, 0)
  BY <1>1, <1>5 DEF Laid, Unread
<1>9. \E W, f : Laid(W, f) /\ Unread(W, f[Out + 1])
  <2> DEFINE f == [i \in 1 .. 1 |-> 0]
  <2>1. f[Out + 1] = 0
    BY <1>5
  <2>2. Laid(<<>>, f) /\ Unread(<<>>, f[Out + 1])
    BY <1>8, <2>1
  <2> HIDE DEF f
  <2> QED BY <2>2
<1>10. \A i \in 1 .. Len(packets) : IsPacket(packets[i])
  BY <1>5
<1> QED BY <1>4, <1>6, <1>7, <1>9, <1>10 DEF FramerInv

LEMMA FramerInvStays == FramerInv /\ UNCHANGED framerVars => FramerInv'
<1> SUFFICES ASSUME FramerInv, UNCHANGED framerVars PROVE FramerInv'
  OBVIOUS
<1>1. UNCHANGED <<packets, stream, buf, idx, step, C, received>>
  BY DEF framerVars
<1>2. /\ FramerTypeOK' <=> FramerTypeOK
      /\ (\A i \in 1 .. Len(packets) : IsPacket(packets[i]))' <=> \A i \in 1 .. Len(packets) : IsPacket(packets[i])
  BY <1>1 DEF FramerTypeOK
<1>3. Out' = Out /\ (OutFits' <=> OutFits) /\ (HeldFits' <=> HeldFits) /\ (BufFits' <=> BufFits)
  BY <1>1 DEF Out, OutFits, HeldFits, BufFits, OneVersion
<1>4. PICK W, f : Laid(W, f) /\ Unread(W, f[Out + 1])
  BY DEF FramerInv
<1>5. Laid(W, f)' /\ Unread(W, f[Out + 1])'
  BY <1>1, <1>3, <1>4 DEF Laid, Unread
<1> QED BY <1>2, <1>3, <1>5 DEF FramerInv

\* A packet is written behind the others.
LEMMA IntoKept == ASSUME FramerInv, Into PROVE FramerInv'
<1>0. PICK n : n = Len(packets)
  OBVIOUS
<1>1. PICK p \in Writable[n + 1] : packets' = Append(packets, p) /\ stream' = stream \o Encode(p)
  BY <1>0 DEF Into
<1>2. UNCHANGED <<buf, idx, step, C, received>> /\ n < MaxPackets
  BY <1>0 DEF Into
<1>3. FramerTypeOK /\ OutFits /\ HeldFits /\ BufFits /\ \A i \in 1 .. n : IsPacket(packets[i])
  BY <1>0 DEF FramerInv
<1>4. PICK W, f : Laid(W, f) /\ Unread(W, f[Out + 1])
  BY DEF FramerInv
<1>5. /\ n \in Nat /\ Len(stream) \in Nat /\ Len(buf) \in Nat /\ idx \in Nat /\ Len(received) \in Nat /\ Len(C) \in Nat
      /\ Out \in Nat /\ Out <= n
  BY <1>0, <1>3, LengthsAre DEF OutFits
<1>6. IsPacket(p)
  BY <1>1, <1>2, <1>5, Fitting
<1>7. /\ Size(p) \in Nat /\ Encode(p) \in Seq(Byte) /\ Len(Encode(p)) = Size(p)
  BY <1>6, EncodeIs
<1>8. packets \in Seq(RawPacket) /\ p \in RawPacket /\ stream \in Seq(Byte)
  BY <1>3, <1>6 DEF FramerTypeOK, IsPacket
<1>9. packets' \in Seq(RawPacket) /\ Len(packets') = n + 1 /\ packets'[n + 1] = p /\ \A i \in 1 .. n : packets'[i] = packets[i]
  BY <1>0, <1>1, <1>8
<1>10. /\ stream' \in Seq(Byte) /\ Len(stream') = Len(stream) + Size(p)
       /\ \A j \in 1 .. Len(stream) : stream'[j] = stream[j]
       /\ \A j \in 1 .. Size(p) : stream'[j + Len(stream)] = Encode(p)[j]
  <2>1. stream' = stream \o Encode(p) /\ stream \in Seq(Byte) /\ Encode(p) \in Seq(Byte)
    BY <1>1, <1>7, <1>8
  <2>2. /\ stream' \in Seq(Byte) /\ Len(stream') = Len(stream) + Len(Encode(p))
        /\ \A j \in 1 .. Len(stream) : stream'[j] = stream[j]
        /\ \A j \in 1 .. Len(Encode(p)) : stream'[j + Len(stream)] = Encode(p)[j]
    BY <2>1, Pasted, Zenon
  <2> QED BY <2>2, <1>7
<1>11. Out' = Out
  BY <1>2 DEF Out
<1>12. PICK W2 :
         /\ W \in Seq(Byte) /\ Len(W) \in Nat /\ W2 \in Seq(Byte) /\ Len(W2) = Len(W) + Size(p)
         /\ \A j \in 1 .. Len(W) : W2[j] = W[j]
         /\ \A j \in 1 .. Size(p) : W2[j + Len(W)] = Encode(p)[j]
  <2>1. W \in Seq(Byte) /\ Encode(p) \in Seq(Byte)
    BY <1>4, <1>7 DEF Laid
  <2>2. /\ Len(W) \in Nat /\ W \o Encode(p) \in Seq(Byte) /\ Len(W \o Encode(p)) = Len(W) + Len(Encode(p))
        /\ \A j \in 1 .. Len(W) : (W \o Encode(p))[j] = W[j]
        /\ \A j \in 1 .. Len(Encode(p)) : (W \o Encode(p))[j + Len(W)] = Encode(p)[j]
    BY <2>1, Pasted, Zenon
  <2> QED BY <2>1, <2>2, <1>7
<1>13. /\ f \in [1 .. (n + 1) -> Nat] /\ f[n + 1] = Len(W)
       /\ \A i \in 1 .. n : f[i + 1] = f[i] + Size(packets[i]) /\ f[i + 1] <= Len(W) /\ Size(packets[i]) \in Nat
  BY <1>0, <1>3, <1>4, EncodeIs DEF Laid
<1>14. PICK f2 : f2 \in [1 .. (n + 2) -> Nat] /\ f2[n + 2] = Len(W2) /\ \A i \in 1 .. (n + 1) : f2[i] = f[i]
  <2> DEFINE g == [i \in 1 .. (n + 2) |-> IF i <= n + 1 THEN f[i] ELSE Len(W2)]
  <2>1. Len(W2) \in Nat
    BY <1>7, <1>12
  <2>2. g \in [1 .. (n + 2) -> Nat] /\ g[n + 2] = Len(W2) /\ \A i \in 1 .. (n + 1) : g[i] = f[i]
    BY <1>5, <1>13, <2>1
  <2> HIDE DEF g
  <2> QED BY <2>2
<1>15. ASSUME NEW i \in 1 .. (n + 1)
       PROVE  /\ f2[i + 1] = f2[i] + Size(packets'[i]) /\ f2[i + 1] <= Len(W2)
              /\ \A j \in 1 .. Size(packets'[i]) : W2[f2[i] + j] = Encode(packets'[i])[j]
  <2>1. CASE i = n + 1
    <3>1. f2[i] = Len(W) /\ f2[i + 1] = Len(W) + Size(p) /\ packets'[i] = p
      BY <2>1, <1>5, <1>9, <1>12, <1>13, <1>14
    <3> QED BY <3>1, <1>7, <1>12
  <2>2. CASE i \in 1 .. n
    <3>0. i \in 1 .. (n + 1) /\ i + 1 \in 1 .. (n + 1)
      BY <2>2, <1>5
    <3>1. f2[i] = f[i] /\ f2[i + 1] = f[i + 1] /\ packets'[i] = packets[i] /\ f[i] \in Nat
      BY <2>2, <3>0, <1>9, <1>13, <1>14
    <3>2. f[i + 1] = f[i] + Size(packets[i]) /\ f[i + 1] <= Len(W) /\ Size(packets[i]) \in Nat
      BY <2>2, <1>13
    <3>3. \A j \in 1 .. Size(packets[i]) : W[f[i] + j] = Encode(packets[i])[j]
      BY <2>2, <1>0, <1>4 DEF Laid
    <3>4. \A j \in 1 .. Size(packets[i]) : f[i] + j \in 1 .. Len(W)
      BY <3>1, <3>2, <1>12
    <3>5. \A j \in 1 .. Size(packets[i]) : W2[f[i] + j] = W[f[i] + j]
      BY <3>4, <1>12
    <3>6. f[i + 1] <= Len(W2)
      BY <3>1, <3>2, <1>7, <1>12
    <3> QED BY <3>1, <3>2, <3>3, <3>5, <3>6
  <2> QED BY <2>1, <2>2, <1>5
<1>16. Laid(W2, f2)'
  <2>1. Len(packets') = n + 1 /\ (n + 1) + 1 = n + 2
    BY <1>5, <1>9
  <2> QED BY <2>1, <1>12, <1>14, <1>15 DEF Laid
<1>17. Unread(W2, f2[Out + 1])'
  <2>0. PICK a : a = f[Out + 1]
    OBVIOUS
  <2>1. f2[Out + 1] = a
    BY <1>5, <1>14, <2>0
  <2>2. /\ a \in Nat /\ a + idx + Len(stream) = Len(W) /\ \A j \in 1 .. idx : buf[j] = W[a + j]
        /\ \A j \in 1 .. Len(stream) : stream[j] = W[a + idx + j]
    BY <1>4, <2>0 DEF Unread
  <2>l. PICK l, w, z : l = Len(stream) /\ w = Len(W) /\ z = Size(p)
    OBVIOUS
  <2>a. /\ a \in Nat /\ idx \in Nat /\ l \in Nat /\ w \in Nat /\ z \in Nat /\ a + idx + l = w
        /\ Len(stream') = l + z /\ Len(W2) = w + z
    BY <2>2, <2>l, <1>5, <1>7, <1>10, <1>12
  <2>3. a + idx + Len(stream') = Len(W2)
    BY <2>a
  <2>4. \A j \in 1 .. idx : buf[j] = W2[a + j]
    BY <2>2, <2>a, <2>l, <1>12
  <2>5. ASSUME NEW j \in 1 .. Len(stream') PROVE stream'[j] = W2[a + idx + j]
    <3>1. CASE j <= Len(stream)
      BY <3>1, <2>2, <2>a, <2>l, <1>10, <1>12
    <3>2. CASE j > Len(stream)
      <4>0. PICK k : k = j - l
        OBVIOUS
      <4>a. j \in Nat /\ j <= l + z /\ j > l
        BY <3>2, <2>a, <2>l
      <4>b. k \in 1 .. z /\ j = k + l /\ a + idx + j = k + w
        BY <4>a, <4>0, <2>a
      <4>1. k \in 1 .. Size(p) /\ j = k + Len(stream) /\ a + idx + j = k + Len(W)
        BY <4>b, <2>l
      <4>2. stream'[k + Len(stream)] = Encode(p)[k] /\ W2[k + Len(W)] = Encode(p)[k]
        BY <4>1, <1>10, <1>12
      <4> QED BY <4>1, <4>2
    <3> QED BY <3>1, <3>2, <1>5, <1>7, <1>10
  <2>6. Unread(W2, a)'
    BY <2>2, <2>3, <2>4, <2>5, <1>2 DEF Unread
  <2> QED BY <2>1, <2>6, <1>11
<1>18. FramerTypeOK'
  BY <1>2, <1>3, <1>9, <1>10 DEF FramerTypeOK
<1>19. \A i \in 1 .. Len(packets') : IsPacket(packets'[i])
  BY <1>3, <1>5, <1>6, <1>9
<1>20. OutFits'
  <2>1. /\ \A i \in 1 .. Len(received) : received[i] = packets[i] /\ i <= n
        /\ \A i \in 1 .. Len(C) : C[i] = packets[Len(received) + i] /\ Len(received) + i <= n
        /\ \A i \in 1 .. Out : packets[i].version = VERSION /\ i <= n
    BY <1>3, <1>5 DEF OutFits, Out
  <2>2. /\ \A i \in 1 .. Len(received) : received[i] = packets'[i]
        /\ \A i \in 1 .. Len(C) : C[i] = packets'[Len(received) + i]
        /\ \A i \in 1 .. Out : packets'[i].version = VERSION
    <3>1. \A i \in 1 .. n : packets'[i] = packets[i]
      BY <1>9
    <3>2. /\ \A i \in 1 .. Len(received) : i \in 1 .. n
          /\ \A i \in 1 .. Len(C) : Len(received) + i \in 1 .. n
          /\ \A i \in 1 .. Out : i \in 1 .. n
      BY <2>1, <1>5
    <3>3. \A i \in 1 .. Len(received) : received[i] = packets'[i]
      BY <2>1, <3>1, <3>2
    <3>4. \A i \in 1 .. Len(C) : C[i] = packets'[Len(received) + i]
      BY <2>1, <3>1, <3>2
    <3>5. \A i \in 1 .. Out : packets'[i].version = VERSION
      BY <2>1, <3>1, <3>2
    <3> QED BY <3>3, <3>4, <3>5
  <2> QED BY <2>2, <1>2, <1>5, <1>9, <1>11 DEF OutFits
<1>21. HeldFits'
  <2>1. CASE Out < n
    <3>1. packets'[Out + 1] = packets[Out + 1]
      BY <2>1, <1>5, <1>9
    <3> QED BY <2>1, <3>1, <1>0, <1>2, <1>3, <1>9, <1>11 DEF HeldFits
  <2>2. CASE Out = n
    <3>1. idx = 0 /\ packets'[Out + 1] = p
      BY <2>2, <1>4, <1>5, <1>9, <1>12, <1>13 DEF Unread
    <3>2. Size(p) > 0 /\ 0 < PayloadSize + HEADER_SIZE - 1 + ChunkSize
      BY <1>6, EncodeIs, Fitting DEF HEADER_SIZE
    <3> QED BY <3>1, <3>2, <1>2, <1>11 DEF HeldFits
  <2> QED BY <2>1, <2>2, <1>5
<1>22. BufFits'
  <2>1. OneVersion' => OneVersion
    BY <1>0, <1>5, <1>9 DEF OneVersion
  <2> QED BY <2>1, <1>2, <1>3 DEF BufFits
<1> QED BY <1>16, <1>17, <1>18, <1>19, <1>20, <1>21, <1>22 DEF FramerInv

\* A piece of the bytes.
LEMMA PieceIs ==
    ASSUME NEW s \in Seq(Byte), NEW m \in Nat \ {0}, NEW n \in 0 .. Len(s)
    PROVE  /\ SubSeq(s, m, n) \in Seq(Byte) /\ Len(SubSeq(s, m, n)) = (IF m <= n THEN n - m + 1 ELSE 0)
           /\ \A i \in 1 .. Len(SubSeq(s, m, n)) : SubSeq(s, m, n)[i] = s[m + i - 1]
<1>1. Len(s) \in Nat /\ \A i \in 1 .. Len(s) : s[i] \in Byte
  OBVIOUS
<1>2. m \in Int /\ n \in Int /\ \A i \in m .. n : s[i] \in Byte
  BY <1>1
<1>3. /\ SubSeq(s, m, n) \in Seq(Byte) /\ Len(SubSeq(s, m, n)) = (IF m <= n THEN n - m + 1 ELSE 0)
      /\ \A i \in 1 .. (n - m + 1) : SubSeq(s, m, n)[i] = s[m + i - 1]
  BY <1>1, <1>2
<1> QED BY <1>3

\* Where something is in the buffer, a packet has been written that was not pulled.
LEMMA FrontThere ==
    ASSUME FramerInv, idx > 0
    PROVE  Out < Len(packets) /\ IsPacket(packets[Out + 1])
<1>1. PICK W, f : Laid(W, f) /\ Unread(W, f[Out + 1])
  BY DEF FramerInv
<1>2. Out \in Nat /\ Out <= Len(packets) /\ Len(packets) \in Nat /\ Len(stream) \in Nat /\ idx \in Nat
  BY LengthsAre DEF FramerInv, OutFits
<1>3. Out # Len(packets)
  BY <1>1, <1>2 DEF Laid, Unread
<1>4. Out + 1 \in 1 .. Len(packets)
  BY <1>2, <1>3
<1>5. IsPacket(packets[Out + 1])
  BY <1>4 DEF FramerInv
<1> QED BY <1>2, <1>3, <1>5

\* What is in the buffer is what the first packets are as bytes.
LEMMA FrontBytes ==
    ASSUME FramerInv, idx > 0, NEW j \in 1 .. idx, j <= Size(packets[Out + 1])
    PROVE  buf[j] = Encode(packets[Out + 1])[j]
<1>1. PICK W, f : Laid(W, f) /\ Unread(W, f[Out + 1])
  BY DEF FramerInv
<1>2. Out \in Nat /\ Out < Len(packets) /\ Len(packets) \in Nat /\ IsPacket(packets[Out + 1])
  BY FrontThere, LengthsAre DEF FramerInv
<1>3. Out + 1 \in 1 .. Len(packets) /\ idx \in Nat /\ Size(packets[Out + 1]) \in Nat
  BY <1>2, LengthsAre, EncodeIs DEF FramerInv
<1>4. j \in 1 .. Size(packets[Out + 1])
  BY <1>3
<1>5. W[f[Out + 1] + j] = Encode(packets[Out + 1])[j]
  BY <1>1, <1>3, <1>4 DEF Laid
<1>6. buf[j] = W[f[Out + 1] + j]
  BY <1>1 DEF Unread
<1> QED BY <1>5, <1>6

\* Its version, and how long it is.
LEMMA FrontIs ==
    ASSUME FramerInv, idx >= HEADER_SIZE
    PROVE  /\ Out < Len(packets) /\ IsPacket(packets[Out + 1]) /\ Size(packets[Out + 1]) \in Nat
           /\ Size(packets[Out + 1]) >= 4 /\ Size(packets[Out + 1]) <= PayloadSize + 3
           /\ buf[1] = packets[Out + 1].version /\ packetLen # PayloadSize /\ fullLen = Size(packets[Out + 1])
<1> DEFINE p == packets[Out + 1]
<1>1. idx \in Nat /\ idx > 0 /\ idx >= 4
  BY LengthsAre DEF FramerInv, HEADER_SIZE
<1>2. Out < Len(packets) /\ IsPacket(p)
  BY <1>1, FrontThere
<1> HIDE DEF p
<1>3. /\ Len(p.data) \in Nat /\ Size(p) = Len(p.data) + 4 /\ Len(p.data) < PayloadSize
      /\ Encode(p)[1] = p.version /\ Uint16(Encode(p)[3], Encode(p)[4]) = Len(p.data)
  BY <1>2, EncodeIs DEF IsPacket
<1>4. \A j \in 1 .. 4 : buf[j] = Encode(p)[j]
  BY <1>1, <1>3, FrontBytes DEF p
<1>5. buf[1] = Encode(p)[1] /\ buf[3] = Encode(p)[3] /\ buf[4] = Encode(p)[4]
  BY <1>4
<1>6. packetLen = Len(p.data)
  BY <1>3, <1>5 DEF packetLen
<1>7. Len(p.data) + 4 < Base * Base /\ Base * Base \in Nat /\ PayloadSize \in Nat
  BY <1>3, Fitting
<1>8. fullLen = Len(p.data) + 4
  <2>1. fullLen = (Len(p.data) + 4) % (Base * Base)
    BY <1>6 DEF fullLen, HEADER_SIZE
  <2>2. \A a, b \in Nat : a < b => a % b = a
    OBVIOUS
  <2>3. Len(p.data) + 4 \in Nat
    BY <1>3
  <2> QED BY <2>1, <2>2, <2>3, <1>7
<1>9. /\ Size(p) \in Nat /\ Size(p) >= 4 /\ Size(p) <= PayloadSize + 3 /\ packetLen # PayloadSize
      /\ buf[1] = p.version /\ fullLen = Size(p)
  BY <1>3, <1>5, <1>6, <1>7, <1>8
<1> QED BY <1>2, <1>9 DEF p

\* Reading moves bytes from the connection to the end of the buffer.
LEMMA ReadKept == ASSUME FramerInv, Read PROVE FramerInv'
<1>1. PICK n \in 1 .. ChunkSize :
        /\ n <= Len(stream)
        /\ stream' = SubSeq(stream, n + 1, Len(stream))
        /\ buf' = SubSeq(buf, 1, idx) \o SubSeq(stream, 1, n) \o SubSeq(buf, idx + n + 1, Len(buf))
        /\ idx' = idx + n
  BY DEF Read
<1>2. step = "read" /\ step' = "push" /\ UNCHANGED <<packets, C, received>>
  BY DEF Read
<1>3. /\ FramerTypeOK /\ OutFits /\ HeldFits /\ BufFits /\ \A i \in 1 .. Len(packets) : IsPacket(packets[i])
  BY DEF FramerInv
<1>4. /\ Len(stream) \in Nat /\ Len(buf) \in Nat /\ idx \in Nat /\ idx <= Len(buf) /\ Out \in Nat
      /\ ChunkSize \in Nat /\ PayloadSize \in Nat \ {0} /\ n \in Nat /\ Len(packets) \in Nat
      /\ stream \in Seq(Byte) /\ buf \in Seq(Byte)
  BY <1>3, LengthsAre, Fitting DEF FramerTypeOK
<1>5. Out' = Out
  BY <1>2 DEF Out
<1>6. /\ stream' \in Seq(Byte) /\ Len(stream') = Len(stream) - n
      /\ \A j \in 1 .. (Len(stream) - n) : stream'[j] = stream[n + j]
  <2> DEFINE s == SubSeq(stream, n + 1, Len(stream))
  <2>1. /\ s \in Seq(Byte) /\ Len(s) = (IF n + 1 <= Len(stream) THEN Len(stream) - (n + 1) + 1 ELSE 0)
        /\ \A i \in 1 .. Len(s) : s[i] = stream[(n + 1) + i - 1]
    BY <1>1, <1>4, PieceIs
  <2>2. stream' = s
    BY <1>1
  <2> HIDE DEF s
  <2>3. Len(s) = Len(stream) - n
    BY <2>1, <1>1, <1>4
  <2>4. \A j \in 1 .. Len(s) : (n + 1) + j - 1 = n + j
    BY <2>3, <1>4
  <2> QED BY <2>1, <2>2, <2>3, <2>4
<1>7. /\ buf' \in Seq(Byte) /\ Len(buf') = (IF idx + n <= Len(buf) THEN Len(buf) ELSE idx + n)
      /\ \A j \in 1 .. idx : buf'[j] = buf[j]
      /\ \A j \in 1 .. n : buf'[j + idx] = stream[j]
  <2> DEFINE s == SubSeq(buf, 1, idx)
             t == SubSeq(stream, 1, n)
             u == SubSeq(buf, idx + n + 1, Len(buf))
  <2>1. s \in Seq(Byte) /\ Len(s) = idx /\ \A j \in 1 .. idx : s[j] = buf[j]
    <3>1. s \in Seq(Byte) /\ Len(s) = (IF 1 <= idx THEN idx - 1 + 1 ELSE 0) /\ \A j \in 1 .. Len(s) : s[j] = buf[1 + j - 1]
      BY <1>4, PieceIs
    <3> HIDE DEF s
    <3> QED BY <3>1, <1>4
  <2>2. t \in Seq(Byte) /\ Len(t) = n /\ \A j \in 1 .. n : t[j] = stream[j]
    <3>1. t \in Seq(Byte) /\ Len(t) = (IF 1 <= n THEN n - 1 + 1 ELSE 0) /\ \A j \in 1 .. Len(t) : t[j] = stream[1 + j - 1]
      BY <1>1, <1>4, PieceIs
    <3> HIDE DEF t
    <3> QED BY <3>1, <1>4
  <2>3. u \in Seq(Byte) /\ Len(u) = (IF idx + n + 1 <= Len(buf) THEN Len(buf) - (idx + n + 1) + 1 ELSE 0)
    BY <1>4, PieceIs
  <2>4. buf' = (s \o t) \o u
    BY <1>1
  <2> HIDE DEF s, t, u
  <2>5. /\ s \o t \in Seq(Byte) /\ Len(s \o t) = idx + n /\ \A j \in 1 .. idx : (s \o t)[j] = s[j]
        /\ \A j \in 1 .. n : (s \o t)[j + idx] = t[j]
    <3>1. /\ s \o t \in Seq(Byte) /\ Len(s \o t) = Len(s) + Len(t)
          /\ \A j \in 1 .. Len(s) : (s \o t)[j] = s[j]
          /\ \A j \in 1 .. Len(t) : (s \o t)[j + Len(s)] = t[j]
      BY <2>1, <2>2, Pasted, Zenon
    <3> QED BY <2>1, <2>2, <3>1
  <2> DEFINE v == s \o t
  <2>6. v \in Seq(Byte) /\ Len(v) = idx + n /\ buf' = v \o u
    BY <2>4, <2>5
  <2> HIDE DEF v
  <2>7. /\ v \o u \in Seq(Byte) /\ Len(v \o u) = Len(v) + Len(u)
        /\ \A j \in 1 .. Len(v) : (v \o u)[j] = v[j]
    BY <2>3, <2>6, Pasted, Zenon
  <2>8. \A j \in 1 .. (idx + n) : buf'[j] = v[j]
    BY <2>6, <2>7
  <2>9. \A j \in 1 .. idx : buf'[j] = buf[j]
    <3>1. \A j \in 1 .. idx : v[j] = s[j] /\ j \in 1 .. (idx + n)
      BY <2>5, <1>4 DEF v
    <3> QED BY <3>1, <2>1, <2>8
  <2>10. \A j \in 1 .. n : buf'[j + idx] = stream[j]
    <3>1. \A j \in 1 .. n : v[j + idx] = t[j] /\ j + idx \in 1 .. (idx + n)
      BY <2>5, <1>4 DEF v
    <3> QED BY <3>1, <2>2, <2>8
  <2>11. Len(buf') = (IF idx + n <= Len(buf) THEN Len(buf) ELSE idx + n)
    <3>1. Len(buf') = (idx + n) + Len(u)
      BY <2>6, <2>7
    <3>2. PICK b : b = Len(buf)
      OBVIOUS
    <3>3. PICK k : k = Len(u)
      OBVIOUS
    <3>4. b \in Nat /\ idx \in Nat /\ n \in Nat
      BY <3>2, <1>4
    <3>5. k = (IF idx + n + 1 <= b THEN b - (idx + n + 1) + 1 ELSE 0)
      BY <2>3, <3>2, <3>3
    <3>6. (idx + n) + k = (IF idx + n <= b THEN b ELSE idx + n)
      BY <3>4, <3>5
    <3> QED BY <3>1, <3>2, <3>3, <3>6
  <2> QED BY <2>6, <2>7, <2>9, <2>10, <2>11
<1>8. FramerTypeOK'
  <2>1. idx' \in 0 .. Len(buf')
    <3>1. idx' = idx + n /\ idx + n \in Nat
      BY <1>1, <1>4
    <3>2. idx + n <= Len(buf')
      BY <1>4, <1>7
    <3>3. Len(buf') \in Nat
      BY <1>4, <1>7
    <3> QED BY <3>1, <3>2, <3>3
  <2> QED BY <2>1, <1>2, <1>3, <1>6, <1>7 DEF FramerTypeOK
<1>9. \E W, f : Laid(W, f)' /\ Unread(W, f[Out + 1])'
  <2>1. PICK W, f : Laid(W, f) /\ Unread(W, f[Out + 1])
    BY DEF FramerInv
  <2>2. PICK a : a = f[Out + 1]
    OBVIOUS
  <2>3. PICK l, w : l = Len(stream) /\ w = Len(W)
    OBVIOUS
  <2>4. /\ a \in Nat /\ a + idx + l = w
        /\ \A j \in 1 .. idx : buf[j] = W[a + j]
        /\ \A j \in 1 .. l : stream[j] = W[a + idx + j]
    BY <2>1, <2>2, <2>3 DEF Unread
  <2>5. l \in Nat /\ n <= l /\ idx' = idx + n /\ Len(stream') = l - n /\ n \in Nat /\ idx \in Nat
    BY <1>1, <1>4, <1>6, <2>3
  <2>6. a + idx' + Len(stream') = w
    BY <2>4, <2>5
  <2>7. ASSUME NEW j \in 1 .. (idx + n) PROVE buf'[j] = W[a + j]
    <3>1. CASE j \in 1 .. idx
      BY <3>1, <2>4, <1>7
    <3>2. CASE j > idx
      <4>1. PICK k : k = j - idx
        OBVIOUS
      <4>2. k \in 1 .. n /\ j = k + idx /\ k \in 1 .. l /\ a + idx + k = a + j
        BY <3>2, <4>1, <2>4, <2>5
      <4>3. buf'[k + idx] = stream[k] /\ stream[k] = W[a + idx + k]
        BY <4>2, <2>4, <1>7
      <4> QED BY <4>2, <4>3
    <3> QED BY <3>1, <3>2, <2>5
  <2>8. ASSUME NEW j \in 1 .. (l - n) PROVE stream'[j] = W[a + (idx + n) + j]
    <3>1. n + j \in 1 .. l /\ a + (idx + n) + j = a + idx + (n + j)
      BY <2>4, <2>5
    <3>2. stream'[j] = stream[n + j]
      BY <1>6, <2>3
    <3> QED BY <3>1, <3>2, <2>4
  <2>9. Unread(W, a)'
    BY <2>3, <2>4, <2>5, <2>6, <2>7, <2>8 DEF Unread
  <2>10. Laid(W, f)'
    BY <2>1, <1>2 DEF Laid
  <2>11. Unread(W, f[Out + 1])'
    BY <2>2, <2>9, <1>5
  <2> QED BY <2>10, <2>11
<1>10. OutFits'
  BY <1>2, <1>3, <1>5 DEF OutFits
<1>11. ASSUME Out < Len(packets), packets[Out + 1].version = VERSION
       PROVE  idx <= PayloadSize + 2
  <2>1. Out + 1 \in 1 .. Len(packets)
    BY <1>4, <1>11
  <2>2. IsPacket(packets[Out + 1])
    BY <2>1, <1>3
  <2>3. Size(packets[Out + 1]) = Len(packets[Out + 1].data) + 4 /\ Len(packets[Out + 1].data) \in Nat
    BY <2>2, EncodeIs
  <2>4. Len(packets[Out + 1].data) < PayloadSize
    BY <2>2 DEF IsPacket
  <2>5. idx < Size(packets[Out + 1])
    BY <1>2, <1>3, <1>11 DEF HeldFits
  <2> QED BY <1>4, <2>3, <2>4, <2>5
<1>12. HeldFits'
  <2>1. ASSUME Out < Len(packets), packets[Out + 1].version = VERSION
        PROVE  idx' < PayloadSize + HEADER_SIZE - 1 + ChunkSize
    BY <1>1, <1>4, <1>11, <2>1 DEF HEADER_SIZE
  <2> QED BY <2>1, <1>2, <1>5 DEF HeldFits
<1>13. BufFits'
  <2>1. ASSUME OneVersion PROVE Len(buf') <= PayloadSize + HEADER_SIZE + ChunkSize - 2
    <3>1. idx <= PayloadSize + 2
      <4>1. CASE idx = 0
        BY <4>1, <1>4
      <4>2. CASE idx > 0
        <5>1. Out < Len(packets)
          BY <4>2, FrontThere
        <5>2. Out + 1 \in 1 .. Len(packets)
          BY <5>1, <1>4
        <5> QED BY <5>1, <5>2, <2>1, <1>11 DEF OneVersion
      <4> QED BY <4>1, <4>2, <1>4
    <3>2. Len(buf) <= PayloadSize + HEADER_SIZE + ChunkSize - 2
      BY <2>1, <1>3 DEF BufFits
    <3>3. idx + n <= PayloadSize + HEADER_SIZE + ChunkSize - 2
      BY <3>1, <1>1, <1>4 DEF HEADER_SIZE
    <3> QED BY <3>2, <3>3, <1>7
  <2>2. OneVersion' => OneVersion
    BY <1>2 DEF OneVersion
  <2> QED BY <2>1, <2>2 DEF BufFits
<1>14. \A i \in 1 .. Len(packets') : IsPacket(packets'[i])
  BY <1>2, <1>3
<1> QED BY <1>8, <1>9, <1>10, <1>12, <1>13, <1>14 DEF FramerInv

\* A packet that is pulled is the next one that was written.
LEMMA PullKept == ASSUME FramerInv, Pull PROVE FramerInv'
<1> DEFINE p == packets[Out + 1]
<1>1. /\ step = "push" /\ Pulled /\ Len(C) < FrameCap
      /\ C' = Append(C, Decode(SubSeq(buf, 1, fullLen)))
      /\ buf' = SubSeq(buf, fullLen + 1, Len(buf)) \o SubSeq(buf, Len(buf) - fullLen + 1, Len(buf))
      /\ idx' = idx - fullLen
      /\ UNCHANGED <<packets, stream, step, received>>
  BY DEF Pull
<1>2. /\ FramerTypeOK /\ OutFits /\ HeldFits /\ BufFits /\ \A i \in 1 .. Len(packets) : IsPacket(packets[i])
  BY DEF FramerInv
<1>3. /\ Len(stream) \in Nat /\ Len(buf) \in Nat /\ idx \in Nat /\ idx <= Len(buf) /\ Out \in Nat
      /\ ChunkSize \in Nat /\ PayloadSize \in Nat \ {0} /\ Len(packets) \in Nat
      /\ Len(received) \in Nat /\ Len(C) \in Nat /\ buf \in Seq(Byte)
  BY <1>2, LengthsAre, Fitting DEF FramerTypeOK
<1>4. /\ Out < Len(packets) /\ IsPacket(p) /\ Size(p) \in Nat /\ Size(p) >= 4 /\ Size(p) <= PayloadSize + 3
      /\ p.version = VERSION /\ fullLen = Size(p)
  BY <1>1, FrontIs DEF Pulled
<1>5. idx < PayloadSize + 3 + ChunkSize
  BY <1>1, <1>2, <1>3, <1>4 DEF HeldFits, HEADER_SIZE
<1> HIDE DEF p
<1>6. Size(p) <= idx
  <2>1. fullLen <= idx % (Base * Base)
    BY <1>1 DEF Pulled
  <2>2. idx < Base * Base /\ Base * Base \in Nat
    BY <1>3, <1>5, Fitting
  <2>3. \A a, b \in Nat : a < b => a % b = a
    OBVIOUS
  <2>4. idx % (Base * Base) = idx
    BY <1>3, <2>2, <2>3
  <2> QED BY <2>1, <2>4, <1>4
<1>7. Decode(SubSeq(buf, 1, fullLen)) = p
  <2> DEFINE b == SubSeq(buf, 1, Size(p))
  <2>1. Size(p) \in 0 .. Len(buf)
    BY <1>3, <1>4, <1>6
  <2>2. b \in Seq(Byte) /\ Len(b) = (IF 1 <= Size(p) THEN Size(p) - 1 + 1 ELSE 0) /\ \A j \in 1 .. Len(b) : b[j] = buf[1 + j - 1]
    BY <1>3, <2>1, PieceIs
  <2>3. b = SubSeq(buf, 1, fullLen)
    BY <1>4
  <2> HIDE DEF b
  <2>4. Len(b) = Size(p) /\ \A j \in 1 .. Size(p) : b[j] = buf[j]
    BY <2>2, <1>4
  <2>5. \A j \in 1 .. Size(p) : buf[j] = Encode(p)[j]
    <3>1. idx > 0 /\ \A j \in 1 .. Size(p) : j \in 1 .. idx /\ j <= Size(p)
      BY <1>3, <1>4, <1>6
    <3> QED BY <3>1, FrontBytes DEF p
  <2>6. \A j \in 1 .. Size(p) : b[j] = Encode(p)[j]
    BY <2>4, <2>5
  <2>7. Decode(b) = p
    BY <2>2, <2>4, <2>6, <1>4, DecodeIs
  <2> QED BY <2>3, <2>7
<1>8. C \in Seq(RawPacket) /\ p \in RawPacket /\ C' = Append(C, p)
  BY <1>1, <1>2, <1>4, <1>7 DEF FramerTypeOK, IsPacket
<1>9. /\ C' \in Seq(RawPacket) /\ Len(C') = Len(C) + 1 /\ C'[Len(C) + 1] = p /\ \A i \in 1 .. Len(C) : C'[i] = C[i]
  BY <1>8
<1>10. Out' = Out + 1 /\ Out = Len(received) + Len(C)
  BY <1>1, <1>3, <1>9 DEF Out
<1>11. PICK z : z = Size(p) /\ z \in Nat /\ z >= 4 /\ z <= idx
  BY <1>4, <1>6
<1>12. /\ buf' \in Seq(Byte) /\ Len(buf') = Len(buf)
       /\ \A j \in 1 .. (Len(buf) - z) : buf'[j] = buf[z + j]
  <2> DEFINE s == SubSeq(buf, z + 1, Len(buf))
             t == SubSeq(buf, Len(buf) - z + 1, Len(buf))
  <2>0. PICK b : b = Len(buf) /\ b \in Nat /\ z <= b
    BY <1>3, <1>11
  <2>1. /\ s \in Seq(Byte) /\ Len(s) = (IF z + 1 <= Len(buf) THEN Len(buf) - (z + 1) + 1 ELSE 0)
        /\ \A j \in 1 .. Len(s) : s[j] = buf[(z + 1) + j - 1]
    <3>1. z + 1 \in Nat \ {0} /\ Len(buf) \in 0 .. Len(buf)
      BY <1>3, <1>11
    <3> QED BY <3>1, <1>3, PieceIs
  <2>2. t \in Seq(Byte) /\ Len(t) = (IF Len(buf) - z + 1 <= Len(buf) THEN Len(buf) - (Len(buf) - z + 1) + 1 ELSE 0)
    <3>1. Len(buf) - z + 1 \in Nat \ {0} /\ Len(buf) \in 0 .. Len(buf)
      BY <1>3, <1>11
    <3> QED BY <3>1, <1>3, PieceIs
  <2>3. buf' = s \o t
    BY <1>1, <1>4, <1>11
  <2> HIDE DEF s, t
  <2>4. Len(s) = b - z /\ Len(t) = z /\ \A j \in 1 .. (b - z) : s[j] = buf[z + j]
    <3>1. Len(s) = b - z /\ Len(t) = z
      BY <2>0, <2>1, <2>2, <1>11
    <3>2. \A j \in 1 .. (b - z) : (z + 1) + j - 1 = z + j
      BY <2>0, <1>11
    <3> QED BY <3>1, <3>2, <2>1
  <2>5. /\ s \o t \in Seq(Byte) /\ Len(s \o t) = Len(s) + Len(t) /\ \A j \in 1 .. Len(s) : (s \o t)[j] = s[j]
    BY <2>1, <2>2, Pasted, Zenon
  <2>6. Len(buf') = b /\ \A j \in 1 .. (b - z) : buf'[j] = buf[z + j]
    BY <2>0, <2>3, <2>4, <2>5, <1>11
  <2> QED BY <2>0, <2>3, <2>5, <2>6
<1>13. FramerTypeOK'
  <2>1. idx' \in 0 .. Len(buf')
    <3>1. PICK b : b = Len(buf)
      OBVIOUS
    <3>2. b \in Nat /\ idx \in Nat /\ idx <= b
      BY <3>1, <1>3
    <3>3. idx - z \in 0 .. b
      BY <3>2, <1>11
    <3> QED BY <3>1, <3>3, <1>1, <1>4, <1>11, <1>12
  <2>2. Len(C') <= FrameCap
    BY <1>1, <1>3, <1>9, Fitting
  <2> QED BY <2>1, <2>2, <1>1, <1>2, <1>9, <1>12 DEF FramerTypeOK
<1>14. \E W, f : Laid(W, f)' /\ Unread(W, f[Out + 1])'
  <2>1. PICK W, f : Laid(W, f) /\ Unread(W, f[Out + 1])
    BY DEF FramerInv
  <2>2. PICK a, l, w : a = f[Out + 1] /\ l = Len(stream) /\ w = Len(W)
    OBVIOUS
  <2>3. Out + 1 \in 1 .. Len(packets)
    BY <1>3, <1>4
  <2>4. f[Out + 2] = a + z
    <3>1. f[(Out + 1) + 1] = f[Out + 1] + Size(packets[Out + 1])
      BY <2>1, <2>3 DEF Laid
    <3> QED BY <3>1, <2>2, <1>3, <1>11 DEF p
  <2>5. /\ a \in Nat /\ a + idx + l = w /\ \A j \in 1 .. idx : buf[j] = W[a + j]
        /\ \A j \in 1 .. l : stream[j] = W[a + idx + j]
    BY <2>1, <2>2 DEF Unread
  <2>6. l \in Nat /\ idx' = idx - z /\ idx \in Nat /\ stream' = stream /\ idx <= Len(buf) /\ Len(buf) \in Nat
    BY <1>1, <1>3, <1>4, <1>11, <2>2
  <2>7. a + z \in Nat /\ (a + z) + idx' + l = w
    BY <2>5, <2>6, <1>11
  <2>8. ASSUME NEW j \in 1 .. (idx - z) PROVE buf'[j] = W[(a + z) + j]
    <3>0. PICK b : b = Len(buf)
      OBVIOUS
    <3>1. a \in Nat /\ z \in Nat /\ idx \in Nat /\ b \in Nat /\ z <= idx /\ idx <= b
      BY <2>5, <2>6, <3>0, <1>11
    <3>2. j \in 1 .. (b - z) /\ z + j \in 1 .. idx /\ (a + z) + j = a + (z + j)
      BY <3>1
    <3>3. buf'[j] = buf[z + j]
      BY <3>0, <3>2, <1>12
    <3>4. buf[z + j] = W[a + (z + j)]
      BY <3>2, <2>5
    <3> QED BY <3>2, <3>3, <3>4
  <2>9. ASSUME NEW j \in 1 .. l PROVE stream'[j] = W[(a + z) + (idx - z) + j]
    <3>1. (a + z) + (idx - z) + j = a + idx + j
      BY <2>5, <2>6, <1>11
    <3> QED BY <3>1, <2>5, <2>6
  <2>10. Unread(W, a + z)'
    <3>1. Len(stream') = l /\ Len(W) = w
      BY <2>2, <2>6
    <3> QED BY <3>1, <2>6, <2>7, <2>8, <2>9 DEF Unread
  <2>11. Laid(W, f)'
    BY <2>1, <1>1 DEF Laid
  <2>12. (Out + 1)' = Out + 2
    BY <1>3, <1>10
  <2>13. Unread(W, f[Out + 1])'
    BY <2>4, <2>10, <2>12
  <2> QED BY <2>11, <2>13
<1>15. OutFits'
  <2>1. /\ \A i \in 1 .. Len(received) : received[i] = packets[i]
        /\ \A i \in 1 .. Len(C) : C[i] = packets[Len(received) + i]
        /\ \A i \in 1 .. Out : packets[i].version = VERSION
    BY <1>2 DEF OutFits
  <2>2. ASSUME NEW i \in 1 .. (Len(C) + 1) PROVE C'[i] = packets[Len(received) + i]
    <3>1. CASE i = Len(C) + 1
      <4>1. Len(received) + i = Out + 1
        BY <3>1, <1>3, <1>10
      <4> QED BY <3>1, <4>1, <1>9 DEF p
    <3>2. CASE i \in 1 .. Len(C)
      BY <3>2, <2>1, <1>9
    <3> QED BY <3>1, <3>2, <1>3
  <2>3. ASSUME NEW i \in 1 .. (Out + 1) PROVE packets[i].version = VERSION
    <3>1. CASE i = Out + 1
      BY <3>1, <1>4 DEF p
    <3>2. CASE i \in 1 .. Out
      BY <3>2, <2>1
    <3> QED BY <3>1, <3>2, <1>3
  <2>4. Out + 1 <= Len(packets)
    BY <1>3, <1>4
  <2> QED BY <2>1, <2>2, <2>3, <2>4, <1>1, <1>9, <1>10 DEF OutFits
<1>16. HeldFits'
  <2>1. idx' < PayloadSize + HEADER_SIZE - 1 + ChunkSize
    BY <1>1, <1>3, <1>4, <1>5 DEF HEADER_SIZE
  <2> QED BY <2>1, <1>1 DEF HeldFits
<1>17. BufFits'
  BY <1>1, <1>2, <1>12 DEF BufFits, OneVersion
<1>18. \A i \in 1 .. Len(packets') : IsPacket(packets'[i])
  BY <1>1, <1>2
<1> QED BY <1>13, <1>14, <1>15, <1>16, <1>17, <1>18 DEF FramerInv

\* Where nothing is pulled, the buffer has less than a packet.
LEMMA NoPacketKept == ASSUME FramerInv, NoPacket PROVE FramerInv'
<1>1. step = "push" /\ ~Pulled /\ step' = "read" /\ UNCHANGED <<packets, stream, buf, idx, C, received>>
  BY DEF NoPacket
<1>2. /\ FramerTypeOK /\ OutFits /\ HeldFits /\ BufFits /\ \A i \in 1 .. Len(packets) : IsPacket(packets[i])
  BY DEF FramerInv
<1>3. idx \in Nat /\ Out \in Nat /\ Len(packets) \in Nat /\ ChunkSize \in Nat /\ PayloadSize \in Nat
  BY <1>2, LengthsAre, Fitting
<1>4. Out' = Out
  BY <1>1 DEF Out
<1>5. FramerTypeOK' /\ OutFits' /\ BufFits' /\ (\A i \in 1 .. Len(packets) : IsPacket(packets[i]))'
  BY <1>1, <1>2, <1>4 DEF FramerTypeOK, OutFits, BufFits, OneVersion
<1>6. \E W, f : Laid(W, f)' /\ Unread(W, f[Out + 1])'
  <2>1. PICK W, f : Laid(W, f) /\ Unread(W, f[Out + 1])
    BY DEF FramerInv
  <2>2. Laid(W, f)' /\ Unread(W, f[Out + 1])'
    BY <2>1, <1>1, <1>4 DEF Laid, Unread
  <2> QED BY <2>2
<1>7. HeldFits'
  <2>1. ASSUME Out < Len(packets), packets[Out + 1].version = VERSION
        PROVE  idx < Size(packets[Out + 1])
    <3> DEFINE p == packets[Out + 1]
    <3>1. CASE idx < HEADER_SIZE
      <4>1. Out + 1 \in 1 .. Len(packets)
        BY <2>1, <1>3
      <4>2. IsPacket(p)
        BY <4>1, <1>2
      <4>3. Size(p) = Len(p.data) + 4 /\ Len(p.data) \in Nat
        BY <4>2, EncodeIs
      <4> HIDE DEF p
      <4>4. idx < Size(p)
        BY <3>1, <4>3, <1>3 DEF HEADER_SIZE
      <4> QED BY <4>4 DEF p
    <3>2. CASE idx >= HEADER_SIZE
      <4>1. /\ buf[1] = p.version /\ packetLen # PayloadSize /\ fullLen = Size(p) /\ Size(p) \in Nat
        BY <3>2, FrontIs
      <4>2. idx < PayloadSize + 3 + ChunkSize
        BY <1>1, <1>2, <1>3, <2>1 DEF HeldFits, HEADER_SIZE
      <4>3. idx % (Base * Base) = idx
        <5>1. idx < Base * Base /\ Base * Base \in Nat
          BY <4>2, <1>3, Fitting
        <5>2. \A a, b \in Nat : a < b => a % b = a
          OBVIOUS
        <5> QED BY <5>1, <5>2, <1>3
      <4>4. ~(fullLen <= idx)
        BY <1>1, <2>1, <3>2, <4>1, <4>3 DEF Pulled
      <4> HIDE DEF p
      <4>5. idx < Size(p)
        BY <4>1, <4>4, <1>3
      <4> QED BY <4>5 DEF p
    <3> QED BY <3>1, <3>2, <1>3 DEF HEADER_SIZE
  <2> QED BY <2>1, <1>1, <1>4 DEF HeldFits
<1> QED BY <1>5, <1>6, <1>7 DEF FramerInv

\* The consumer takes the first packet of the channel.
LEMMA ReceiveKept == ASSUME FramerInv, Receive PROVE FramerInv'
<1>1. C # <<>> /\ received' = Append(received, Head(C)) /\ C' = Tail(C) /\ UNCHANGED <<packets, stream, buf, idx, step>>
  BY DEF Receive
<1>2. /\ FramerTypeOK /\ OutFits /\ HeldFits /\ BufFits /\ \A i \in 1 .. Len(packets) : IsPacket(packets[i])
  BY DEF FramerInv
<1>3. C \in Seq(RawPacket) /\ received \in Seq(RawPacket) /\ Len(C) \in Nat /\ Len(received) \in Nat /\ Len(C) <= FrameCap
  BY <1>2, LengthsAre DEF FramerTypeOK
<1>4. /\ Len(C) >= 1 /\ Head(C) = C[1] /\ C' \in Seq(RawPacket) /\ Len(C') = Len(C) - 1
      /\ \A i \in 1 .. (Len(C) - 1) : C'[i] = C[i + 1]
  BY <1>1, <1>3
<1>5. /\ received' \in Seq(RawPacket) /\ Len(received') = Len(received) + 1 /\ received'[Len(received) + 1] = C[1]
      /\ \A i \in 1 .. Len(received) : received'[i] = received[i]
  <2>1. C[1] \in RawPacket
    BY <1>3, <1>4
  <2> QED BY <2>1, <1>1, <1>3, <1>4
<1>6. Out' = Out
  BY <1>3, <1>4, <1>5 DEF Out
<1>7. FramerTypeOK'
  <2>1. Len(C') <= FrameCap
    BY <1>3, <1>4, Fitting
  <2> QED BY <2>1, <1>1, <1>2, <1>4, <1>5 DEF FramerTypeOK
<1>8. OutFits'
  <2>1. /\ \A i \in 1 .. Len(received) : received[i] = packets[i]
        /\ \A i \in 1 .. Len(C) : C[i] = packets[Len(received) + i]
    BY <1>2 DEF OutFits
  <2>2. ASSUME NEW i \in 1 .. (Len(received) + 1) PROVE received'[i] = packets[i]
    <3>1. CASE i = Len(received) + 1
      <4>1. 1 \in 1 .. Len(C)
        BY <1>3, <1>4
      <4>2. C[1] = packets[Len(received) + 1]
        BY <4>1, <2>1
      <4> QED BY <3>1, <4>2, <1>5
    <3>2. CASE i \in 1 .. Len(received)
      BY <3>2, <2>1, <1>5
    <3> QED BY <3>1, <3>2, <1>3
  <2>3. ASSUME NEW i \in 1 .. (Len(C) - 1) PROVE C'[i] = packets[(Len(received) + 1) + i]
    <3>1. i + 1 \in 1 .. Len(C) /\ Len(received) + (i + 1) = (Len(received) + 1) + i
      BY <1>3
    <3>2. C[i + 1] = packets[Len(received) + (i + 1)]
      BY <3>1, <2>1
    <3> QED BY <3>1, <3>2, <1>4
  <2> QED BY <2>2, <2>3, <1>1, <1>2, <1>4, <1>5, <1>6 DEF OutFits
<1>9. HeldFits' /\ BufFits' /\ (\A i \in 1 .. Len(packets) : IsPacket(packets[i]))'
  BY <1>1, <1>2, <1>6 DEF HeldFits, BufFits, OneVersion
<1>10. \E W, f : Laid(W, f)' /\ Unread(W, f[Out + 1])'
  <2>1. PICK W, f : Laid(W, f) /\ Unread(W, f[Out + 1])
    BY DEF FramerInv
  <2>2. Laid(W, f)' /\ Unread(W, f[Out + 1])'
    BY <2>1, <1>1, <1>6 DEF Laid, Unread
  <2> QED BY <2>2
<1> QED BY <1>7, <1>8, <1>9, <1>10 DEF FramerInv

\* Every step of the framer keeps what is written, buffered and pulled together.
LEMMA FramerInvKept == FramerInv /\ [FramerNext]_framerVars => FramerInv'
BY FramerInvStays, IntoKept, ReadKept, PullKept, NoPacketKept, ReceiveKept DEF FramerNext

\* A non-empty set of naturals has a smallest element.
LEMMA LeastNat == ASSUME NEW T \in SUBSET Nat, T # {} PROVE \E x \in T : \A y \in T : x <= y
<1> DEFINE Less == {p \in Nat \X Nat : p[1] < p[2]}
<1>1. Less = OpToRel(<, Nat)
  BY DEF OpToRel
<1>2. IsWellFoundedOn(Less, Nat)
  BY <1>1, NatLessThanWellFounded
<1> HIDE DEF Less
<1>3. PICK x \in T : \A y \in T : ~(<<y, x>> \in Less)
  BY <1>2, WFMin
<1>4. ASSUME NEW y \in T PROVE x <= y
  <2>1. x \in Nat /\ y \in Nat /\ <<y, x>> \notin Less
    BY <1>3
  <2> QED BY <2>1 DEF Less
<1> QED BY <1>4

\* The packets of another version among s, and the length of what is before the first one.
Bad(s) == {i \in DOMAIN s : s[i].version # VERSION}
Before(s) == IF Bad(s) = {} THEN Len(s) ELSE (CHOOSE i \in Bad(s) : \A j \in Bad(s) : i <= j) - 1

\* That is the length of the packets of this version at the beginning.
LEMMA BeforeIs ==
    ASSUME NEW s \in Seq(RawPacket)
    PROVE  /\ Before(s) \in 0 .. Len(s) /\ \A i \in 1 .. Before(s) : s[i].version = VERSION
           /\ Before(s) < Len(s) => s[Before(s) + 1].version # VERSION
<1>1. Len(s) \in Nat /\ DOMAIN s = 1 .. Len(s)
  OBVIOUS
<1>2. CASE Bad(s) = {}
  BY <1>1, <1>2 DEF Bad, Before
<1>3. CASE Bad(s) # {}
  <2>1. Bad(s) \in SUBSET Nat
    BY <1>1 DEF Bad
  <2>2. \E x \in Bad(s) : \A y \in Bad(s) : x <= y
    BY <1>3, <2>1, LeastNat, Zenon
  <2>3. PICK m : m = CHOOSE i \in Bad(s) : \A j \in Bad(s) : i <= j
    OBVIOUS
  <2>4. m \in Bad(s) /\ \A j \in Bad(s) : m <= j
    BY <2>2, <2>3, Zenon
  <2>5. Before(s) = m - 1
    BY <1>3, <2>3 DEF Before
  <2>6. m \in 1 .. Len(s) /\ s[m].version # VERSION /\ \A j \in 1 .. Len(s) : s[j].version # VERSION => m <= j
    BY <1>1, <2>4 DEF Bad
  <2>7. Before(s) + 1 = m /\ Before(s) \in 0 .. Len(s)
    BY <1>1, <2>5, <2>6
  <2>8. ASSUME NEW i \in 1 .. Before(s) PROVE s[i].version = VERSION
    <3>1. i \in 1 .. Len(s) /\ i < m
      BY <1>1, <2>6, <2>7
    <3> QED BY <3>1, <2>6
  <2> QED BY <2>6, <2>7, <2>8
<1> QED BY <1>2, <1>3

\* It is the only such length.
LEMMA BeforeOnly ==
    ASSUME NEW s \in Seq(RawPacket), NEW n \in 0 .. Len(s), \A i \in 1 .. n : s[i].version = VERSION,
           n < Len(s) => s[n + 1].version # VERSION
    PROVE  Before(s) = n
<1>1. Len(s) \in Nat
  OBVIOUS
<1>2. PICK b : b = Before(s)
  OBVIOUS
<1>3. b \in 0 .. Len(s) /\ (\A i \in 1 .. b : s[i].version = VERSION) /\ (b < Len(s) => s[b + 1].version # VERSION)
  BY <1>2, BeforeIs
<1>4. ~(b < n)
  <2>1. SUFFICES ASSUME b < n PROVE FALSE
    OBVIOUS
  <2>2. b + 1 \in 1 .. n /\ b < Len(s)
    BY <1>1, <1>3, <2>1
  <2> QED BY <1>3, <2>2
<1>5. ~(n < b)
  <2>1. SUFFICES ASSUME n < b PROVE FALSE
    OBVIOUS
  <2>2. n + 1 \in 1 .. b /\ n < Len(s)
    BY <1>1, <1>3, <2>1
  <2> QED BY <1>3, <2>2
<1> QED BY <1>1, <1>2, <1>3, <1>4, <1>5

\* What the framer promises to deliver.
LEMMA UsableIs ==
    FramerTypeOK => /\ Usable \in Seq(RawPacket) /\ Len(Usable) = Before(packets)
                    /\ \A i \in 1 .. Before(packets) : Usable[i] = packets[i]
<1> SUFFICES ASSUME FramerTypeOK
             PROVE  /\ Usable \in Seq(RawPacket) /\ Len(Usable) = Before(packets)
                    /\ \A i \in 1 .. Before(packets) : Usable[i] = packets[i]
  OBVIOUS
<1> DEFINE b == Before(packets)
<1>1. packets \in Seq(RawPacket) /\ Len(packets) \in Nat
  BY DEF FramerTypeOK
<1>2. b \in 0 .. Len(packets)
  BY <1>1, BeforeIs
<1>3. CASE Bad(packets) = {}
  <2>1. Usable = packets /\ b = Len(packets)
    BY <1>3 DEF Usable, Bad, Before
  <2> QED BY <2>1, <1>1
<1>4. CASE Bad(packets) # {}
  <2>1. Usable = SubSeq(packets, 1, b)
    <3>1. b = (CHOOSE i \in Bad(packets) : \A j \in Bad(packets) : i <= j) - 1
      BY <1>4 DEF Before
    <3>2. Usable = IF Bad(packets) = {} THEN packets
                   ELSE SubSeq(packets, 1, (CHOOSE i \in Bad(packets) : \A j \in Bad(packets) : i <= j) - 1)
      BY Zenon DEF Usable, Bad
    <3> HIDE DEF b
    <3> QED BY <3>1, <3>2, <1>4
  <2> HIDE DEF b
  <2>2. \A i \in 1 .. b : packets[i] \in RawPacket
    BY <1>1, <1>2
  <2>3. SubSeq(packets, 1, b) \in Seq(RawPacket) /\ Len(SubSeq(packets, 1, b)) = b
        /\ \A i \in 1 .. b : SubSeq(packets, 1, b)[i] = packets[i]
    BY <1>1, <1>2, <2>2
  <2> QED BY <2>1, <2>3 DEF b
<1> QED BY <1>3, <1>4

\* Every packet may be delivered just when all are of this version.
LEMMA UsableAll == ASSUME FramerTypeOK, Usable = packets PROVE OneVersion
<1>1. packets \in Seq(RawPacket) /\ Len(packets) = Before(packets)
  BY UsableIs DEF FramerTypeOK
<1> QED BY <1>1, BeforeIs DEF OneVersion

\* Types and capacities are right, and the buffer never grows beyond one packet and one read as
\* long as the versions agree (Push), for any packets and any reads.
THEOREM BufferAlwaysBounded == FramerSpec => [](FramerTypeOK /\ BufferBounded)
<1>1. FramerInv => FramerTypeOK /\ BufferBounded
  BY UsableAll DEF FramerInv, BufFits, BufferBounded
<1> QED BY <1>1, FramerInvInit, FramerInvKept, PTL DEF FramerSpec
-----------------------------------------------------------------------------
FramerPipe == INSTANCE PacketPipe WITH Most <- MaxPackets, sent <- Usable, received <- received

\* A written packet is promised, or what is promised stays.
LEMMA IntoPipe == ASSUME FramerInv, FramerInv', Into PROVE FramerPipe!Send \/ UNCHANGED <<Usable, received>>
<1>0. PICK n, b, p : n = Len(packets) /\ b = Before(packets) /\ packets' = Append(packets, p) /\ p \in Writable[n + 1]
  BY DEF Into
<1>1. /\ FramerTypeOK /\ packets \in Seq(RawPacket) /\ n \in Nat /\ b \in 0 .. n /\ received' = received
      /\ packets' \in Seq(RawPacket) /\ FramerTypeOK'
  BY <1>0, BeforeIs DEF FramerInv, FramerTypeOK, Into
<1>2. Len(packets') = n + 1 /\ packets'[n + 1] = p /\ \A i \in 1 .. n : packets'[i] = packets[i]
  BY <1>0, <1>1
<1>3. /\ \A i \in 1 .. b : packets[i].version = VERSION
      /\ b < n => packets[b + 1].version # VERSION
  BY <1>0, <1>1, BeforeIs
<1>4. /\ Usable \in Seq(RawPacket) /\ Len(Usable) = b /\ \A i \in 1 .. b : Usable[i] = packets[i]
  BY <1>0, <1>1, UsableIs
<1>5. /\ Usable' \in Seq(RawPacket) /\ Len(Usable') = Before(packets')
      /\ \A i \in 1 .. Before(packets') : Usable'[i] = packets'[i]
  <2>1. (FramerTypeOK => /\ Usable \in Seq(RawPacket) /\ Len(Usable) = Before(packets)
                         /\ \A i \in 1 .. Before(packets) : Usable[i] = packets[i])'
    BY UsableIs, PTL
  <2>2. Before(packets)' = Before(packets')
    BY DEF Before, Bad
  <2> QED BY <2>1, <2>2, <1>1
<1>6. \A i \in 1 .. b : packets'[i] = packets[i] /\ packets'[i].version = VERSION
  BY <1>1, <1>2, <1>3
<1>7. CASE b = n /\ p.version = VERSION
  <2>1. Before(packets') = n + 1
    <3>1. \A i \in 1 .. (n + 1) : packets'[i].version = VERSION
      BY <1>1, <1>2, <1>6, <1>7
    <3> QED BY <3>1, <1>1, <1>2, BeforeOnly
  <2>2. Len(Usable') = b + 1 /\ \A i \in 1 .. b : Usable'[i] = Usable[i]
    <3>1. \A i \in 1 .. b : i \in 1 .. (n + 1)
      BY <1>1
    <3> QED BY <3>1, <2>1, <1>4, <1>5, <1>6, <1>7
  <2>3. SubSeq(Usable', 1, b) = Usable
    <3> DEFINE u == SubSeq(Usable', 1, b)
    <3>1. \A i \in 1 .. b : Usable'[i] \in RawPacket
      BY <1>1, <1>5, <2>2
    <3>2. u \in Seq(RawPacket) /\ Len(u) = b /\ \A i \in 1 .. b : u[i] = Usable'[i]
      BY <1>1, <1>5, <2>2, <3>1
    <3> HIDE DEF u
    <3>3. u = Usable
      BY <3>2, <2>2, <1>4, SeqEqual
    <3> QED BY <3>3 DEF u
  <2> QED BY <2>2, <2>3, <1>1, <1>4 DEF FramerPipe!Send
<1>8. CASE ~(b = n /\ p.version = VERSION)
  <2>1. Before(packets') = b
    <3>1. packets'[b + 1].version # VERSION
      <4>1. CASE b = n
        BY <4>1, <1>2, <1>8
      <4>2. CASE b < n
        <5>1. b + 1 \in 1 .. n
          BY <4>2, <1>1
        <5> QED BY <5>1, <4>2, <1>2, <1>3
      <4> QED BY <4>1, <4>2, <1>1
    <3>2. b \in 0 .. Len(packets')
      BY <1>1, <1>2
    <3> QED BY <3>1, <3>2, <1>1, <1>6, BeforeOnly
  <2>2. Usable' = Usable
    BY <2>1, <1>4, <1>5, <1>6, SeqEqual
  <2> QED BY <2>2, <1>1
<1> QED BY <1>7, <1>8

\* A received packet is the next one of those that are promised.
LEMMA ReceivePipe == ASSUME FramerInv, Receive PROVE FramerPipe!Receive
<1>1. C # <<>> /\ received' = Append(received, Head(C)) /\ packets' = packets
  BY DEF Receive
<1>2. FramerTypeOK /\ OutFits /\ packets \in Seq(RawPacket) /\ C \in Seq(RawPacket)
  BY DEF FramerInv, FramerTypeOK
<1>3. PICK r, b, n : r = Len(received) /\ b = Before(packets) /\ n = Len(packets)
  OBVIOUS
<1>4. r \in Nat /\ n \in Nat /\ Out \in Nat /\ Out <= n /\ Out = r + Len(C) /\ Len(C) \in Nat
  BY <1>2, <1>3, LengthsAre DEF OutFits, Out
<1>5. Len(C) >= 1 /\ Head(C) = C[1] /\ C[1] = packets[r + 1]
  <2>1. Len(C) >= 1 /\ Head(C) = C[1]
    BY <1>1, <1>2
  <2>2. 1 \in 1 .. Len(C)
    BY <2>1, <1>4
  <2> QED BY <2>1, <2>2, <1>2, <1>3 DEF OutFits
<1>6. b \in 0 .. n /\ (b < n => packets[b + 1].version # VERSION)
  BY <1>2, <1>3, BeforeIs
<1>7. ~(b < Out)
  <2>1. SUFFICES ASSUME b < Out PROVE FALSE
    OBVIOUS
  <2>2. b + 1 \in 1 .. Out /\ b < n
    BY <2>1, <1>4, <1>6
  <2> QED BY <2>2, <1>2, <1>6 DEF OutFits
<1>8. r < b /\ r + 1 \in 1 .. b
  BY <1>4, <1>5, <1>6, <1>7
<1>9. Len(Usable) = b /\ Usable[r + 1] = packets[r + 1]
  BY <1>2, <1>3, <1>8, UsableIs
<1>10. Usable' = Usable
  BY <1>1 DEF Usable
<1> QED BY <1>1, <1>3, <1>5, <1>8, <1>9, <1>10 DEF FramerPipe!Receive

\* Whatever the pieces in which the bytes arrive, the packets come out of the framer whole, once
\* and in the order in which they were written, up to the first one of another version
\* (FrameWithReader, Push, pull), for any packets: its part of PacketPipe's promise that is not
\* about the end.
THEOREM PacketsKeptInOrder == FramerSpec => FramerPipe!InOrder
<1>1. FramerInit => FramerPipe!Init
  <2>1. packets = <<>> => Usable = <<>>
    BY DEF Usable
  <2> QED BY <2>1 DEF FramerInit, FramerPipe!Init
<1>2. ASSUME FramerInv, FramerInv', [FramerNext]_framerVars
      PROVE  FramerPipe!Send \/ FramerPipe!Receive \/ UNCHANGED <<Usable, received>>
  <2>1. ASSUME UNCHANGED <<packets, received>> PROVE UNCHANGED <<Usable, received>>
    BY <2>1 DEF Usable
  <2>2. CASE Into
    BY <2>2, <1>2, IntoPipe
  <2>3. CASE Receive
    BY <2>3, <1>2, ReceivePipe
  <2>4. CASE Read \/ Pull \/ NoPacket \/ UNCHANGED framerVars
    BY <2>1, <2>4 DEF Read, Pull, NoPacket, framerVars
  <2> QED BY <2>2, <2>3, <2>4, <1>2 DEF FramerNext
<1>3. FramerSpec => []FramerInv
  BY FramerInvInit, FramerInvKept, PTL DEF FramerSpec
<1>4. FramerInv /\ FramerInv' /\ [FramerNext]_framerVars => [FramerPipe!Send \/ FramerPipe!Receive]_<<Usable, received>>
  BY <1>2
<1> QED BY <1>1, <1>3, <1>4, PTL DEF FramerSpec, FramerPipe!InOrder
=============================================================================
