------------------------------ MODULE DoomProofs ------------------------------
(***************************************************************************)
(* Proofs about the two ends of a game that a chat plays: Relay, which     *)
(* spreads its frames, and ChatVotes and TowerVotes, which decide who wins *)
(* a round of it.                                                          *)
(***************************************************************************)
EXTENDS Relay, MCChatVotes, FiniteSetTheorems, SequenceTheorems, TLAPS

-----------------------------------------------------------------------------
(***************************************************************************)
(* Relay, for any drivers and viewers, any number of frames and any        *)
(* capacity of the channels.                                               *)
(*                                                                         *)
(* What a listener has of a driver's stream is spread over three places:   *)
(* what was written to its peer, the message that its writing goroutine    *)
(* holds, and its channel.  The invariant says that the stream is in order *)
(* through all three, and that none of it is later than what its driver's  *)
(* reading goroutine is at: that goroutine hands out one message at a      *)
(* time, so the next one is later than all of them.                        *)
(***************************************************************************)

\* A connection that relays has been authorized, and only a driver is; what a goroutine holds
\* is a message.
ReadersFit ==
  /\ \A c \in Conns : /\ reader[c] = "spread" => authorized[c] /\ read[c] >= 2
                      /\ todo[c] # {} => reader[c] = "spread"
                      /\ authorized[c] => c \in Drivers /\ read[c] >= 1
                      /\ read[c] # 0 => authorized[c]
                      /\ writer[c] = "write" => outgoing[c] \in Message
  /\ newc # None => opens \in Message

\* A message that listener l has already: its driver is at it, and has handed it to l, or is
\* further on.
Past(l, m) == /\ m.n + 2 <= read[m.src]
              /\ l \in todo[m.src] => m.n + 2 < read[m.src]
Before(m, n) == m.src = n.src => m.n < n.n

QueueFits(l) ==
  /\ \A i \in DOMAIN msgs[l] : Past(l, msgs[l][i])
  /\ \A i, j \in DOMAIN msgs[l] : i < j => Before(msgs[l][i], msgs[l][j])
HeldFits(l) ==
  writer[l] = "write" =>
    /\ Past(l, outgoing[l]) /\ outgoing[l].src # l
    /\ \A i \in DOMAIN msgs[l] : Before(outgoing[l], msgs[l][i])
InboxFits(l) ==
  \A k \in DOMAIN inbox[l] : inbox[l][k].via = "relay" =>
    /\ Past(l, inbox[l][k].m) /\ inbox[l][k].m.src # l
    /\ \A i \in DOMAIN msgs[l] : Before(inbox[l][k].m, msgs[l][i])
    /\ writer[l] = "write" => Before(inbox[l][k].m, outgoing[l])
    /\ \A j \in DOMAIN inbox[l] :
         inbox[l][j].via = "relay" /\ k < j => Before(inbox[l][k].m, inbox[l][j].m)
LineFits(l) == QueueFits(l) /\ HeldFits(l) /\ InboxFits(l)
StreamsFit == \A l \in Conns : LineFits(l)

IInv == RelayTypeOK /\ ReadersFit /\ StreamsFit
-----------------------------------------------------------------------------
(* Types *)

LEMMA MessageFacts ==
  /\ NoMessage \notin Message
  /\ \A m \in Message : m.src \in Drivers /\ m.src \in Conns /\ m.n \in 0..LastFrame
  /\ \A m \in Message : [m |-> m, via |-> "relay"] \in Entry /\ [m |-> m, via |-> "open"] \in Entry
  BY RelayAssumption DEF NoMessage, Message, Entry, Conns

\* The message that a connection relays is one, and the last one that was read.
LEMMA CurrentType ==
  ASSUME RelayTypeOK, ReadersFit, NEW c \in Conns, reader[c] = "spread"
  PROVE  /\ Current(c) \in Message /\ Current(c).src = c /\ Current(c).n + 2 = read[c]
         /\ read[c] \in Nat
<1>1. c \in Drivers /\ read[c] >= 2 /\ read[c] \in 0..LastFrame + 2
  BY DEF RelayTypeOK, ReadersFit
<1>2. read[c] - 2 \in 0..LastFrame
  BY <1>1, RelayAssumption
<1> QED BY <1>1, <1>2 DEF Current, Message

LEMMA TypeInit == RelayInit => RelayTypeOK /\ ReadersFit
<1> SUFFICES ASSUME RelayInit PROVE RelayTypeOK /\ ReadersFit
  OBVIOUS
<1>1. <<>> \in Seq(Message) /\ <<>> \in Seq(Entry) /\ <<>> \in Seq(Conns) /\ Len(<<>>) = 0
  OBVIOUS
<1>2. /\ ChanCap \in Nat /\ ConnsCap \in Nat /\ MsgsCap \in Nat /\ FramesCap \in Nat
      /\ 0 \in 0..LastFrame + 2
  BY RelayAssumption
<1>3. RelayTypeOK
  <2>1. /\ link \in [Conns -> {"out", "open", "gone", "closed"}]
        /\ stalled \in [Conns -> BOOLEAN] /\ authorized \in [Conns -> BOOLEAN]
        /\ read \in [Conns -> 0..LastFrame + 2]
        /\ reader \in [Conns -> {"off", "read", "spread", "end"}]
        /\ todo \in [Conns -> SUBSET Conns]
        /\ writer \in [Conns -> {"off", "take", "write", "leave", "end"}]
        /\ outgoing \in [Conns -> Message \cup {NoMessage}]
    BY <1>2 DEF RelayInit
  <2>2. /\ msgs \in [Conns -> Seq(Message)] /\ \A c \in Conns : Len(msgs[c]) <= MsgsCap
        /\ inbox \in [Conns -> Seq(Entry)]
    BY <1>1, <1>2 DEF RelayInit
  <2>3. /\ listeners \subseteq Conns /\ newc \in Conns \cup {None} /\ crash \in BOOLEAN
    BY DEF RelayInit
  <2>4. ch = <<>> /\ conns = <<>> /\ frames = <<>>
    BY DEF RelayInit
  <2>5. /\ ch \in Seq(Message) /\ conns \in Seq(Conns) /\ frames \in Seq(Message)
        /\ Len(ch) = 0 /\ Len(conns) = 0 /\ Len(frames) = 0
    BY <1>1, <2>4, Zenon
  <2>6. Len(ch) <= ChanCap /\ Len(conns) <= ConnsCap /\ Len(frames) <= FramesCap
    BY <1>2, <2>5
  <2>7. framer \in Message \cup {NoMessage} /\ onmsg \in Message \cup {NoMessage}
        /\ opens \in Message \cup {NoMessage}
    BY DEF RelayInit
  <2> QED BY <2>1, <2>2, <2>3, <2>5, <2>6, <2>7, Zenon DEF RelayTypeOK
<1>4. ReadersFit
  <2>1. ASSUME NEW c \in Conns
        PROVE  /\ reader[c] = "off" /\ todo[c] = {} /\ ~authorized[c]
               /\ read[c] = 0 /\ writer[c] = "off"
    BY DEF RelayInit
  <2> QED BY <2>1 DEF RelayInit, ReadersFit
<1> QED BY <1>3, <1>4

LEMMA TypeStep == ASSUME RelayTypeOK, ReadersFit, RelayNext PROVE RelayTypeOK'
<1> USE DEF connVars, sendVars, openVars
<1>1. ASSUME NEW c \in Conns, Add(c) PROVE RelayTypeOK'
  <2>1. conns' \in Seq(Conns) /\ Len(conns') <= ConnsCap
    BY <1>1, RelayAssumption DEF Add, RelayTypeOK
  <2> QED BY <1>1, <2>1 DEF Add, RelayTypeOK
<1>2. ASSUME NEW c \in Conns, Leave(c) PROVE RelayTypeOK'
  BY <1>2 DEF Leave, RelayTypeOK
<1>3. ASSUME NEW c \in Conns, Stall(c) PROVE RelayTypeOK'
  BY <1>3 DEF Stall, RelayTypeOK
<1>4. ASSUME NEW c \in Conns, Authorize(c) PROVE RelayTypeOK'
  <2>1. 1 \in 0..LastFrame + 2
    BY RelayAssumption
  <2> QED BY <1>4, <2>1 DEF Authorize, RelayTypeOK
<1>5. ASSUME NEW c \in Conns, ReadMessage(c) PROVE RelayTypeOK'
  <2>1. read[c] \in Nat /\ read[c] >= 1 /\ read[c] < LastFrame + 2 /\ c \in Drivers
    BY <1>5, RelayAssumption DEF ReadMessage, RelayTypeOK, ReadersFit
  <2>2. read[c] + 1 \in 0..LastFrame + 2 /\ read[c] - 1 \in 0..LastFrame
    BY <2>1, RelayAssumption
  <2>3. [src |-> c, n |-> read[c] - 1] \in Message
    BY <2>1, <2>2 DEF Message
  <2>4. ch' \in Seq(Message) /\ Len(ch') <= ChanCap
    BY <1>5, <2>3, RelayAssumption DEF ReadMessage, RelayTypeOK
  <2>5. read' \in [Conns -> 0..LastFrame + 2]
    BY <1>5, <2>2 DEF ReadMessage, RelayTypeOK
  <2> QED BY <1>5, <2>4, <2>5 DEF ReadMessage, RelayTypeOK
<1>6. ASSUME NEW c \in Conns, NEW l \in Conns, Msg(c, l) PROVE RelayTypeOK'
  <2>1. Current(c) \in Message
    BY <1>6, CurrentType DEF Msg, ReadersFit
  <2>2. msgs[l] \in Seq(Message) /\ Len(msgs[l]) <= MsgsCap
    BY DEF RelayTypeOK
  <2>3. /\ Append(msgs[l], Current(c)) \in Seq(Message)
        /\ Len(msgs[l]) < MsgsCap => Len(Append(msgs[l], Current(c))) <= MsgsCap
    BY <2>1, <2>2, RelayAssumption
  <2>4. msgs' \in [Conns -> Seq(Message)] /\ \A d \in Conns : Len(msgs'[d]) <= MsgsCap
    BY <1>6, <2>3 DEF Msg, RelayTypeOK
  <2> QED BY <1>6, <2>4 DEF Msg, RelayTypeOK
<1>7. ASSUME NEW c \in Conns, Relayed(c) PROVE RelayTypeOK'
  BY <1>7 DEF Relayed, RelayTypeOK
<1>8. ASSUME NEW c \in Conns, ReadEnd(c) PROVE RelayTypeOK'
  BY <1>8 DEF ReadEnd, remove, RelayTypeOK
<1>9. ASSUME NEW c \in Conns, Take(c) PROVE RelayTypeOK'
  <2>1. msgs[c] \in Seq(Message) /\ msgs[c] # <<>> /\ Len(msgs[c]) <= MsgsCap
    BY <1>9 DEF Take, RelayTypeOK
  <2>2. /\ Tail(msgs[c]) \in Seq(Message) /\ Head(msgs[c]) \in Message
        /\ Len(Tail(msgs[c])) <= MsgsCap
    BY <2>1, HeadTailProperties, RelayAssumption
  <2>3. msgs' \in [Conns -> Seq(Message)] /\ \A d \in Conns : Len(msgs'[d]) <= MsgsCap
    BY <1>9, <2>2 DEF Take, RelayTypeOK
  <2> QED BY <1>9, <2>2, <2>3 DEF Take, RelayTypeOK
<1>10. ASSUME NEW c \in Conns, Write(c) PROVE RelayTypeOK'
  <2>1. [m |-> outgoing[c], via |-> "relay"] \in Entry
    BY <1>10, MessageFacts DEF Write, ReadersFit
  <2>2. Append(inbox[c], [m |-> outgoing[c], via |-> "relay"]) \in Seq(Entry)
    BY <2>1 DEF RelayTypeOK
  <2>3. inbox' \in [Conns -> Seq(Entry)]
    BY <1>10, <2>2 DEF Write, Deliver, RelayTypeOK
  <2> QED BY <1>10, <2>3 DEF Write, RelayTypeOK
<1>11. ASSUME NEW c \in Conns, WriteFails(c) PROVE RelayTypeOK'
  BY <1>11 DEF WriteFails, RelayTypeOK
<1>12. ASSUME NEW c \in Conns, WriteEnd(c) PROVE RelayTypeOK'
  BY <1>12 DEF WriteEnd, remove, RelayTypeOK
<1>13. CASE TakeConn
  <2>1. conns \in Seq(Conns) /\ conns # <<>> /\ Len(conns) <= ConnsCap
    BY <1>13 DEF TakeConn, RelayTypeOK
  <2>2. Tail(conns) \in Seq(Conns) /\ Head(conns) \in Conns /\ Len(Tail(conns)) <= ConnsCap
    BY <2>1, HeadTailProperties, RelayAssumption
  <2> QED BY <1>13, <2>2 DEF TakeConn, RelayTypeOK
<1>14. CASE WriteOpen
  <2>1. newc \in Conns /\ [m |-> opens, via |-> "open"] \in Entry
    BY <1>14, MessageFacts DEF WriteOpen, ReadersFit, RelayTypeOK
  <2>2. Append(inbox[newc], [m |-> opens, via |-> "open"]) \in Seq(Entry)
    BY <2>1 DEF RelayTypeOK
  <2>3. inbox' \in [Conns -> Seq(Entry)]
    BY <1>14, <2>1, <2>2 DEF WriteOpen, Deliver, RelayTypeOK
  <2> QED BY <1>14, <2>3 DEF WriteOpen, RelayTypeOK
<1>15. CASE Panic
  BY <1>15 DEF Panic, RelayTypeOK
<1>16. CASE FramerTake
  <2>1. ch \in Seq(Message) /\ ch # <<>> /\ Len(ch) <= ChanCap
    BY <1>16 DEF FramerTake, RelayTypeOK
  <2>2. Tail(ch) \in Seq(Message) /\ Head(ch) \in Message /\ Len(Tail(ch)) <= ChanCap
    BY <2>1, HeadTailProperties, RelayAssumption
  <2> QED BY <1>16, <2>2 DEF FramerTake, RelayTypeOK
<1>17. CASE FramerPush
  <2>1. framer \in Message /\ frames \in Seq(Message) /\ Len(frames) < FramesCap
    BY <1>17 DEF FramerPush, RelayTypeOK
  <2>2. Append(frames, framer) \in Seq(Message) /\ Len(Append(frames, framer)) <= FramesCap
    BY <2>1, RelayAssumption
  <2> QED BY <1>17, <2>2 DEF FramerPush, RelayTypeOK
<1>18. CASE OnMessage
  <2>1. frames \in Seq(Message) /\ frames # <<>> /\ Len(frames) <= FramesCap
    BY <1>18 DEF OnMessage, RelayTypeOK
  <2>2. Tail(frames) \in Seq(Message) /\ Head(frames) \in Message /\ Len(Tail(frames)) <= FramesCap
    BY <2>1, HeadTailProperties, RelayAssumption
  <2> QED BY <1>18, <2>2 DEF OnMessage, RelayTypeOK
<1>19. CASE StoreOpen
  BY <1>19 DEF StoreOpen, RelayTypeOK
<1> QED BY <1>1, <1>2, <1>3, <1>4, <1>5, <1>6, <1>7, <1>8, <1>9, <1>10, <1>11, <1>12, <1>13,
           <1>14, <1>15, <1>16, <1>17, <1>18, <1>19
        DEF RelayNext, NewStep, FrameStep, OpenStep, ReadStep, WriteStep

LEMMA ReadersStep == ASSUME RelayTypeOK, ReadersFit, RelayNext PROVE ReadersFit'
<1> USE DEF connVars, sendVars, openVars
<1>1. ASSUME NEW c \in Conns, Add(c) PROVE ReadersFit'
  <2>1. todo[c] = {} \/ reader[c] = "spread"
    BY DEF ReadersFit
  <2>2. reader[c] # "spread"
    BY <1>1 DEF Add, Unlocked
  <2> QED BY <1>1, <2>1, <2>2 DEF Add, ReadersFit, RelayTypeOK
<1>2. ASSUME NEW c \in Conns, Leave(c) \/ Stall(c) PROVE ReadersFit'
  BY <1>2 DEF Leave, Stall, ReadersFit
<1>3. ASSUME NEW c \in Conns, Authorize(c) PROVE ReadersFit'
  BY <1>3 DEF Authorize, ReadersFit, RelayTypeOK
<1>4. ASSUME NEW c \in Conns, ReadMessage(c) PROVE ReadersFit'
  <2>1. read[c] \in Nat /\ read[c] >= 1 /\ read'[c] = read[c] + 1 /\ c \in Drivers
    BY <1>4, RelayAssumption DEF ReadMessage, ReadersFit, RelayTypeOK
  <2> QED BY <1>4, <2>1 DEF ReadMessage, ReadersFit, RelayTypeOK
<1>5. ASSUME NEW c \in Conns, NEW l \in Conns, Msg(c, l) PROVE ReadersFit'
  BY <1>5 DEF Msg, ReadersFit, RelayTypeOK
<1>6. ASSUME NEW c \in Conns, Relayed(c) PROVE ReadersFit'
  BY <1>6 DEF Relayed, ReadersFit, RelayTypeOK
<1>7. ASSUME NEW c \in Conns, ReadEnd(c) PROVE ReadersFit'
  BY <1>7 DEF ReadEnd, remove, ReadersFit, RelayTypeOK
<1>8. ASSUME NEW c \in Conns, Take(c) PROVE ReadersFit'
  <2>1. Head(msgs[c]) \in Message
    BY <1>8, HeadTailProperties DEF Take, RelayTypeOK
  <2> QED BY <1>8, <2>1 DEF Take, ReadersFit, RelayTypeOK
<1>9. ASSUME NEW c \in Conns, Write(c) \/ WriteFails(c) \/ WriteEnd(c) PROVE ReadersFit'
  <2>1. /\ writer'[c] # "write"
        /\ \A d \in Conns \ {c} : writer'[d] = writer[d] /\ outgoing'[d] = outgoing[d]
    BY <1>9 DEF Write, WriteFails, WriteEnd, RelayTypeOK
  <2>2. UNCHANGED <<reader, authorized, read, todo, newc, opens>>
    BY <1>9 DEF Write, WriteFails, WriteEnd
  <2> QED BY <2>1, <2>2 DEF ReadersFit
<1>10. CASE TakeConn
  BY <1>10 DEF TakeConn, ReadersFit, RelayTypeOK
<1>11. CASE WriteOpen
  BY <1>11 DEF WriteOpen, ReadersFit
<1>12. CASE Panic \/ FramerTake \/ FramerPush \/ OnMessage
  BY <1>12 DEF Panic, FramerTake, FramerPush, OnMessage, ReadersFit
<1>13. CASE StoreOpen
  BY <1>13 DEF StoreOpen, ReadersFit, RelayTypeOK
<1> QED BY <1>1, <1>2, <1>3, <1>4, <1>5, <1>6, <1>7, <1>8, <1>9, <1>10, <1>11, <1>12, <1>13
        DEF RelayNext, NewStep, FrameStep, OpenStep, ReadStep, WriteStep
-----------------------------------------------------------------------------
(* The streams *)

\* Messages that are past stay so while drivers read on, and hand out what they read.
LEMMA PastKept ==
  ASSUME RelayTypeOK, NEW l \in Conns, NEW m \in Message, Past(l, m),
         read'[m.src] \in Nat, read'[m.src] >= read[m.src],
         todo'[m.src] \subseteq todo[m.src] \/ read'[m.src] > read[m.src]
  PROVE  Past(l, m)'
<1>1. m.n \in Nat /\ read[m.src] \in Nat
  BY MessageFacts, RelayAssumption DEF RelayTypeOK
<1> QED BY <1>1 DEF Past

\* The parts of a line are messages.
LEMMA LineTypes ==
  ASSUME RelayTypeOK, ReadersFit, NEW l \in Conns
  PROVE  /\ \A i \in DOMAIN msgs[l] : msgs[l][i] \in Message
         /\ \A k \in DOMAIN inbox[l] : inbox[l][k].m \in Message
         /\ writer[l] = "write" => outgoing[l] \in Message
<1>1. msgs[l] \in Seq(Message) /\ inbox[l] \in Seq(Entry)
  BY DEF RelayTypeOK
<1>2. \A e \in Entry : e.m \in Message
  BY DEF Entry
<1> QED BY <1>1, <1>2, ElementOfSeq, LenProperties DEF ReadersFit

\* A step that adds nothing to a line keeps it, however far drivers have read.
LEMMA LineKept ==
  ASSUME RelayTypeOK, ReadersFit, NEW l \in Conns, LineFits(l),
         \A d \in Drivers : /\ read'[d] \in Nat /\ read'[d] >= read[d]
                            /\ todo'[d] \subseteq todo[d] \/ read'[d] > read[d],
         msgs'[l] = msgs[l], inbox'[l] = inbox[l],
         writer'[l] = "write" => writer[l] = "write" /\ outgoing'[l] = outgoing[l]
  PROVE  LineFits(l)'
<1>1. \A m \in Message : Past(l, m) => Past(l, m)'
  <2> SUFFICES ASSUME NEW m \in Message, Past(l, m) PROVE Past(l, m)'
    OBVIOUS
  <2>1. m.src \in Drivers
    BY MessageFacts
  <2>2. /\ read'[m.src] \in Nat /\ read'[m.src] >= read[m.src]
        /\ todo'[m.src] \subseteq todo[m.src] \/ read'[m.src] > read[m.src]
    BY <2>1
  <2> QED BY <2>2, PastKept
<1> USE LineTypes, <1>1 DEF Before
<1>2. QueueFits(l)'
  BY DEF LineFits, QueueFits
<1>3. HeldFits(l)'
  BY DEF LineFits, HeldFits
<1>4. InboxFits(l)'
  BY DEF LineFits, InboxFits
<1> QED BY <1>2, <1>3, <1>4 DEF LineFits

\* What is handed to a listener goes behind all it has of that driver.
LEMMA MsgStep ==
  ASSUME RelayTypeOK, ReadersFit, StreamsFit, NEW c \in Conns, NEW l \in Conns, Msg(c, l)
  PROVE  StreamsFit'
<1>1. /\ reader[c] = "spread" /\ Current(c) \in Message /\ Current(c).src = c
      /\ Current(c).n + 2 = read[c] /\ read[c] \in Nat /\ Current(c).n \in Nat
  BY CurrentType, MessageFacts, RelayAssumption DEF Msg, ReadersFit
<1>2. /\ read' = read /\ inbox' = inbox /\ writer' = writer /\ outgoing' = outgoing
      /\ todo' = [todo EXCEPT ![c] = @ \ {l}]
  BY DEF Msg
<1>3. ASSUME NEW d \in Conns
      PROVE  todo'[d] \subseteq todo[d] /\ read'[d] \in Nat
  BY <1>2, RelayAssumption DEF RelayTypeOK
<1>4. ASSUME NEW k \in Conns, msgs'[k] = msgs[k] PROVE LineFits(k)'
  BY <1>2, <1>3, <1>4, LineKept DEF StreamsFit, Conns
<1>5. CASE msgs' = msgs
  BY <1>4, <1>5 DEF StreamsFit
<1>6. CASE msgs' = [msgs EXCEPT ![l] = Append(@, Current(c))]
  <2>1. \A m \in Message : Past(l, m) => Past(l, m)' /\ Before(m, Current(c))
    <3> SUFFICES ASSUME NEW m \in Message, Past(l, m)
                 PROVE  Past(l, m)' /\ Before(m, Current(c))
      OBVIOUS
    <3>1. Past(l, m)'
      <4>1. m.src \in Conns /\ read'[m.src] = read[m.src]
        BY <1>2, MessageFacts
      <4> QED BY <1>3, <4>1, PastKept
    <3>2. Before(m, Current(c))
      BY <1>1, MessageFacts, RelayAssumption DEF Msg, Past, Before
    <3> QED BY <3>1, <3>2
  <2>2. \A m \in Message : m = Current(c) => Past(l, m)'
    <3>1. read'[c] = read[c] /\ l \notin todo'[c]
      BY <1>2 DEF RelayTypeOK
    <3> QED BY <1>1, <3>1 DEF Past
  <2>3. /\ msgs'[l] = Append(msgs[l], Current(c)) /\ msgs[l] \in Seq(Message)
        /\ \A k \in Conns : k # l => msgs'[k] = msgs[k]
    BY <1>6 DEF RelayTypeOK
  <2>4. /\ DOMAIN msgs'[l] = 1 .. Len(msgs[l]) + 1 /\ DOMAIN msgs[l] = 1 .. Len(msgs[l])
        /\ Len(msgs[l]) \in Nat
        /\ \A i \in DOMAIN msgs[l] : msgs'[l][i] = msgs[l][i]
        /\ msgs'[l][Len(msgs[l]) + 1] = Current(c)
    BY <2>3, <1>1
  <2>5. \A i \in DOMAIN msgs'[l] : i \in DOMAIN msgs[l] \/ msgs'[l][i] = Current(c)
    BY <2>4
  <2> USE LineTypes, <2>1, <2>2, <2>4, <2>5
  <2>6. QueueFits(l)'
    <3>1. QueueFits(l)
      BY DEF StreamsFit, LineFits
    <3>2. ASSUME NEW i \in DOMAIN msgs'[l], NEW m \in Message, m = msgs'[l][i]
          PROVE  Past(l, m)'
      BY <1>1, <3>1, <3>2 DEF QueueFits
    <3>3. ASSUME NEW i \in DOMAIN msgs'[l], NEW j \in DOMAIN msgs'[l], i < j
          PROVE  Before(msgs'[l][i], msgs'[l][j])
      <4>1. i \in DOMAIN msgs[l]
        BY <3>3
      <4> QED BY <3>1, <4>1, <3>3 DEF QueueFits
    <3>4. \A i \in DOMAIN msgs'[l] : msgs'[l][i] \in Message
      BY <1>1
    <3> QED BY <3>2, <3>3, <3>4 DEF QueueFits, Before
  <2>7. HeldFits(l)'
    BY <1>2 DEF StreamsFit, LineFits, HeldFits, Before
  <2>8. InboxFits(l)'
    BY <1>2 DEF StreamsFit, LineFits, InboxFits, Before
  <2> QED BY <1>4, <2>3, <2>6, <2>7, <2>8 DEF StreamsFit, LineFits
<1> QED BY <1>5, <1>6 DEF Msg

\* What the writing goroutine takes is the first of its channel.
LEMMA TakeStep ==
  ASSUME RelayTypeOK, ReadersFit, StreamsFit, NEW c \in Conns, Take(c)
  PROVE  StreamsFit'
<1>1. UNCHANGED <<read, todo, inbox, authorized>>
  BY DEF Take, connVars
<1>2. \A d \in Drivers : read'[d] \in Nat /\ read'[d] = read[d] /\ todo'[d] = todo[d]
  BY <1>1, RelayAssumption DEF RelayTypeOK, Conns
<1>3. ASSUME NEW l \in Conns \ {c} PROVE LineFits(l)'
  <2>1. /\ msgs'[l] = msgs[l] /\ inbox'[l] = inbox[l]
        /\ writer'[l] = writer[l] /\ outgoing'[l] = outgoing[l]
    BY <1>1 DEF Take, RelayTypeOK
  <2> QED BY <1>2, <2>1, LineKept DEF StreamsFit
<1>4. LineFits(c)'
  <2>1. /\ msgs[c] \in Seq(Message) /\ msgs[c] # <<>>
        /\ msgs'[c] = Tail(msgs[c]) /\ inbox'[c] = inbox[c] /\ writer[c] = "take"
    BY <1>1 DEF Take, RelayTypeOK
  <2>2. /\ Len(msgs[c]) \in Nat /\ DOMAIN msgs[c] = 1 .. Len(msgs[c])
        /\ DOMAIN msgs'[c] = 1 .. Len(msgs[c]) - 1 /\ 1 \in DOMAIN msgs[c]
        /\ \A i \in DOMAIN msgs'[c] : i + 1 \in DOMAIN msgs[c] /\ msgs'[c][i] = msgs[c][i + 1]
        /\ Head(msgs[c]) = msgs[c][1]
    BY <2>1, HeadTailProperties, LenProperties
  <2>3. \A m \in Message : Past(c, m) => Past(c, m)'
    <3> SUFFICES ASSUME NEW m \in Message, Past(c, m) PROVE Past(c, m)'
      OBVIOUS
    <3>1. m.src \in Drivers
      BY MessageFacts
    <3> QED BY <1>2, <3>1, PastKept
  <2>4. QueueFits(c) /\ InboxFits(c)
    BY DEF StreamsFit, LineFits
  <2> USE LineTypes, <2>2, <2>3 DEF Before
  <2>5. QueueFits(c)'
    <3>1. ASSUME NEW i \in DOMAIN msgs'[c] PROVE Past(c, msgs[c][i])'
      <4>1. PICK m \in Message : m = msgs[c][i + 1] /\ Past(c, m)
        BY <2>4 DEF QueueFits
      <4>2. Past(c, m)'
        BY <4>1
      <4> QED BY <4>1, <4>2 DEF Past
    <3>2. ASSUME NEW i \in DOMAIN msgs'[c], NEW j \in DOMAIN msgs'[c], i < j
          PROVE  Before(msgs'[c][i], msgs'[c][j])
      <4>1. i + 1 < j + 1
        BY <3>2
      <4> QED BY <2>4, <4>1 DEF QueueFits
    <3> QED BY <3>1, <3>2 DEF QueueFits
  <2>6. HeldFits(c)'
    <3>1. CASE authorized[c]
      BY <2>1, <3>1 DEF Take, HeldFits
    <3>2. CASE ~authorized[c]
      <4>1. outgoing'[c] = msgs[c][1] /\ msgs[c][1] \in Message
        BY <2>1, <3>2 DEF Take, RelayTypeOK
      <4>2. msgs[c][1].src # c
        <5>1. read[c] = 0 /\ msgs[c][1].n \in Nat
          BY <3>2, <4>1, MessageFacts, RelayAssumption DEF ReadersFit
        <5>2. Past(c, msgs[c][1])
          BY <2>4 DEF QueueFits
        <5> QED BY <5>1, <5>2 DEF Past
      <4>3. PICK m \in Message : m = msgs[c][1] /\ Past(c, m)
        BY <2>4, <4>1 DEF QueueFits
      <4>4. ASSUME NEW i \in DOMAIN msgs'[c] PROVE Before(msgs[c][1], msgs'[c][i])
        <5>1. i + 1 \in DOMAIN msgs[c] /\ msgs'[c][i] = msgs[c][i + 1] /\ 1 < i + 1
          OBVIOUS
        <5> QED BY <2>4, <5>1 DEF QueueFits
      <4>5. Past(c, outgoing[c])'
        <5>1. Past(c, m)'
          BY <4>3
        <5> QED BY <4>1, <4>3, <5>1 DEF Past
      <4> QED BY <4>1, <4>2, <4>4, <4>5 DEF HeldFits
    <3> QED BY <3>1, <3>2
  <2>7. InboxFits(c)'
    <3>1. writer'[c] = "write" => outgoing'[c] = msgs[c][1]
      BY <2>1 DEF Take, RelayTypeOK
    <3> QED BY <2>1, <2>4, <3>1 DEF InboxFits
  <2> QED BY <2>5, <2>6, <2>7 DEF LineFits
<1> QED BY <1>3, <1>4 DEF StreamsFit

\* Writing to a peer adds at most one entry: the message that was held, or an open frame.
LEMMA DeliverStep ==
  ASSUME RelayTypeOK, ReadersFit, StreamsFit, NEW c \in Conns, NEW e \in Entry,
         Deliver(c, e), UNCHANGED <<read, todo, msgs>>,
         \A l \in Conns : writer'[l] = "write" => writer[l] = "write" /\ outgoing'[l] = outgoing[l],
         e.via = "relay" => writer[c] = "write" /\ writer'[c] # "write" /\ e.m = outgoing[c]
  PROVE  StreamsFit'
<1>1. \A d \in Drivers : read'[d] \in Nat /\ read'[d] = read[d] /\ todo'[d] = todo[d]
  BY RelayAssumption DEF RelayTypeOK, Conns
<1>2. ASSUME NEW l \in Conns, inbox'[l] = inbox[l] PROVE LineFits(l)'
  BY <1>1, <1>2, LineKept DEF StreamsFit
<1>3. CASE inbox' = inbox
  BY <1>2, <1>3 DEF StreamsFit
<1>4. CASE inbox' = [inbox EXCEPT ![c] = Append(@, e)]
  <2>1. /\ inbox'[c] = Append(inbox[c], e) /\ inbox[c] \in Seq(Entry)
        /\ \A l \in Conns : l # c => inbox'[l] = inbox[l]
    BY <1>4 DEF RelayTypeOK
  <2>2. /\ DOMAIN inbox'[c] = 1 .. Len(inbox[c]) + 1 /\ DOMAIN inbox[c] = 1 .. Len(inbox[c])
        /\ Len(inbox[c]) \in Nat
        /\ \A k \in DOMAIN inbox[c] : inbox'[c][k] = inbox[c][k]
        /\ inbox'[c][Len(inbox[c]) + 1] = e
    BY <2>1
  <2>3. \A m \in Message : Past(c, m) => Past(c, m)'
    <3> SUFFICES ASSUME NEW m \in Message, Past(c, m) PROVE Past(c, m)'
      OBVIOUS
    <3>1. m.src \in Drivers
      BY MessageFacts
    <3> QED BY <1>1, <3>1, PastKept
  <2>4. QueueFits(c) /\ HeldFits(c) /\ InboxFits(c)
    BY DEF StreamsFit, LineFits
  <2> USE LineTypes, <2>2, <2>3 DEF Before
  <2>5. QueueFits(c)'
    BY <2>4 DEF QueueFits
  <2>6. HeldFits(c)'
    BY <2>4 DEF HeldFits
  <2>7. InboxFits(c)'
    <3>1. ASSUME e.via = "relay"
          PROVE  /\ Past(c, e.m)' /\ e.m.src # c
                 /\ \A i \in DOMAIN msgs'[c] : Before(e.m, msgs'[c][i])
                 /\ \A k \in DOMAIN inbox[c] : inbox[c][k].via = "relay" => Before(inbox[c][k].m, e.m)
      BY <2>4, <3>1 DEF HeldFits, InboxFits
    <3>2. ASSUME NEW k \in DOMAIN inbox[c], inbox[c][k].via = "relay"
          PROVE  /\ Past(c, inbox[c][k].m)' /\ inbox[c][k].m.src # c
                 /\ \A i \in DOMAIN msgs'[c] : Before(inbox[c][k].m, msgs'[c][i])
                 /\ writer'[c] = "write" => Before(inbox[c][k].m, outgoing'[c])
                 /\ \A j \in DOMAIN inbox[c] :
                      inbox[c][j].via = "relay" /\ k < j => Before(inbox[c][k].m, inbox[c][j].m)
      BY <2>4, <3>2 DEF InboxFits
    <3> SUFFICES ASSUME NEW k \in DOMAIN inbox'[c], inbox'[c][k].via = "relay"
                 PROVE  /\ Past(c, inbox[c][k].m)' /\ inbox'[c][k].m.src # c
                        /\ \A i \in DOMAIN msgs'[c] : Before(inbox'[c][k].m, msgs'[c][i])
                        /\ writer'[c] = "write" => Before(inbox'[c][k].m, outgoing'[c])
                        /\ \A j \in DOMAIN inbox'[c] :
                             inbox'[c][j].via = "relay" /\ k < j
                               => Before(inbox'[c][k].m, inbox'[c][j].m)
      BY DEF InboxFits
    <3>3. CASE k = Len(inbox[c]) + 1
      <4>1. inbox'[c][k] = e
        BY <3>3
      <4>2. Past(c, inbox[c][k].m)'
        BY <3>1, <4>1 DEF Past
      <4> QED BY <3>1, <3>3, <4>1, <4>2
    <3>4. CASE k \in DOMAIN inbox[c]
      <4>1. inbox'[c][k] = inbox[c][k]
        BY <3>4
      <4>2. Past(c, inbox[c][k].m)'
        BY <3>2, <3>4, <4>1 DEF Past
      <4>3. ASSUME NEW j \in DOMAIN inbox'[c], inbox'[c][j].via = "relay", k < j
            PROVE  Before(inbox'[c][k].m, inbox'[c][j].m)
        <5>1. CASE j \in DOMAIN inbox[c]
          BY <3>2, <3>4, <4>1, <4>3, <5>1
        <5>2. CASE j = Len(inbox[c]) + 1
          BY <3>1, <3>4, <4>1, <4>3, <5>2
        <5> QED BY <5>1, <5>2
      <4> QED BY <3>2, <3>4, <4>1, <4>2, <4>3
    <3> QED BY <3>3, <3>4
  <2> QED BY <1>2, <2>1, <2>5, <2>6, <2>7 DEF StreamsFit, LineFits
<1> QED BY <1>3, <1>4 DEF Deliver

LEMMA StreamsStep == ASSUME RelayTypeOK, ReadersFit, StreamsFit, RelayNext PROVE StreamsFit'
<1> USE DEF connVars, sendVars, openVars
<1>1. ASSUME \A d \in Drivers : /\ read'[d] \in Nat /\ read'[d] >= read[d]
                                /\ todo'[d] \subseteq todo[d] \/ read'[d] > read[d],
             UNCHANGED <<msgs, inbox>>,
             \A l \in Conns : writer'[l] = "write"
                                => writer[l] = "write" /\ outgoing'[l] = outgoing[l]
      PROVE  StreamsFit'
  BY <1>1, LineKept DEF StreamsFit
<1>2. \A d \in Drivers : read[d] \in Nat /\ d \in Conns
  BY RelayAssumption DEF RelayTypeOK, Conns
<1>3. ASSUME NEW c \in Conns, Add(c) PROVE StreamsFit'
  <2>1. \A l \in Conns : writer'[l] = "write" => writer[l] = "write"
    BY <1>3 DEF Add, RelayTypeOK
  <2> QED BY <1>1, <1>2, <1>3, <2>1 DEF Add
<1>4. ASSUME NEW c \in Conns, Leave(c) \/ Stall(c) \/ Relayed(c) \/ ReadEnd(c)
      PROVE  StreamsFit'
  BY <1>1, <1>2, <1>4 DEF Leave, Stall, Relayed, ReadEnd, remove
<1>5. ASSUME NEW c \in Conns, Authorize(c) PROVE StreamsFit'
  <2>1. read[c] = 0
    BY <1>5 DEF Authorize, ReadersFit
  <2>2. \A d \in Drivers : /\ read'[d] \in Nat /\ read'[d] >= read[d]
                           /\ todo'[d] \subseteq todo[d]
    BY <1>2, <1>5, <2>1 DEF Authorize, RelayTypeOK
  <2> QED BY <1>1, <1>5, <2>2 DEF Authorize
<1>6. ASSUME NEW c \in Conns, ReadMessage(c) PROVE StreamsFit'
  <2>1. ASSUME NEW d \in Drivers
        PROVE  /\ read'[d] \in Nat /\ read'[d] >= read[d]
               /\ todo'[d] \subseteq todo[d] \/ read'[d] > read[d]
    BY <1>2, <1>6 DEF ReadMessage, RelayTypeOK
  <2> QED BY <1>1, <1>6, <2>1 DEF ReadMessage
<1>7. ASSUME NEW c \in Conns, NEW l \in Conns, Msg(c, l) PROVE StreamsFit'
  BY <1>7, MsgStep
<1>8. ASSUME NEW c \in Conns, Take(c) PROVE StreamsFit'
  BY <1>8, TakeStep
<1>9. ASSUME NEW c \in Conns, Write(c) PROVE StreamsFit'
  <2> DEFINE e == [m |-> outgoing[c], via |-> "relay"]
  <2>1. e \in Entry /\ e.via = "relay" /\ e.m = outgoing[c]
    BY <1>9, MessageFacts DEF Write, ReadersFit
  <2>2. /\ Deliver(c, e) /\ UNCHANGED <<read, todo, msgs>>
        /\ writer[c] = "write" /\ writer'[c] # "write"
        /\ \A l \in Conns : writer'[l] = "write" => writer[l] = "write" /\ outgoing'[l] = outgoing[l]
    BY <1>9 DEF Write, RelayTypeOK
  <2> HIDE DEF e
  <2> QED BY <2>1, <2>2, DeliverStep
<1>10. ASSUME NEW c \in Conns, WriteFails(c) \/ WriteEnd(c) PROVE StreamsFit'
  <2>1. \A l \in Conns : writer'[l] = "write" => writer[l] = "write" /\ outgoing'[l] = outgoing[l]
    BY <1>10 DEF WriteFails, WriteEnd, RelayTypeOK
  <2>2. UNCHANGED <<read, todo, msgs, inbox>>
    BY <1>10 DEF WriteFails, WriteEnd
  <2> QED BY <1>1, <1>2, <2>1, <2>2
<1>11. CASE WriteOpen
  <2> DEFINE e == [m |-> opens, via |-> "open"]
  <2>1. e \in Entry /\ e.via # "relay" /\ newc \in Conns
    BY <1>11, MessageFacts DEF WriteOpen, ReadersFit, RelayTypeOK
  <2>2. Deliver(newc, e) /\ UNCHANGED <<read, todo, msgs, writer, outgoing>>
    BY <1>11 DEF WriteOpen
  <2> HIDE DEF e
  <2> QED BY <2>1, <2>2, DeliverStep
<1>12. CASE TakeConn \/ Panic \/ FrameStep \/ OpenStep
  BY <1>1, <1>2, <1>12
  DEF TakeConn, Panic, FrameStep, FramerTake, FramerPush, OpenStep, OnMessage, StoreOpen
<1> QED BY <1>3, <1>4, <1>5, <1>6, <1>7, <1>8, <1>9, <1>10, <1>11, <1>12
        DEF RelayNext, NewStep, ReadStep, WriteStep
-----------------------------------------------------------------------------
LEMMA StreamsInit == RelayInit => StreamsFit
<1> SUFFICES ASSUME RelayInit, NEW l \in Conns PROVE LineFits(l)
  BY DEF StreamsFit
<1>1. msgs[l] = <<>> /\ inbox[l] = <<>> /\ writer[l] = "off"
  BY DEF RelayInit
<1> QED BY <1>1 DEF LineFits, QueueFits, HeldFits, InboxFits

\* A step in which nothing changes keeps the invariant.
LEMMA Stutter == IInv /\ UNCHANGED rvars => IInv'
  BY DEF IInv, RelayTypeOK, ReadersFit, StreamsFit, LineFits, QueueFits, HeldFits, InboxFits, Past,
         Before, rvars, connVars, sendVars, openVars

LEMMA Invariance == RelaySpec => []IInv
<1>1. RelayInit => IInv
  BY TypeInit, StreamsInit DEF IInv
<1>2. IInv /\ [RelayNext]_rvars => IInv'
  BY TypeStep, ReadersStep, StreamsStep, Stutter DEF IInv
<1> QED BY <1>1, <1>2, PTL DEF RelaySpec

\* Every peer gets the streams of others, each in its driver's order and nothing twice, whatever
\* it misses and however the goroutines are scheduled; and no driver gets its own.
THEOREM StreamsAlwaysKept == RelaySpec => []StreamsKept
<1>1. IInv => StreamsKept
  <2> SUFFICES ASSUME IInv PROVE InOrder /\ NoEcho
    BY DEF IInv, StreamsKept
  <2>1. ASSUME NEW c \in Conns PROVE InboxFits(c)
    BY DEF IInv, StreamsFit, LineFits
  <2>2. InOrder
    BY <2>1 DEF InOrder, InboxFits, Before
  <2>3. NoEcho
    BY <2>1 DEF NoEcho, InboxFits, Conns
  <2> QED BY <2>2, <2>3
<1> QED BY <1>1, Invariance, PTL
-----------------------------------------------------------------------------
(***************************************************************************)
(* Who wins a round: of ChatVotes, where the winner is a                   *)
(* pointer into occurrences, and of TowerVotes, where it is a struct that  *)
(* is copied a field at a time.  First, that no vote of long ago wins one: *)
(* what is in the lead was being added in this round or in the last, and   *)
(* in this one once the lead has been cleared.  Then, that the winner has  *)
(* the most votes, if nothing was being added while he was taken: every    *)
(* vote is counted, in one place, and the lead follows the counts.         *)
(***************************************************************************)

-----------------------------------------------------------------------------
(* ChatVotes *)

\* What a message may be once it is mapped, and an occurrence of one.
Texts == Said \cup {AnyOrder(m) : m \in Said}
Occurrences == [msg : Texts, count : Nat]

Finding == {"append", "count", "compare"}

\* The list and Add's copy of it hold pointers to occurrences that there are; so do max and what
\* was read of it.  An occurrence that Add has found or made is one of its message.
PointersHold ==
  /\ occs \in Seq(Occurrences)
  /\ list \in Seq(DOMAIN occs) /\ walk \in Seq(DOMAIN occs) /\ at \in Nat
  /\ max \in 0 .. Len(occs) /\ got \in 0 .. Len(occs)
  /\ adding = "idle" => walk = <<>> /\ ~own
  /\ adding # "idle" => msg \in Texts
  /\ adding = "find" => at # 0
  /\ adding \in Finding => occ \in DOMAIN occs /\ occs[occ].msg = msg

\* What is in the lead was being added since the round before this one, and once the lead has
\* been cleared, in this one.
LeadRecent ==
  /\ adding # "idle" => msg \in newer
  /\ {MsgOf(max), MsgOf(got)} \subseteq {<<>>} \cup older \cup newer
  /\ asking = "list" => MsgOf(max) \in {<<>>} \cup newer

\* What pointers point to was being added in this round, or an append has kept it.
Lasting(q) == \A i \in DOMAIN q : MsgOf(q[i]) \in newer \cup lasting

\* So it is with the list, and with what an append is about to make of it.
ListLasts == Lasting(list) /\ (adding = "append" => Lasting(walk))

\* The message of an Add is one of those that may be.
LEMMA TextsMapped == \A m \in Said : Mapped(m) \in Texts
BY DEF Mapped, Texts

\* Nothing is in the lead at first.
LEMMA StartsRecent == Init => PointersHold /\ LeadRecent /\ ListLasts
<1> SUFFICES ASSUME Init PROVE PointersHold /\ LeadRecent /\ ListLasts
  OBVIOUS
<1>1. \A S : <<>> \in Seq(S)
  BY EmptySeq
<1>2. Len(<<>>) = 0
  OBVIOUS
<1>3. ListLasts
  BY DEF Init, Aggregator, ListLasts, Lasting
<1> QED BY <1>1, <1>2, <1>3 DEF Init, Aggregator, PointersHold, LeadRecent, MsgOf, Finding

\* A list keeps its elements' kind when there are more of that kind.
LEMMA ListsGrow ==
  ASSUME NEW n \in Nat, NEW k \in Nat, n <= k, NEW q \in Seq(1 .. n) PROVE q \in Seq(1 .. k)
<1>1. 1 .. n \subseteq 1 .. k
  OBVIOUS
<1> QED BY <1>1, SeqMonotonic

\* Every reordering of a list of pointers is one.
LEMMA OrdersOfPointers ==
  ASSUME NEW D, NEW q \in Seq(D), NEW s \in Orders(q) PROVE s \in Seq(D)
<1>1. PICK p \in Bijection(DOMAIN q, DOMAIN q) : s = [i \in DOMAIN q |-> q[p[i]]]
  BY DEF Orders
<1>2. p \in [DOMAIN q -> DOMAIN q]
  BY <1>1 DEF Bijection, Injection, Surjection
<1>3. DOMAIN q = 1 .. Len(q) /\ Len(q) \in Nat
  BY LenProperties
<1>4. \A i \in 1 .. Len(q) : q[p[i]] \in D
  BY <1>2, <1>3, ElementOfSeq
<1>5. s = [i \in 1 .. Len(q) |-> q[p[i]]]
  BY <1>1, <1>3
<1> QED BY <1>3, <1>4, <1>5, IsASeq

\* A step of the chat or of its user keeps the pointers.
LEMMA PointersKept == PointersHold /\ [Next]_vars => PointersHold'
<1> SUFFICES ASSUME PointersHold, [Next]_vars PROVE PointersHold'
  OBVIOUS
<1> USE DEF PointersHold, Finding
<1>0. \A S : <<>> \in Seq(S)
  BY EmptySeq
<1>1. DOMAIN occs = 1 .. Len(occs) /\ Len(occs) \in Nat
  BY LenProperties
<1>2. ASSUME NEW m \in Said, Hear(m) PROVE PointersHold'
  <2>1. Mapped(m) \in Texts
    BY TextsMapped
  <2>2. UNCHANGED <<occs, list, max, got, occ>>
    BY <1>2 DEF Hear, heap
  <2>3. CASE Allowed(Mapped(m))
    <3>1. adding' = "find" /\ msg' = Mapped(m) /\ at' = 1 /\ walk' = list
      BY <1>2, <2>3 DEF Hear
    <3> HIDE DEF Finding
    <3> QED BY <2>1, <2>2, <3>1 DEF Finding
  <2>4. CASE ~Allowed(Mapped(m))
    <3>1. UNCHANGED <<adding, msg, at, walk, own>>
      BY <1>2, <2>4 DEF Hear
    <3> QED BY <2>2, <3>1
  <2> QED BY <2>3, <2>4
<1>3. CASE Find
  <2>1. CASE at <= Len(walk) /\ Found(walk[at]) /\ adding' = "count" /\ occ' = walk[at]
             /\ UNCHANGED <<at, walk, own, occs>>
    <3>1. at \in 1 .. Len(walk)
      BY <1>3, <2>1, LenProperties DEF Find
    <3>2. walk[at] \in DOMAIN occs
      BY <3>1, ElementOfSeq
    <3> QED BY <1>3, <2>1, <3>2 DEF Find, Found
  <2>2. CASE at <= Len(walk) /\ ~Found(walk[at]) /\ at' = at + 1
             /\ UNCHANGED <<adding, occ, walk, own, occs>>
    BY <1>3, <2>2 DEF Find
  <2>3. CASE /\ occs' = Append(occs, [msg |-> msg, count |-> 0]) /\ occ' = Len(occs')
             /\ walk' = list /\ adding' = "append" /\ UNCHANGED at
    <3>1. [msg |-> msg, count |-> 0] \in Occurrences
      BY <1>3 DEF Find, Occurrences
    <3>2. /\ occs' \in Seq(Occurrences) /\ Len(occs') = Len(occs) + 1
          /\ occs'[Len(occs')] = [msg |-> msg, count |-> 0] /\ DOMAIN occs' = 1 .. Len(occs')
      BY <2>3, <3>1, AppendProperties, LenProperties
    <3>3. \A q \in Seq(DOMAIN occs) : q \in Seq(DOMAIN occs')
      BY <1>1, <3>2, ListsGrow
    <3> QED BY <1>1, <1>3, <2>3, <3>2, <3>3 DEF Find
  <2> QED BY <1>3, <2>1, <2>2, <2>3 DEF Find
<1>4. CASE AddNew
  <2>1. list' \in Seq(DOMAIN occs)
    BY <1>4, AppendProperties DEF AddNew
  <2> QED BY <1>4, <2>1 DEF AddNew
<1>5. CASE Count
  <2>1. occs[occ] \in Occurrences /\ DOMAIN occs' = DOMAIN occs
    BY <1>1, <1>5, ElementOfSeq DEF Count
  <2>2. [occs[occ] EXCEPT !.count = @ + 1] \in Occurrences
    BY <2>1 DEF Occurrences
  <2>3. occs' \in Seq(Occurrences) /\ Len(occs') = Len(occs)
    BY <1>1, <1>5, <2>2, ExceptSeq, LenProperties DEF Count
  <2>4. occs'[occ].msg = msg
    BY <1>5, <2>1 DEF Count, Occurrences
  <2> QED BY <1>5, <2>1, <2>3, <2>4 DEF Count
<1>6. CASE Compare
  BY <1>0, <1>1, <1>6 DEF Compare
<1>7. CASE ReadMax
  BY <1>7 DEF ReadMax, heap, add
<1>8. CASE ResetMax
  BY <1>1, <1>8 DEF ResetMax, add
<1>9. CASE ResetList
  <2>1. CASE occs' = occs
    BY <1>0, <1>1, <1>9, <2>1 DEF ResetList
  <2>2. CASE adding = "idle" /\ max = 0 /\ occs' = <<>>
    <3>1. Len(<<>>) = 0 /\ occs' \in Seq(Occurrences)
      BY <1>0, <2>2
    <3> QED BY <1>0, <1>9, <2>2, <3>1 DEF ResetList
  <2> QED BY <1>9, <2>1, <2>2 DEF ResetList
<1>10. CASE Peak
  <2>1. PICK s \in Orders(list) : list' = s /\ walk' = (IF own THEN s ELSE walk)
    BY <1>10 DEF Peak
  <2>2. s \in Seq(DOMAIN occs)
    BY <2>1, OrdersOfPointers
  <2>3. adding = "idle" => walk' = <<>>
    BY <2>1
  <2> QED BY <1>10, <2>1, <2>2, <2>3 DEF Peak
<1>11. CASE Play \/ SendKey \/ Begin
  BY <1>11 DEF Play, SendKey, Begin, heap, add
<1>12. CASE UNCHANGED vars
  BY <1>12 DEF vars, heap, add
<1> QED BY <1>2, <1>3, <1>4, <1>5, <1>6, <1>7, <1>8, <1>9, <1>10, <1>11, <1>12 DEF Next, Adds, Resets
\* What a pointer points to keeps its message while Add looks for one, makes one, or counts.
LEMMA MessagesStay ==
  ASSUME PointersHold, Find \/ Count, NEW o \in 0 .. Len(occs)
  PROVE  MsgOf(o)' = MsgOf(o)
<1>1. DOMAIN occs = 1 .. Len(occs) /\ Len(occs) \in Nat
  BY LenProperties DEF PointersHold
<1>2. CASE o = 0
  BY <1>2 DEF MsgOf
<1>3. CASE o # 0 /\ UNCHANGED occs
  BY <1>3 DEF MsgOf
<1>4. CASE o # 0 /\ adding = "find" /\ occs' = Append(occs, [msg |-> msg, count |-> 0])
  <2>1. [msg |-> msg, count |-> 0] \in Occurrences
    BY <1>4 DEF PointersHold, Occurrences
  <2>2. occs'[o] = occs[o]
    BY <1>4, <1>1, <2>1, AppendProperties DEF PointersHold
  <2> QED BY <1>4, <2>2 DEF MsgOf
<1>5. CASE o # 0 /\ Count
  <2>1. o \in DOMAIN occs /\ occs[o] \in Occurrences
    BY <1>1, <1>5, ElementOfSeq DEF PointersHold
  <2>2. occs'[o].msg = occs[o].msg
    BY <1>5, <2>1 DEF Count, Occurrences
  <2> QED BY <1>5, <2>2 DEF MsgOf
<1> QED BY <1>2, <1>3, <1>4, <1>5 DEF Find

\* A step of the chat or of its user keeps the lead recent.
LEMMA RecentKept == PointersHold /\ LeadRecent /\ [Next]_vars => LeadRecent'
<1> SUFFICES ASSUME PointersHold, LeadRecent, [Next]_vars PROVE LeadRecent'
  OBVIOUS
<1>0. max \in 0 .. Len(occs) /\ got \in 0 .. Len(occs)
  BY DEF PointersHold
<1>1. ASSUME UNCHANGED <<occs, max, got>>
      PROVE  UNCHANGED <<MsgOf(max), MsgOf(got)>>
  BY <1>1 DEF MsgOf
<1>2. ASSUME NEW m \in Said, Hear(m) PROVE LeadRecent'
  <2>1. UNCHANGED <<MsgOf(max), MsgOf(got), asking, older>> /\ newer \subseteq newer'
    BY <1>1, <1>2 DEF Hear, heap
  <2>2. adding' # "idle" => msg' \in newer'
    BY <1>2 DEF Hear, LeadRecent
  <2> QED BY <2>1, <2>2 DEF LeadRecent
<1>3. CASE Find \/ Count
  <2>1. UNCHANGED <<max, got, asking, older, newer, msg>> /\ adding # "idle"
    BY <1>3 DEF Find, Count, hist
  <2>2. UNCHANGED <<MsgOf(max), MsgOf(got)>>
    <3>1. MsgOf(max)' = MsgOf(max)
      <4>1. MsgOf(max)' = (IF max = 0 THEN <<>> ELSE occs'[max].msg)
        BY <2>1 DEF MsgOf
      <4>2. \A o \in 0 .. Len(occs) : (IF o = 0 THEN <<>> ELSE occs'[o].msg) = MsgOf(o)
        BY <1>3, MessagesStay DEF MsgOf
      <4> QED BY <1>0, <4>1, <4>2
    <3>2. MsgOf(got)' = MsgOf(got)
      <4>1. MsgOf(got)' = (IF got = 0 THEN <<>> ELSE occs'[got].msg)
        BY <2>1 DEF MsgOf
      <4>2. \A o \in 0 .. Len(occs) : (IF o = 0 THEN <<>> ELSE occs'[o].msg) = MsgOf(o)
        BY <1>3, MessagesStay DEF MsgOf
      <4> QED BY <1>0, <4>1, <4>2
    <3> QED BY <3>1, <3>2
  <2> QED BY <2>1, <2>2 DEF LeadRecent
<1>4. CASE AddNew
  <2>1. UNCHANGED <<MsgOf(max), MsgOf(got), asking, older, newer, msg>> /\ adding # "idle"
    BY <1>1, <1>4 DEF AddNew, hist
  <2> QED BY <2>1 DEF LeadRecent
<1>5. CASE Compare
  <2>1. adding' = "idle" /\ UNCHANGED <<occs, got, asking, older, newer>>
    BY <1>5 DEF Compare, hist
  <2>2. MsgOf(got)' = MsgOf(got)
    BY <2>1 DEF MsgOf
  <2>3. occ \in 1 .. Len(occs) /\ occs[occ].msg = msg
    BY <1>5, LenProperties DEF Compare, PointersHold, Finding
  <2>4. MsgOf(max)' \in {MsgOf(max), msg}
    BY <1>5, <2>1, <2>3 DEF Compare, MsgOf
  <2>5. msg \in newer
    BY <1>5 DEF Compare, LeadRecent
  <2> QED BY <2>1, <2>2, <2>4, <2>5 DEF LeadRecent
<1>6. CASE ReadMax
  <2>1. UNCHANGED <<occs, max, adding, older, newer, msg>> /\ got' = max /\ asking' = "max"
    BY <1>6 DEF ReadMax, heap, add
  <2>2. MsgOf(max)' = MsgOf(max) /\ MsgOf(got)' = MsgOf(max)
    BY <2>1 DEF MsgOf
  <2> QED BY <2>1, <2>2 DEF LeadRecent
<1>7. CASE ResetMax
  <2>1. UNCHANGED <<occs, got, adding, older, newer, msg>> /\ max' = 0
    BY <1>7 DEF ResetMax, add, hist
  <2>2. MsgOf(max)' = <<>> /\ MsgOf(got)' = MsgOf(got)
    BY <2>1 DEF MsgOf
  <2> QED BY <2>1, <2>2 DEF LeadRecent
<1>8. CASE ResetList
  <2>1. /\ UNCHANGED <<max, adding, msg>> /\ got' = 0 /\ asking = "list" /\ asking' = "select"
        /\ older' = newer /\ newer' = (IF adding = "idle" THEN {} ELSE {msg})
        /\ occs' = occs \/ max = 0
    BY <1>8 DEF ResetList
  <2>2. MsgOf(max)' = MsgOf(max) /\ MsgOf(got)' = <<>>
    BY <2>1 DEF MsgOf
  <2> QED BY <2>1, <2>2 DEF LeadRecent
<1>9. CASE Peak \/ Play \/ SendKey \/ Begin
  <2>1. UNCHANGED <<MsgOf(max), MsgOf(got), adding, older, newer, msg>>
    BY <1>1, <1>9 DEF Peak, Play, SendKey, Begin, heap, add, hist
  <2>2. asking' = "list" => asking = "list"
    BY <1>9 DEF Peak, Play, SendKey, Begin
  <2> QED BY <2>1, <2>2 DEF LeadRecent
<1>10. CASE UNCHANGED vars
  <2>1. UNCHANGED <<MsgOf(max), MsgOf(got), asking, adding, older, newer, msg>>
    BY <1>1, <1>10 DEF vars, heap, add, hist
  <2> QED BY <2>1 DEF LeadRecent
<1> QED BY <1>2, <1>3, <1>4, <1>5, <1>6, <1>7, <1>8, <1>9, <1>10 DEF Next, Adds, Resets

\* What Peak shows is what was in the list.
LEMMA OrdersLast ==
  ASSUME NEW q, NEW s \in Orders(q), Lasting(q) PROVE Lasting(s)
<1>1. PICK p \in Bijection(DOMAIN q, DOMAIN q) : s = [i \in DOMAIN q |-> q[p[i]]]
  BY DEF Orders
<1>2. p \in [DOMAIN q -> DOMAIN q]
  BY <1>1 DEF Bijection, Injection, Surjection
<1> QED BY <1>1, <1>2 DEF Lasting

\* A step of the chat or of its user keeps the list's votes of this round, unless an append keeps
\* others.
LEMMA ListLastsKept == PointersHold /\ LeadRecent /\ ListLasts /\ [Next]_vars => ListLasts'
<1> SUFFICES ASSUME PointersHold, LeadRecent, ListLasts, [Next]_vars PROVE ListLasts'
  OBVIOUS
<1>0. /\ list \in Seq(DOMAIN occs) /\ walk \in Seq(DOMAIN occs)
      /\ DOMAIN occs = 1 .. Len(occs) /\ Len(occs) \in Nat
      /\ \A i \in DOMAIN list : list[i] \in DOMAIN occs
      /\ \A i \in DOMAIN walk : walk[i] \in DOMAIN occs
  <2>1. occs \in Seq(Occurrences) /\ list \in Seq(DOMAIN occs) /\ walk \in Seq(DOMAIN occs)
    BY DEF PointersHold
  <2> QED BY <2>1, LenProperties, ElementOfSeq
\* Steps that leave the lists alone.
<1>1. ASSUME UNCHANGED <<list, lasting>>, newer \subseteq newer',
             \A o \in DOMAIN occs : MsgOf(o)' = MsgOf(o),
             adding' = "append" => (adding = "append" /\ walk' = walk) \/ walk' = list
      PROVE  ListLasts'
  <2>1. Lasting(list)'
    BY <1>0, <1>1 DEF ListLasts, Lasting
  <2>2. ASSUME adding' = "append" PROVE Lasting(walk)'
    <3>1. CASE adding = "append" /\ walk' = walk
      BY <1>0, <1>1, <3>1 DEF ListLasts, Lasting
    <3>2. CASE walk' = list
      BY <1>0, <1>1, <3>2 DEF ListLasts, Lasting
    <3> QED BY <1>1, <2>2, <3>1, <3>2
  <2> QED BY <2>1, <2>2 DEF ListLasts
<1>2. occs' = occs => \A o \in DOMAIN occs : MsgOf(o)' = MsgOf(o)
  BY DEF MsgOf
<1>3. ASSUME NEW m \in Said, Hear(m) PROVE ListLasts'
  <2>1. /\ UNCHANGED <<occs, list, lasting>> /\ newer \subseteq newer'
        /\ adding' = "append" => adding = "append" /\ walk' = walk
    BY <1>3 DEF Hear, heap
  <2> QED BY <1>1, <1>2, <2>1
<1>4. CASE Find \/ Count
  <2>1. /\ UNCHANGED <<list, newer, lasting>>
        /\ adding' = "append" => walk' = list
    BY <1>4 DEF Find, Count, hist
  <2>2. \A o \in DOMAIN occs : MsgOf(o)' = MsgOf(o)
    <3> TAKE o \in DOMAIN occs
    <3>1. o \in 0 .. Len(occs)
      BY <1>0
    <3> QED BY <1>4, <3>1, MessagesStay
  <2> QED BY <1>1, <2>1, <2>2
<1>5. CASE AddNew
  <2>1. /\ adding = "append" /\ adding' = "count" /\ list' = Append(walk, occ)
        /\ UNCHANGED <<occs, newer, lasting>>
    BY <1>5 DEF AddNew, hist
  <2>2. occ \in DOMAIN occs /\ occs[occ].msg = msg /\ msg \in newer
    BY <2>1 DEF PointersHold, LeadRecent, Finding
  <2>3. MsgOf(occ) \in newer
    BY <1>0, <2>2 DEF MsgOf
  <2>4. \A i \in DOMAIN list' : (i \in DOMAIN walk /\ list'[i] = walk[i]) \/ list'[i] = occ
    BY <1>0, <2>1, <2>2, AppendProperties, LenProperties
  <2>5. \A i \in DOMAIN list' : MsgOf(list'[i]) \in newer \cup lasting
    BY <2>1, <2>3, <2>4 DEF ListLasts, Lasting
  <2> QED BY <2>1, <2>5 DEF ListLasts, Lasting, MsgOf
<1>6. CASE Compare \/ ReadMax \/ ResetMax
  <2>1. /\ UNCHANGED <<occs, list, newer, lasting>>
        /\ adding' = "append" => adding = "append" /\ walk' = walk
    BY <1>6 DEF Compare, ReadMax, ResetMax, heap, add, hist
  <2> QED BY <1>1, <1>2, <2>1
<1>7. CASE ResetList
  <2>1. /\ list' = <<>> /\ lasting' = Lasts /\ UNCHANGED <<adding, walk>>
        /\ occs' = occs \/ adding = "idle"
    BY <1>7 DEF ResetList
  <2>2. Lasting(list)'
    BY <2>1 DEF Lasting
  <2>3. ASSUME adding = "append" PROVE Lasting(walk)'
    <3>1. occs' = occs /\ lasting' = lasting \cup newer
      BY <2>1, <2>3 DEF Lasts
    <3> QED BY <2>1, <2>3, <3>1 DEF ListLasts, Lasting, MsgOf
  <2> QED BY <2>1, <2>2, <2>3 DEF ListLasts
<1>8. CASE Peak
  <2>1. PICK s \in Orders(list) : list' = s /\ walk' = (IF own THEN s ELSE walk)
    BY <1>8 DEF Peak
  <2>2. UNCHANGED <<occs, adding, newer, lasting>>
    BY <1>8 DEF Peak
  <2>3. Lasting(s)
    BY OrdersLast DEF ListLasts
  <2> QED BY <2>1, <2>2, <2>3 DEF ListLasts, Lasting, MsgOf
<1>9. CASE Play \/ SendKey \/ Begin \/ UNCHANGED vars
  <2>1. UNCHANGED <<occs, list, adding, walk, newer, lasting>>
    BY <1>9 DEF Play, SendKey, Begin, vars, heap, add, hist
  <2> QED BY <1>1, <1>2, <2>1
<1> QED BY <1>3, <1>4, <1>5, <1>6, <1>7, <1>8, <1>9 DEF Next, Adds, Resets
-----------------------------------------------------------------------------
(* ChatVotes: what is counted *)

\* What the pointers point to.
LEMMA OccurrencesAre ==
  ASSUME PointersHold
  PROVE  /\ DOMAIN occs = 1 .. Len(occs) /\ Len(occs) \in Nat
         /\ \A o \in DOMAIN occs : occs[o] \in Occurrences /\ occs[o].count \in Nat
<1>1. occs \in Seq(Occurrences)
  BY DEF PointersHold
<1>2. DOMAIN occs = 1 .. Len(occs) /\ Len(occs) \in Nat
  BY <1>1, LenProperties
<1>3. \A o \in DOMAIN occs : occs[o] \in Occurrences
  BY <1>1, <1>2, ElementOfSeq
<1> QED BY <1>2, <1>3 DEF Occurrences

\* A message that is being added and has not been counted.
Pending == IF adding \in {"find", "append", "count"} THEN 1 ELSE 0

\* Messages are those of the user, and no count is larger than what was said.
VotesTyped ==
  /\ \A o \in DOMAIN occs : occs[o].msg \in Msgs /\ occs[o].count + Pending <= said
  /\ msg \in Msgs /\ curr \in Msgs /\ votes \in [Msgs -> Nat]
  /\ said \in 0 .. MaxVotes /\ Pending <= said
  /\ adding \in {"idle", "find", "append", "count", "compare"}
  /\ asking \in {"select", "max", "list", "keys"}

\* What is sent are letters of messages.
Letters == UNION {Range(m) : m \in Msgs}
KeysTyped ==
  /\ newlines \in 0 .. Newlines /\ last \in {0} \cup Letters
  /\ keys \in Seq(Letters) /\ (asking = "keys" => keys # <<>>)

\* A message is a sequence of letters.
LEMMA MessagesAreSequences == \A m \in Msgs : m \in Seq(Nat) /\ m \in Seq(Letters)
<1>1. \A m \in Seq(Nat) : AnyOrder(m) \in Seq(Nat)
  <2> TAKE m \in Seq(Nat)
  <2>1. CASE Len(m) = 2 /\ m[2] < m[1]
    <3>1. m[1] \in Nat /\ m[2] \in Nat
      BY <2>1, ElementOfSeq
    <3> QED BY <2>1, <3>1 DEF AnyOrder
  <2>2. CASE ~(Len(m) = 2 /\ m[2] < m[1])
    BY <2>2 DEF AnyOrder
  <2> QED BY <2>1, <2>2
<1>2. \A m \in Msgs : m \in Seq(Nat)
  <2>1. <<>> \in Seq(Nat)
    BY EmptySeq
  <2> QED BY <1>1, <2>1, ChatAssumption DEF Msgs, Mapped
<1>3. ASSUME NEW m \in Msgs PROVE m \in Seq(Letters)
  <2>1. /\ DOMAIN m = 1 .. Len(m) /\ Len(m) \in Nat
        /\ m = [i \in 1 .. Len(m) |-> m[i]]
    BY <1>2, <1>3, LenProperties, SeqDef
  <2>2. \A i \in 1 .. Len(m) : m[i] \in Letters
    BY <1>3, <2>1 DEF Letters, Range
  <2> QED BY <2>1, <2>2, IsASeq
<1> QED BY <1>2, <1>3

\* The user stays the same, and with it what messages there may be.
LEMMA MessagesStaySaid == [Next]_vars => Msgs' = Msgs /\ Letters' = Letters
<1>1. [Next]_vars => user' = user
  BY DEF Next, Adds, Resets, vars, Hear, Find, AddNew, Count, Compare, ReadMax, ResetMax, ResetList, Peak,
         Play, SendKey, Begin
<1> QED BY <1>1 DEF Msgs, Mapped, Letters

\* Nothing is counted at first.
LEMMA StartsTyped == Init => VotesTyped /\ KeysTyped
<1>1. <<>> \in Seq(Letters)
  BY EmptySeq
<1>2. <<>> \in Msgs
  BY DEF Msgs
<1> QED BY <1>1, <1>2, ChatAssumption DEF Init, Aggregator, VotesTyped, KeysTyped, Pending

\* A step of the chat or of its user keeps the counts.
LEMMA VotesTypedKept == PointersHold /\ VotesTyped /\ [Next]_vars => VotesTyped'
<1> SUFFICES ASSUME PointersHold, VotesTyped, [Next]_vars PROVE VotesTyped'
  OBVIOUS
<1>0. Msgs' = Msgs
  BY MessagesStaySaid
<1>1. /\ DOMAIN occs = 1 .. Len(occs) /\ Len(occs) \in Nat
      /\ \A o \in DOMAIN occs : occs[o] \in Occurrences /\ occs[o].count \in Nat
  BY OccurrencesAre
<1> USE DEF VotesTyped, Pending
<1>2. ASSUME NEW m \in Said, Hear(m) PROVE VotesTyped'
  <2>1. Mapped(m) \in Msgs
    BY DEF Msgs
  <2>2. UNCHANGED <<occs, curr, votes, asking>> /\ said' = said + 1 /\ said < MaxVotes /\ adding = "idle"
    BY <1>2 DEF Hear, heap
  <2>3. (adding' = "find" /\ msg' = Mapped(m)) \/ UNCHANGED <<adding, msg>>
    BY <1>2 DEF Hear
  <2> QED BY <1>0, <1>1, <2>1, <2>2, <2>3, ChatAssumption
<1>3. CASE Find
  <2>1. adding = "find" /\ UNCHANGED <<msg, curr, votes, said, asking>>
    BY <1>3 DEF Find, hist
  <2>2. CASE UNCHANGED occs /\ adding' \in {"find", "count"}
    BY <1>0, <2>1, <2>2
  <2>3. CASE occs' = Append(occs, [msg |-> msg, count |-> 0]) /\ adding' = "append"
    <3>1. [msg |-> msg, count |-> 0] \in Occurrences
      BY <2>1 DEF PointersHold, Occurrences
    <3>2. /\ DOMAIN occs' = 1 .. Len(occs) + 1 /\ \A o \in 1 .. Len(occs) : occs'[o] = occs[o]
          /\ occs'[Len(occs) + 1] = [msg |-> msg, count |-> 0]
      BY <2>3, <3>1, AppendProperties, LenProperties DEF PointersHold
    <3> QED BY <1>0, <1>1, <2>1, <2>3, <3>2
  <2> QED BY <1>3, <2>1, <2>2, <2>3 DEF Find
<1>4. CASE AddNew \/ Compare
  <2>1. UNCHANGED <<occs, curr, votes, said, asking>> /\ ((adding' = "count" /\ adding = "append") \/ adding' = "idle")
    BY <1>4 DEF AddNew, Compare, hist
  <2>2. msg' \in Msgs
    BY <1>4 DEF AddNew, Compare, Msgs
  <2> QED BY <1>0, <1>1, <2>1, <2>2
<1>5. CASE Count
  <2>1. /\ adding = "count" /\ adding' = "compare" /\ UNCHANGED <<msg, curr, said, asking>>
        /\ occs' = [occs EXCEPT ![occ].count = @ + 1]
        /\ votes' = [votes EXCEPT ![msg] = @ + 1]
    BY <1>5 DEF Count
  <2>2. occ \in DOMAIN occs /\ occs[occ].msg = msg
    BY <2>1 DEF PointersHold, Finding
  <2>3. /\ DOMAIN occs' = DOMAIN occs /\ \A o \in DOMAIN occs : o # occ => occs'[o] = occs[o]
        /\ occs'[occ].msg = occs[occ].msg /\ occs'[occ].count = occs[occ].count + 1
    BY <1>1, <2>1, <2>2 DEF Occurrences
  <2>4. votes' \in [Msgs -> Nat]
    BY <2>1
  <2> QED BY <1>0, <1>1, <2>1, <2>3, <2>4
<1>6. CASE ReadMax \/ ResetMax
  BY <1>0, <1>6 DEF ReadMax, ResetMax, heap, add, hist
<1>7. CASE ResetList
  <2>1. /\ UNCHANGED <<msg, said, adding>> /\ asking' = "select" /\ votes' = [m \in Msgs |-> 0]
        /\ curr' \in {MsgOf(got), curr} /\ (occs' = occs \/ (adding = "idle" /\ occs' = <<>>))
    BY <1>7 DEF ResetList, Returned
  <2>2. curr' \in Msgs
    <3>1. got \in 0 .. Len(occs)
      BY DEF PointersHold
    <3>2. MsgOf(got) \in Msgs
      <4>1. CASE got = 0
        BY <4>1 DEF MsgOf, Msgs
      <4>2. CASE got # 0
        BY <1>1, <3>1, <4>2 DEF MsgOf
      <4> QED BY <4>1, <4>2
    <3> QED BY <2>1, <3>2
  <2> QED BY <1>0, <2>1, <2>2
<1>8. CASE Peak
  <2>1. PICK s \in Orders(list) : list # <<>> /\ curr' = MsgOf(Head(s))
    BY <1>8 DEF Peak
  <2>2. UNCHANGED <<occs, msg, votes, said, adding, asking>>
    BY <1>8 DEF Peak
  <2>3. s \in Seq(DOMAIN occs) /\ Head(s) \in DOMAIN occs
    <3>1. s \in Seq(DOMAIN occs)
      BY OrdersOfPointers DEF PointersHold
    <3>2. DOMAIN s = DOMAIN list
      BY DEF Orders
    <3>3. DOMAIN list # {}
      <4>1. list \in Seq(DOMAIN occs) /\ list # <<>>
        BY <2>1 DEF PointersHold
      <4>2. \A S : \A q \in Seq(S) : q # <<>> => 1 \in DOMAIN q
        BY LenProperties, EmptySeq
      <4> QED BY <4>1, <4>2
    <3>4. s # <<>>
      BY <3>2, <3>3
    <3> QED BY <3>1, <3>4, HeadTailProperties
  <2>4. curr' \in Msgs
    BY <1>1, <2>1, <2>3 DEF MsgOf
  <2> QED BY <1>0, <2>2, <2>4
<1>9. CASE Play \/ SendKey \/ Begin
  BY <1>0, <1>9 DEF Play, SendKey, Begin, heap, add, hist
<1>10. CASE UNCHANGED vars
  BY <1>0, <1>10 DEF vars, heap, add, hist
<1> QED BY <1>2, <1>3, <1>4, <1>5, <1>6, <1>7, <1>8, <1>9, <1>10 DEF Next, Adds, Resets

\* A step keeps the keys.
LEMMA KeysTypedKept == VotesTyped /\ KeysTyped /\ [Next]_vars => KeysTyped'
<1> SUFFICES ASSUME VotesTyped, KeysTyped, [Next]_vars PROVE KeysTyped'
  OBVIOUS
<1>0. Letters' = Letters
  BY MessagesStaySaid
<1>1. CASE Play
  BY <1>0, <1>1, MessagesAreSequences DEF Play, KeysTyped, VotesTyped
<1>2. CASE SendKey
  <2>1. keys \in Seq(Letters) /\ keys # <<>>
    BY <1>2 DEF SendKey, KeysTyped
  <2>2. Head(keys) \in Letters /\ Tail(keys) \in Seq(Letters) /\ Len(Tail(keys)) = Len(keys) - 1
    BY <2>1, HeadTailProperties
  <2>3. Len(keys) # 1 => Tail(keys) # <<>>
    <3>1. Len(keys) \in Nat
      BY <2>1, LenProperties
    <3>2. Len(keys) # 1 => Len(Tail(keys)) # 0
      BY <2>2, <3>1
    <3> QED BY <2>2, <3>2, EmptySeq
  <2>4. /\ last' \in {last, Head(keys)} /\ keys' = Tail(keys) /\ UNCHANGED newlines
        /\ asking' = IF Len(keys) = 1 THEN "select" ELSE "keys"
    BY <1>2 DEF SendKey, Sent
  <2> QED BY <1>0, <2>2, <2>3, <2>4 DEF KeysTyped
<1>3. CASE Begin
  BY <1>0, <1>3, ChatAssumption DEF Begin, KeysTyped
<1>4. CASE ~(Play \/ SendKey \/ Begin)
  <2>1. UNCHANGED <<newlines, last, keys>> /\ (asking' = "keys" => asking = "keys")
    BY <1>4 DEF Next, Adds, Resets, vars, play, Hear, Find, AddNew, Count, Compare, ReadMax, ResetMax, ResetList, Peak
  <2> QED BY <1>0, <2>1 DEF KeysTyped
<1> QED BY <1>1, <1>2, <1>3, <1>4
-----------------------------------------------------------------------------
(* ChatVotes: who has the most *)

\* Whether an Add met a Reset is told of the Reset that is going on; if none did, nobody adds, and
\* nobody is made the leader again before the list is dropped.
Undisturbed ==
  /\ asking \notin {"max", "list"} => ~over
  /\ asking \in {"max", "list"} /\ ~over => adding = "idle"
  /\ asking = "list" /\ ~over => max = 0

\* Who leads the round: while it is ended, what Reset has read.
Leader == IF asking \in {"max", "list"} THEN got ELSE max

\* Every message that was voted for has one occurrence with its votes, and every occurrence stands in
\* the list once, but for one that is being appended.  Add has not overlooked any, and nobody
\* has more votes than the leader but the one that is being compared with him.
Tally ==
  /\ \A o, p \in DOMAIN occs : occs[o].msg = occs[p].msg => o = p
  /\ \A o \in DOMAIN occs : occs[o].count = votes[occs[o].msg]
  /\ \A o \in DOMAIN occs : occs[o].count > 0 \/ (adding \in {"append", "count"} /\ o = occ)
  /\ \A m \in Msgs : votes[m] > 0 => \E o \in DOMAIN occs : occs[o].msg = m
  /\ \A i, j \in DOMAIN list : list[i] = list[j] => i = j
  /\ \A o \in DOMAIN occs : (\E i \in DOMAIN list : list[i] = o) <=> ~(adding = "append" /\ o = occ)
  /\ adding \in {"find", "append"} => walk = list
  /\ adding = "find" => \A j \in DOMAIN list : j < at => occs[list[j]].msg # msg
  /\ \A o \in DOMAIN occs : occs[o].count <= CountOf(Leader) \/ (adding = "compare" /\ o = occ)

Tallied == ~raced /\ ~over => Tally

\* A step keeps what Undisturbed says.
LEMMA UndisturbedKept == Undisturbed /\ [Next]_vars => Undisturbed'
<1> SUFFICES ASSUME Undisturbed, [Next]_vars PROVE Undisturbed'
  OBVIOUS
<1> USE DEF Undisturbed
<1>1. ASSUME NEW m \in Said, Hear(m) PROVE Undisturbed'
  BY <1>1 DEF Hear, heap
<1>2. CASE Adds
  BY <1>2 DEF Adds, Find, AddNew, Count, Compare, hist
<1>3. CASE ReadMax \/ Resets
  BY <1>3 DEF ReadMax, Resets, ResetMax, ResetList, heap, add, hist
<1>4. CASE Peak \/ Play \/ SendKey \/ Begin
  BY <1>4 DEF Peak, Play, SendKey, Begin, heap, add, hist
<1>5. CASE UNCHANGED vars
  BY <1>5 DEF vars, heap, add, hist
<1> QED BY <1>1, <1>2, <1>3, <1>4, <1>5 DEF Next

\* What a step leaves alone when nothing of the tally changes.
Counted == <<occs, list, votes, raced>>

\* Nothing of it changes when a message is dropped, or is played.
LEMMA TallyStays ==
  ASSUME Tally, UNCHANGED <<Counted, adding, msg, walk, at, occ>>, Leader' = Leader, Msgs' = Msgs
  PROVE  Tally'
BY DEF Tally, Counted, CountOf

\* A list that is ordered anew holds the same, once each.
LEMMA OrdersHoldTheSame ==
  ASSUME NEW S, NEW q \in Seq(S), NEW s \in Orders(q)
  PROVE  /\ DOMAIN s = DOMAIN q
         /\ \A o : (\E i \in DOMAIN s : s[i] = o) <=> \E i \in DOMAIN q : q[i] = o
         /\ (\A i, j \in DOMAIN q : q[i] = q[j] => i = j) => \A i, j \in DOMAIN s : s[i] = s[j] => i = j
<1>1. PICK p \in Bijection(DOMAIN q, DOMAIN q) : s = [i \in DOMAIN q |-> q[p[i]]]
  BY DEF Orders
<1>2. /\ p \in [DOMAIN q -> DOMAIN q]
      /\ \A i, j \in DOMAIN q : p[i] = p[j] => i = j
      /\ \A j \in DOMAIN q : \E i \in DOMAIN q : p[i] = j
  BY <1>1 DEF Bijection, Injection, Surjection, IsInjective
<1>3. DOMAIN s = DOMAIN q /\ \A i \in DOMAIN q : s[i] = q[p[i]]
  BY <1>1
<1>4. ASSUME NEW o, NEW j \in DOMAIN q, q[j] = o PROVE \E i \in DOMAIN s : s[i] = o
  <2>1. PICK i \in DOMAIN q : p[i] = j
    BY <1>2
  <2> QED BY <1>3, <1>4, <2>1
<1>5. ASSUME NEW o, NEW i \in DOMAIN s, s[i] = o PROVE \E j \in DOMAIN q : q[j] = o
  BY <1>2, <1>3, <1>5
<1> QED BY <1>2, <1>3, <1>4, <1>5

\* Looking for a message, and making an occurrence of it, keeps the tally.
LEMMA FindTallies ==
  ASSUME PointersHold, VotesTyped, Tally, Find, asking \notin {"max", "list"}
  PROVE  Tally'
<1>0. /\ Msgs' = Msgs /\ Leader' = Leader /\ Leader \in 0 .. Len(occs)
      /\ UNCHANGED <<list, votes, msg, max, asking>> /\ adding = "find"
  BY MessagesStaySaid DEF Find, Next, Adds, hist, Leader, PointersHold
<1>1. /\ DOMAIN occs = 1 .. Len(occs) /\ Len(occs) \in Nat
      /\ \A o \in DOMAIN occs : occs[o] \in Occurrences /\ occs[o].count \in Nat
  BY OccurrencesAre
<1>2. /\ DOMAIN list = 1 .. Len(list) /\ Len(list) \in Nat /\ at \in Nat
      /\ \A i \in DOMAIN list : list[i] \in DOMAIN occs
  BY LenProperties, ElementOfSeq DEF PointersHold
<1>3. /\ \A o, p \in DOMAIN occs : occs[o].msg = occs[p].msg => o = p
      /\ \A o \in DOMAIN occs : occs[o].count = votes[occs[o].msg] /\ occs[o].count > 0
      /\ \A m \in Msgs : votes[m] > 0 => \E o \in DOMAIN occs : occs[o].msg = m
      /\ \A i, j \in DOMAIN list : list[i] = list[j] => i = j
      /\ \A o \in DOMAIN occs : \E i \in DOMAIN list : list[i] = o
      /\ walk = list /\ \A j \in DOMAIN list : j < at => occs[list[j]].msg # msg
      /\ \A o \in DOMAIN occs : occs[o].count <= CountOf(Leader)
  BY <1>0 DEF Tally
<1>4. CASE at <= Len(walk) /\ Found(walk[at]) /\ adding' = "count" /\ UNCHANGED <<walk, occs>>
  <2>1. CountOf(Leader)' = CountOf(Leader)
    BY <1>0, <1>4 DEF CountOf
  <2> QED BY <1>0, <1>3, <1>4, <2>1 DEF Tally
<1>5. CASE at <= Len(walk) /\ ~Found(walk[at]) /\ at' = at + 1 /\ UNCHANGED <<adding, walk, occs>>
  <2>1. CountOf(Leader)' = CountOf(Leader)
    BY <1>0, <1>5 DEF CountOf
  <2>2. \A j \in DOMAIN list : j < at' => occs[list[j]].msg # msg
    BY <1>2, <1>3, <1>5 DEF Found
  <2> QED BY <1>0, <1>3, <1>5, <2>1, <2>2 DEF Tally
<1>6. CASE /\ at > Len(walk) /\ occs' = Append(occs, [msg |-> msg, count |-> 0])
           /\ occ' = Len(occs') /\ walk' = list /\ adding' = "append"
  <2> DEFINE last_ == Len(occs) + 1
  <2>1. [msg |-> msg, count |-> 0] \in Occurrences
    BY <1>0 DEF PointersHold, Occurrences
  <2>2. /\ DOMAIN occs' = 1 .. last_ /\ occ' = last_
        /\ \A o \in 1 .. Len(occs) : occs'[o] = occs[o]
        /\ occs'[last_] = [msg |-> msg, count |-> 0]
    BY <1>6, <2>1, AppendProperties, LenProperties DEF PointersHold
  <2>3. \A o \in DOMAIN occs : occs[o].msg # msg
    <3> TAKE o \in DOMAIN occs
    <3>1. PICK i \in DOMAIN list : list[i] = o
      BY <1>3
    <3> QED BY <1>2, <1>3, <1>6, <3>1
  <2>4. votes[msg] = 0
    BY <1>3, <2>3 DEF VotesTyped
  <2>5. CountOf(Leader)' = CountOf(Leader) /\ CountOf(Leader) \in Nat
    BY <1>0, <1>1, <2>2 DEF CountOf
  <2>6. \A o \in DOMAIN occs' : o \in DOMAIN occs \/ o = last_
    BY <1>1, <2>2
  <2>7. \A o \in DOMAIN occs : o \in DOMAIN occs' /\ occs'[o] = occs[o] /\ o # last_
    BY <1>1, <2>2
  <2> HIDE DEF last_
  <2>8. occs'[last_].msg = msg /\ occs'[last_].count = 0 /\ last_ \in DOMAIN occs' /\ last_ \notin DOMAIN occs
    <3>1. last_ \in DOMAIN occs' /\ last_ \notin DOMAIN occs
      BY <1>1, <2>2 DEF last_
    <3> QED BY <2>2, <3>1
  <2>9. \A o, p \in DOMAIN occs' : occs'[o].msg = occs'[p].msg => o = p
    BY <1>3, <2>3, <2>6, <2>7, <2>8
  <2>10. \A o \in DOMAIN occs' : /\ occs'[o].count = votes[occs'[o].msg]
                                 /\ occs'[o].count > 0 \/ o = occ'
                                 /\ occs'[o].count <= CountOf(Leader)
    BY <1>3, <2>2, <2>4, <2>5, <2>6, <2>7, <2>8
  <2>11. \A m \in Msgs : votes[m] > 0 => \E o \in DOMAIN occs' : occs'[o].msg = m
    BY <1>3, <2>7
  <2>12. \A o \in DOMAIN occs' : (\E i \in DOMAIN list : list[i] = o) <=> o # occ'
    BY <1>2, <1>3, <2>2, <2>6, <2>7, <2>8 DEF last_
  <2> QED BY <1>0, <1>3, <1>6, <2>5, <2>9, <2>10, <2>11, <2>12 DEF Tally
<1> QED BY <1>4, <1>5, <1>6 DEF Find

\* So do appending an occurrence, counting its vote, and comparing it with the leader.
LEMMA AddNewTallies ==
  ASSUME PointersHold, VotesTyped, Tally, AddNew, asking \notin {"max", "list"}
  PROVE  Tally'
<1>0. /\ Msgs' = Msgs /\ Leader' = Leader /\ adding = "append" /\ adding' = "count"
      /\ UNCHANGED <<occs, votes, msg, occ, asking>> /\ list' = Append(walk, occ)
  BY MessagesStaySaid DEF AddNew, Next, Adds, hist, Leader
<1>1. /\ DOMAIN list = 1 .. Len(list) /\ Len(list) \in Nat /\ list \in Seq(DOMAIN occs)
      /\ occ \in DOMAIN occs /\ walk = list
  BY <1>0, LenProperties DEF PointersHold, Finding, Tally
<1>2. /\ DOMAIN list' = 1 .. Len(list) + 1 /\ \A i \in DOMAIN list : list'[i] = list[i]
      /\ list'[Len(list) + 1] = occ
  BY <1>0, <1>1, AppendProperties, LenProperties
<1>3. /\ \A i, j \in DOMAIN list : list[i] = list[j] => i = j
      /\ \A o \in DOMAIN occs : (\E i \in DOMAIN list : list[i] = o) <=> o # occ
  BY <1>0 DEF Tally
<1>4. \A i \in DOMAIN list' : i \in DOMAIN list \/ i = Len(list) + 1
  BY <1>1, <1>2
<1>5. \A i \in DOMAIN list : i \in DOMAIN list' /\ list'[i] = list[i] /\ list[i] # occ
  BY <1>1, <1>2, <1>3
<1>6. Len(list) + 1 \in DOMAIN list'
  BY <1>1, <1>2
<1>7. \A i, j \in DOMAIN list' : list'[i] = list'[j] => i = j
  BY <1>2, <1>3, <1>4, <1>5
<1>8. \A o \in DOMAIN occs : \E i \in DOMAIN list' : list'[i] = o
  BY <1>2, <1>3, <1>5, <1>6
<1>9. CountOf(Leader)' = CountOf(Leader)
  BY <1>0 DEF CountOf
<1> QED BY <1>0, <1>7, <1>8, <1>9 DEF Tally

LEMMA CountTallies ==
  ASSUME PointersHold, VotesTyped, Tally, Count, asking \notin {"max", "list"}
  PROVE  Tally'
<1>0. /\ Msgs' = Msgs /\ Leader' = Leader /\ Leader \in 0 .. Len(occs)
      /\ adding = "count" /\ adding' = "compare"
      /\ UNCHANGED <<list, msg, occ, asking>>
      /\ occs' = [occs EXCEPT ![occ].count = @ + 1] /\ votes' = [votes EXCEPT ![msg] = @ + 1]
  BY MessagesStaySaid DEF Count, Next, Adds, Leader, PointersHold
<1>1. /\ DOMAIN occs = 1 .. Len(occs) /\ Len(occs) \in Nat
      /\ \A o \in DOMAIN occs : occs[o] \in Occurrences /\ occs[o].count \in Nat
  BY OccurrencesAre
<1>2. occ \in DOMAIN occs /\ occs[occ].msg = msg /\ msg \in Msgs /\ votes \in [Msgs -> Nat]
  BY <1>0 DEF PointersHold, Finding, VotesTyped
<1>3. /\ DOMAIN occs' = DOMAIN occs /\ \A o \in DOMAIN occs : o # occ => occs'[o] = occs[o]
      /\ occs'[occ].msg = msg /\ occs'[occ].count = occs[occ].count + 1
      /\ \A o \in DOMAIN occs : occs'[o].msg = occs[o].msg
  BY <1>0, <1>1, <1>2 DEF Occurrences
<1>4. votes'[msg] = votes[msg] + 1 /\ \A m \in Msgs : m # msg => votes'[m] = votes[m]
  BY <1>0, <1>2
<1>5. /\ \A o, p \in DOMAIN occs : occs[o].msg = occs[p].msg => o = p
      /\ \A o \in DOMAIN occs : /\ occs[o].count = votes[occs[o].msg] /\ (occs[o].count > 0 \/ o = occ)
                                /\ occs[o].count <= CountOf(Leader)
                                /\ occs[o].msg \in Msgs
      /\ \A m \in Msgs : votes[m] > 0 => \E o \in DOMAIN occs : occs[o].msg = m
  BY <1>0 DEF Tally, VotesTyped
<1>6. CountOf(Leader)' >= CountOf(Leader) /\ CountOf(Leader) \in Nat /\ CountOf(Leader)' \in Nat
  BY <1>0, <1>1, <1>2, <1>3 DEF CountOf
<1>7. \A o \in DOMAIN occs' : occs'[o].count = votes'[occs'[o].msg] /\ occs'[o].count > 0
  <2> TAKE o \in DOMAIN occs'
  <2>1. CASE o = occ
    BY <1>1, <1>2, <1>3, <1>4, <1>5, <2>1
  <2>2. CASE o # occ
    <3>1. occs[o].msg # msg
      BY <1>2, <1>3, <1>5, <2>2
    <3> QED BY <1>3, <1>4, <1>5, <2>2, <3>1
  <2> QED BY <2>1, <2>2
<1>8. \A m \in Msgs : votes'[m] > 0 => \E o \in DOMAIN occs' : occs'[o].msg = m
  BY <1>2, <1>3, <1>4, <1>5
<1>9. \A o \in DOMAIN occs' : occs'[o].count <= CountOf(Leader)' \/ o = occ
  BY <1>1, <1>3, <1>5, <1>6
<1>10. /\ \A o, p \in DOMAIN occs' : occs'[o].msg = occs'[p].msg => o = p
       /\ \A i, j \in DOMAIN list : list[i] = list[j] => i = j
       /\ \A o \in DOMAIN occs' : \E i \in DOMAIN list : list[i] = o
  BY <1>0, <1>3 DEF Tally
<1> QED BY <1>0, <1>7, <1>8, <1>9, <1>10 DEF Tally

LEMMA CompareTallies ==
  ASSUME PointersHold, VotesTyped, Tally, Compare, asking \notin {"max", "list"}
  PROVE  Tally'
<1>0. /\ Msgs' = Msgs /\ Leader = max /\ Leader' = max' /\ max \in 0 .. Len(occs)
      /\ adding = "compare" /\ adding' = "idle"
      /\ UNCHANGED <<occs, list, votes, asking>>
      /\ max' = IF CountOf(occ) > CountOf(max) THEN occ ELSE max
  BY MessagesStaySaid DEF Compare, Next, Adds, Leader, PointersHold, hist
<1>1. /\ DOMAIN occs = 1 .. Len(occs) /\ Len(occs) \in Nat
      /\ \A o \in DOMAIN occs : occs[o] \in Occurrences /\ occs[o].count \in Nat
  BY OccurrencesAre
<1>2. occ \in DOMAIN occs
  BY <1>0 DEF PointersHold, Finding
<1>3. \A o \in DOMAIN occs : occs[o].count <= CountOf(max) \/ o = occ
  BY <1>0 DEF Tally
<1>4. CountOf(occ) = occs[occ].count /\ CountOf(max) \in Nat /\ CountOf(Leader)' = CountOf(max')
  BY <1>0, <1>1, <1>2 DEF CountOf
<1>5. \A o \in DOMAIN occs : occs[o].count <= CountOf(max')
  BY <1>0, <1>1, <1>2, <1>3, <1>4
<1> QED BY <1>0, <1>4, <1>5 DEF Tally

\* A step of the chat or of its user keeps the tally.
LEMMA TalliedKept ==
  PointersHold /\ VotesTyped /\ Undisturbed /\ Tallied /\ [Next]_vars => Tallied'
<1> SUFFICES ASSUME PointersHold, VotesTyped, Undisturbed, Tallied, [Next]_vars, ~raced', ~over'
             PROVE  Tally'
  BY DEF Tallied
<1>0. Msgs' = Msgs
  BY MessagesStaySaid
<1>1. ASSUME NEW m \in Said, Hear(m) PROVE Tally'
  <2>1. UNCHANGED <<occs, list, votes, raced, max, got, asking, occ>> /\ adding = "idle" /\ ~over
    BY <1>1 DEF Hear, heap
  <2>2. Tally /\ Leader' = Leader /\ CountOf(Leader)' = CountOf(Leader)
    BY <2>1 DEF Tallied, Leader, CountOf
  <2>3. CASE adding' = "find" /\ at' = 1 /\ walk' = list
    <3>1. \A j \in DOMAIN list : ~(j < 1)
      BY LenProperties DEF PointersHold
    <3> QED BY <1>0, <2>1, <2>2, <2>3, <3>1 DEF Tally
  <2>4. CASE UNCHANGED <<adding, msg, at, walk>>
    BY <1>0, <2>1, <2>2, <2>4, TallyStays DEF Counted
  <2> QED BY <1>1, <2>3, <2>4 DEF Hear
<1>2. CASE Adds
  <2>1. Tally /\ asking \notin {"max", "list"}
    BY <1>2 DEF Adds, Find, AddNew, Count, Compare, hist, Tallied, Undisturbed
  <2> QED BY <1>2, <2>1, FindTallies, AddNewTallies, CountTallies, CompareTallies DEF Adds
<1>3. CASE ReadMax
  <2>1. /\ UNCHANGED <<occs, list, votes, raced, adding, msg, walk, at, occ>> /\ got' = max
        /\ asking = "select" /\ asking' = "max"
    BY <1>3 DEF ReadMax, heap, add
  <2>2. Tally /\ Leader' = Leader
    BY <2>1 DEF Undisturbed, Tallied, Leader
  <2> QED BY <1>0, <2>1, <2>2, TallyStays DEF Counted
<1>4. CASE ResetMax
  <2>1. /\ UNCHANGED <<occs, list, votes, raced, over, adding, msg, walk, at, occ, got>>
        /\ asking = "max" /\ asking' = "list"
    BY <1>4 DEF ResetMax, add, hist
  <2>2. Tally /\ Leader' = Leader
    BY <2>1 DEF Tallied, Leader
  <2> QED BY <1>0, <2>1, <2>2, TallyStays DEF Counted
<1>5. CASE ResetList
  <2>1. /\ adding = "idle" /\ max = 0
    BY <1>5 DEF ResetList, Undisturbed
  <2>2. /\ occs' = <<>> /\ list' = <<>> /\ UNCHANGED <<adding>> /\ votes' = [m \in Msgs |-> 0]
    BY <1>5, <2>1 DEF ResetList
  <2>3. DOMAIN occs' = {} /\ DOMAIN list' = {}
    BY <2>2
  <2> QED BY <1>0, <2>1, <2>2, <2>3 DEF Tally
<1>6. CASE Peak
  <2>1. PICK s \in Orders(list) : list' = s
    BY <1>6 DEF Peak
  <2>2. /\ adding = "idle" /\ ~raced /\ ~over /\ UNCHANGED <<occs, votes, adding, max, got, asking>>
    BY <1>6 DEF Peak
  <2>3. Tally /\ Leader' = Leader /\ CountOf(Leader)' = CountOf(Leader)
    BY <2>2 DEF Tallied, Leader, CountOf
  <2>4. /\ DOMAIN s = DOMAIN list
        /\ \A o : (\E i \in DOMAIN s : s[i] = o) <=> \E i \in DOMAIN list : list[i] = o
        /\ (\A i, j \in DOMAIN list : list[i] = list[j] => i = j) => \A i, j \in DOMAIN s : s[i] = s[j] => i = j
    <3>1. list \in Seq(DOMAIN occs)
      BY DEF PointersHold
    <3> QED BY <3>1, OrdersHoldTheSame
  <2> QED BY <1>0, <2>1, <2>2, <2>3, <2>4 DEF Tally
<1>7. CASE Play \/ SendKey \/ Begin \/ UNCHANGED vars
  <2>1. UNCHANGED <<occs, list, votes, raced, over, adding, msg, walk, at, occ, got, max>>
    BY <1>7 DEF Play, SendKey, Begin, vars, heap, add, hist
  <2>2. asking' \in {"max", "list"} <=> asking \in {"max", "list"}
    BY <1>7 DEF Play, SendKey, Begin, vars
  <2>3. Tally /\ Leader' = Leader
    BY <2>1, <2>2 DEF Tallied, Leader
  <2> QED BY <1>0, <2>1, <2>3, TallyStays DEF Counted
<1> QED BY <1>1, <1>2, <1>3, <1>4, <1>5, <1>6, <1>7 DEF Next, Resets

\* Nothing is counted at first, and nothing in the way.
LEMMA StartsUndisturbed == Init => Undisturbed /\ Tallied
<1> SUFFICES ASSUME Init PROVE Undisturbed /\ Tally
  BY DEF Tallied
<1>1. DOMAIN occs = {} /\ DOMAIN list = {} /\ adding = "idle" /\ asking = "select" /\ ~over
      /\ \A m \in Msgs : votes[m] = 0
  BY DEF Init, Aggregator
<1> QED BY <1>1 DEF Undisturbed, Tally

\* The types, from what the pointers hold and what is counted.
LEMMA ChatTyped == ASSUME PointersHold, VotesTyped, KeysTyped PROVE TypeOK
<1>1. /\ DOMAIN occs = 1 .. Len(occs) /\ Len(occs) \in Nat
      /\ \A o \in DOMAIN occs : occs[o] \in Occurrences /\ occs[o].count \in Nat
  BY OccurrencesAre
<1>2. said \in 0 .. MaxVotes /\ MaxVotes \in Nat /\ Pending \in 0 .. 1
  BY ChatAssumption DEF VotesTyped, Pending
<1>3. \A o \in DOMAIN occs : occs[o].msg \in Msgs /\ occs[o].count + Pending <= said
  BY DEF VotesTyped
<1>4. \A o \in DOMAIN occs : occs[o].msg \in Msgs /\ occs[o].count \in 0 .. MaxVotes
  BY <1>1, <1>2, <1>3
<1>5. Range(list) \cup {max, got} \subseteq 0 .. Len(occs)
  <2>1. list \in Seq(DOMAIN occs)
    BY DEF PointersHold
  <2>2. DOMAIN list = 1 .. Len(list) /\ \A i \in 1 .. Len(list) : list[i] \in DOMAIN occs
    BY <2>1, LenProperties, ElementOfSeq
  <2> QED BY <1>1, <2>2 DEF Range, PointersHold
<1>6. occ \in DOMAIN occs \/ adding \in {"idle", "find"}
  BY DEF PointersHold, Finding, VotesTyped
<1>7. last \in {0} \cup UNION {Range(m) : m \in Msgs} /\ newlines <= Newlines
  BY ChatAssumption DEF KeysTyped, Letters
<1> QED BY <1>4, <1>5, <1>6, <1>7 DEF TypeOK, VotesTyped

\* What the tally says of the list, of a message that was voted for, and of one that was not.
LEMMA TallySays ==
  ASSUME PointersHold, VotesTyped, Tally, adding = "idle"
  PROVE  /\ \A i \in DOMAIN list : /\ list[i] \in DOMAIN occs /\ CountOf(list[i]) = occs[list[i]].count
                                   /\ occs[list[i]].count = votes[occs[list[i]].msg]
                                   /\ votes[occs[list[i]].msg] > 0
         /\ \A m \in Msgs : votes[m] > 0 => \E i \in DOMAIN list : occs[list[i]].msg = m
         /\ \A i, j \in DOMAIN list : occs[list[i]].msg = occs[list[j]].msg => i = j
         /\ votes \in [Msgs -> Nat]
<1>1. DOMAIN occs = 1 .. Len(occs) /\ Len(occs) \in Nat
  BY OccurrencesAre
<1>2. \A i \in DOMAIN list : list[i] \in DOMAIN occs
  <2>1. list \in Seq(DOMAIN occs)
    BY DEF PointersHold
  <2> QED BY <2>1, LenProperties, ElementOfSeq
<1>3. \A i \in DOMAIN list : CountOf(list[i]) = occs[list[i]].count
  BY <1>1, <1>2 DEF CountOf
<1>4. \A o \in DOMAIN occs : occs[o].count = votes[occs[o].msg] /\ occs[o].count > 0
  BY DEF Tally
<1>5. \A m \in Msgs : votes[m] > 0 => \E i \in DOMAIN list : occs[list[i]].msg = m
  <2> SUFFICES ASSUME NEW m \in Msgs, votes[m] > 0 PROVE \E i \in DOMAIN list : occs[list[i]].msg = m
    OBVIOUS
  <2>1. PICK o \in DOMAIN occs : occs[o].msg = m
    BY DEF Tally
  <2>2. PICK i \in DOMAIN list : list[i] = o
    BY DEF Tally
  <2> QED BY <2>1, <2>2
<1>6. \A i, j \in DOMAIN list : occs[list[i]].msg = occs[list[j]].msg => i = j
  BY <1>2 DEF Tally
<1> QED BY <1>2, <1>3, <1>4, <1>5, <1>6 DEF VotesTyped

\* A message stands in the list once if it was voted for, and otherwise not.
LEMMA VotesAreCounted == ASSUME PointersHold, VotesTyped, Undisturbed, Tallied PROVE VotesCounted
<1> SUFFICES ASSUME adding = "idle", asking = "select", ~raced, NEW m \in Msgs
             PROVE  Cardinality({i \in DOMAIN list : occs[list[i]].msg = m /\ CountOf(list[i]) = votes[m]})
                    = (IF votes[m] > 0 THEN 1 ELSE 0)
  BY DEF VotesCounted
<1> DEFINE standing == {i \in DOMAIN list : occs[list[i]].msg = m /\ CountOf(list[i]) = votes[m]}
<1>1. Tally
  BY DEF Undisturbed, Tallied
<1>2. CASE votes[m] > 0
  <2>1. PICK i \in DOMAIN list : occs[list[i]].msg = m
    BY <1>1, <1>2, TallySays
  <2>2. standing = {i}
    BY <1>1, <2>1, TallySays
  <2> HIDE DEF standing
  <2>3. Cardinality(standing) = 1
    BY <2>2, FS_Singleton
  <2> QED BY <1>2, <2>3 DEF standing
<1>3. CASE ~(votes[m] > 0)
  <2>1. standing = {}
    BY <1>1, <1>3, TallySays
  <2> HIDE DEF standing
  <2>2. Cardinality(standing) = 0
    BY <2>1, FS_EmptySet
  <2> QED BY <1>3, <2>2 DEF standing
<1> QED BY <1>2, <1>3

\* What Reset and Peak return has as many votes as any other message.
LEMMA AnswersLead ==
  ASSUME PointersHold, VotesTyped, Tallied, Answered, adding = "idle", ~over, ~raced, NEW m \in Msgs
  PROVE  votes[m] <= votes[curr']
<1>0. Tally
  BY DEF Tallied
<1>1. /\ \A i \in DOMAIN list : /\ list[i] \in DOMAIN occs /\ CountOf(list[i]) = occs[list[i]].count
                                /\ occs[list[i]].count = votes[occs[list[i]].msg]
      /\ \A n \in Msgs : votes[n] > 0 => \E i \in DOMAIN list : occs[list[i]].msg = n
      /\ votes \in [Msgs -> Nat]
  BY <1>0, TallySays
<1>2. /\ DOMAIN occs = 1 .. Len(occs) /\ Len(occs) \in Nat
      /\ \A o \in DOMAIN occs : occs[o].count \in Nat /\ occs[o].msg \in Msgs
      /\ \A o \in DOMAIN occs : occs[o].count = votes[occs[o].msg]
  BY <1>0, OccurrencesAre DEF VotesTyped, Tally
<1>3. <<>> \in Msgs
  BY DEF Msgs
<1>4. CASE user = "doom" /\ ResetList
  <2>1. curr' = MsgOf(got) /\ got \in 0 .. Len(occs)
    BY <1>4 DEF ResetList, Returned, PointersHold
  <2>2. \A o \in DOMAIN occs : occs[o].count <= CountOf(got)
    BY <1>0, <1>4 DEF ResetList, Tally, Leader
  <2>3. curr' \in Msgs /\ votes[curr'] \in Nat
    BY <1>1, <1>2, <1>3, <2>1 DEF MsgOf
  <2>4. CASE votes[m] > 0
    <3>1. PICK i \in DOMAIN list : occs[list[i]].msg = m
      BY <1>1, <2>4
    <3>2. votes[m] <= CountOf(got)
      BY <1>1, <2>2, <3>1
    <3>3. got # 0
      BY <1>1, <2>4, <3>2 DEF CountOf
    <3>4. CountOf(got) = votes[curr']
      BY <1>2, <2>1, <3>3 DEF CountOf, MsgOf
    <3> QED BY <3>2, <3>4
  <2>5. CASE ~(votes[m] > 0)
    BY <1>1, <2>3, <2>5
  <2> QED BY <2>4, <2>5
<1>5. CASE Peak
  <2>1. PICK s \in Orders(list) : Descending(s) /\ curr' = MsgOf(Head(s))
    BY <1>5 DEF Peak
  <2>2. list \in Seq(DOMAIN occs) /\ list # <<>>
    BY <1>5 DEF Peak, PointersHold
  <2>3. /\ DOMAIN s = DOMAIN list
        /\ \A o : (\E i \in DOMAIN s : s[i] = o) <=> \E i \in DOMAIN list : list[i] = o
    BY <2>2, OrdersHoldTheSame
  <2>4. DOMAIN list = 1 .. Len(list) /\ Len(list) \in Nat /\ 1 \in DOMAIN list
    <3>1. DOMAIN list = 1 .. Len(list) /\ Len(list) \in Nat
      BY <2>2, LenProperties
    <3>2. Len(list) # 0
      BY <2>2, EmptySeq
    <3> QED BY <3>1, <3>2
  <2>5. \A i \in DOMAIN s : s[i] \in DOMAIN occs /\ CountOf(s[i]) = occs[s[i]].count
    BY <1>1, <2>3
  <2>6. Head(s) = s[1]
    <3>1. s \in Seq(DOMAIN occs)
      BY <2>2, OrdersOfPointers
    <3> QED BY <3>1, <2>3, <2>4
  <2>7. curr' = occs[s[1]].msg /\ votes[curr'] = CountOf(s[1]) /\ CountOf(s[1]) \in Nat
    BY <1>2, <2>1, <2>3, <2>4, <2>5, <2>6 DEF MsgOf
  <2>8. \A i \in DOMAIN s : CountOf(s[i]) <= CountOf(s[1])
    <3> TAKE i \in DOMAIN s
    <3>1. CASE i = 1
      BY <2>7, <3>1
    <3>2. CASE i # 1
      <4>1. 1 < i /\ 1 \in DOMAIN s
        BY <2>3, <2>4, <3>2
      <4>2. CountOf(s[1]) >= CountOf(s[i])
        BY <2>1, <4>1 DEF Descending
      <4>3. CountOf(s[i]) \in Nat
        BY <1>2, <2>5
      <4> QED BY <2>7, <4>2, <4>3
    <3> QED BY <3>1, <3>2
  <2>9. CASE votes[m] > 0
    <3>1. PICK j \in DOMAIN list : occs[list[j]].msg = m
      BY <1>1, <2>9
    <3>2. PICK i \in DOMAIN s : s[i] = list[j]
      BY <2>3
    <3>3. votes[m] = CountOf(s[i])
      BY <1>1, <3>1, <3>2
    <3> QED BY <2>7, <2>8, <3>3
  <2>10. CASE ~(votes[m] > 0)
    BY <1>1, <2>7, <2>10
  <2> QED BY <2>9, <2>10
<1> QED BY <1>4, <1>5 DEF Answered

-----------------------------------------------------------------------------
(* TowerVotes *)

Rows(places) == {0} \cup {p[1] : p \in places}
Columns(places) == {0} \cup {p[2] : p \in places}

\* The row that leads and the row that was read are those of places that somebody voted for since
\* the round before this one; once the row has been cleared, in this one.  So is the column.
TopRecent ==
  /\ voting # "idle" => place \in now
  /\ DOMAIN top = 1 .. 3
  /\ top[1] \in Rows(before \cup now) /\ top[2] \in Columns(before \cup now)
  /\ tile[1] \in Rows(before \cup now) /\ tile[2] \in Columns(before \cup now)
  /\ ticking \in {"clearCol", "clearCount", "build"} => top[1] \in Rows(now)
  /\ ticking \in {"clearCount", "build"} => top[2] \in Columns(now)

\* Nobody has voted, and nothing leads.
LEMMA TopStartsRecent == TowersInit => TopRecent
BY DEF TowersInit, TopRecent, Rows, Columns, NoMax, Corner

\* A step of the older tower defense keeps its lead recent.
LEMMA TopRecentKept == TopRecent /\ [TowersNext]_tvars => TopRecent'
<1> SUFFICES ASSUME TopRecent, [TowersNext]_tvars PROVE TopRecent'
  OBVIOUS
<1> USE DEF TopRecent, Rows, Columns
<1>1. ASSUME NEW p \in Voted, NewChatMsg(p) PROVE TopRecent'
  BY <1>1 DEF NewChatMsg, TakeMessage, aggregator, ticker
<1>2. CASE FindPoint
  BY <1>2 DEF FindPoint, ticker
<1>3. CASE AppendPoint \/ ComparePoint
  BY <1>3 DEF AppendPoint, ComparePoint, aggregator, ticker, noted
<1>4. CASE CopyPoint
  BY <1>4 DEF CopyPoint, ticker, noted
<1>5. CASE ResetPoints
  BY <1>5 DEF ResetPoints, adder
<1>6. CASE ReadTop
  BY <1>6 DEF ReadTop, aggregator, adder, noted
<1>7. CASE ClearTop
  BY <1>7 DEF ClearTop, adder, noted
<1>8. CASE Build
  BY <1>8 DEF Build, adder, Corner
<1>9. CASE UNCHANGED tvars
  BY <1>9 DEF tvars, aggregator, adder, ticker, noted
<1> QED BY <1>1, <1>2, <1>3, <1>4, <1>5, <1>6, <1>7, <1>8, <1>9 DEF TowersNext, AddVote, Tick
-----------------------------------------------------------------------------
(* TowerVotes: what is counted *)

Points == [place : Voted \ {<<>>}, count : Nat \ {0}]

\* A vote that is being added and has not been counted.
Uncounted == IF voting = "add" THEN 1 ELSE 0

\* Points are of places, lists hold pointers to them, and no count is larger than what was heard.
PointsTyped ==
  /\ allPoints \in Seq(Points)
  /\ \A i \in DOMAIN allPoints : allPoints[i].count + Uncounted <= heard
  /\ points \in Seq(DOMAIN allPoints) /\ seen \in Seq(DOMAIN allPoints)
  /\ voting # "append" => seen = <<>>
  /\ DOMAIN top = 1 .. 3 /\ top[3] \in 0 .. heard
  /\ ballots \in [Voted -> Nat]
  /\ heard \in 0 .. MaxPlaceVotes /\ Uncounted <= heard
  /\ voting # "idle" => place \in Voted \ {<<>>}
  /\ voting \notin {"idle", "add"} => point \in DOMAIN allPoints /\ allPoints[point].place = place
  /\ voting \in {"idle", "add", "append", "compare", "row", "col", "count"}
  /\ ticking \in {"idle", "row", "col", "clearRow", "clearCol", "clearCount", "build"}

\* What the points are.
LEMMA PointsAre ==
  ASSUME PointsTyped
  PROVE  /\ DOMAIN allPoints = 1 .. Len(allPoints) /\ Len(allPoints) \in Nat
         /\ \A i \in DOMAIN allPoints : allPoints[i] \in Points /\ allPoints[i].count \in Nat \ {0}
                                        /\ allPoints[i].place \in Voted \ {<<>>}
<1>1. allPoints \in Seq(Points)
  BY DEF PointsTyped
<1>2. DOMAIN allPoints = 1 .. Len(allPoints) /\ Len(allPoints) \in Nat
  BY <1>1, LenProperties
<1>3. \A i \in DOMAIN allPoints : allPoints[i] \in Points
  BY <1>1, <1>2, ElementOfSeq
<1> QED BY <1>2, <1>3 DEF Points

\* No points at first.
LEMMA PointsStart == TowersInit => PointsTyped
<1>1. \A S : <<>> \in Seq(S)
  BY EmptySeq
<1> QED BY <1>1, PlacesAssumption DEF TowersInit, PointsTyped, Uncounted, NoMax

\* What FindPoint does when it finds no point of its place, and when it finds one.
FindsNone ==
  /\ \A i \in DOMAIN points : allPoints[points[i]].place # place
  /\ allPoints' = Append(allPoints, [place |-> place, count |-> 1])
  /\ point' = Len(allPoints) + 1 /\ seen' = points /\ voting' = "append"
  /\ DOMAIN allPoints' = 1 .. Len(allPoints) + 1
  /\ \A i \in DOMAIN allPoints : allPoints'[i] = allPoints[i]
  /\ allPoints'[Len(allPoints) + 1] = [place |-> place, count |-> 1]
FindsOne ==
  /\ point' \in DOMAIN allPoints /\ allPoints[point'].place = place
  /\ DOMAIN allPoints' = DOMAIN allPoints /\ Len(allPoints') = Len(allPoints)
  /\ allPoints' \in Seq(Points)
  /\ \A i \in DOMAIN allPoints : i # point' => allPoints'[i] = allPoints[i]
  /\ allPoints'[point'].place = place /\ allPoints'[point'].count = allPoints[point'].count + 1
  /\ voting' = "compare" /\ seen' = seen
LEMMA FindPointFinds == ASSUME PointsTyped, FindPoint PROVE FindsNone \/ FindsOne
<1> DEFINE found == {i \in Range(points) : allPoints[i].place = place}
<1>0. /\ DOMAIN allPoints = 1 .. Len(allPoints) /\ Len(allPoints) \in Nat
      /\ \A i \in DOMAIN allPoints : allPoints[i] \in Points /\ allPoints[i].count \in Nat \ {0}
                                     /\ allPoints[i].place \in Voted \ {<<>>}
  BY PointsAre
<1>1. /\ points \in Seq(DOMAIN allPoints) /\ DOMAIN points = 1 .. Len(points)
      /\ \A i \in DOMAIN points : points[i] \in DOMAIN allPoints
  <2>1. points \in Seq(DOMAIN allPoints)
    BY DEF PointsTyped
  <2> QED BY <2>1, LenProperties, ElementOfSeq
<1>2. place \in Voted \ {<<>>} /\ allPoints \in Seq(Points)
  BY DEF FindPoint, PointsTyped
<1>3. CASE found = {}
  <2>1. /\ allPoints' = Append(allPoints, [place |-> place, count |-> 1])
        /\ point' = Len(allPoints') /\ seen' = points /\ voting' = "append"
    BY <1>3 DEF FindPoint
  <2>2. \A i \in DOMAIN points : allPoints[points[i]].place # place
    BY <1>3 DEF Range
  <2>3. [place |-> place, count |-> 1] \in Points
    BY <1>2 DEF Points
  <2>4. /\ Len(allPoints') = Len(allPoints) + 1 /\ allPoints' \in Seq(Points)
        /\ \A i \in 1 .. Len(allPoints) : allPoints'[i] = allPoints[i]
        /\ allPoints'[Len(allPoints) + 1] = [place |-> place, count |-> 1]
    BY <1>2, <2>1, <2>3, AppendProperties
  <2>5. DOMAIN allPoints' = 1 .. Len(allPoints) + 1
    BY <2>4, LenProperties
  <2> QED BY <1>0, <2>1, <2>2, <2>4, <2>5 DEF FindsNone
<1>4. CASE found # {}
  <2>1. /\ point' = (CHOOSE i \in found : TRUE)
        /\ allPoints' = [allPoints EXCEPT ![point'].count = @ + 1]
        /\ voting' = "compare" /\ UNCHANGED seen
    BY <1>4 DEF FindPoint
  <2>2. point' \in found
    BY <1>4, <2>1
  <2>3. point' \in DOMAIN allPoints /\ allPoints[point'].place = place
    BY <1>1, <2>2 DEF Range
  <2>4. [allPoints[point'] EXCEPT !.count = @ + 1] \in Points
    BY <1>0, <2>3 DEF Points
  <2>5. allPoints' = [allPoints EXCEPT ![point'] = [allPoints[point'] EXCEPT !.count = @ + 1]]
    BY <2>1
  <2> HIDE DEF found
  <2>6. /\ allPoints' \in Seq(Points) /\ Len(allPoints') = Len(allPoints)
    BY <1>0, <1>2, <2>3, <2>4, <2>5, ExceptSeq
  <2>7. /\ DOMAIN allPoints' = DOMAIN allPoints
        /\ \A i \in DOMAIN allPoints : i # point' => allPoints'[i] = allPoints[i]
        /\ allPoints'[point'] = [allPoints[point'] EXCEPT !.count = @ + 1]
    BY <2>3, <2>5
  <2>8. allPoints'[point'].place = place /\ allPoints'[point'].count = allPoints[point'].count + 1
    BY <1>0, <2>3, <2>7 DEF Points
  <2> QED BY <2>1, <2>3, <2>6, <2>7, <2>8 DEF FindsOne
<1> QED BY <1>3, <1>4

\* A step of the older tower defense keeps the points and their counts.
LEMMA PointsTypedKept == PointsTyped /\ [TowersNext]_tvars => PointsTyped'
<1> SUFFICES ASSUME PointsTyped, [TowersNext]_tvars PROVE PointsTyped'
  OBVIOUS
<1>0. /\ DOMAIN allPoints = 1 .. Len(allPoints) /\ Len(allPoints) \in Nat
      /\ \A i \in DOMAIN allPoints : allPoints[i] \in Points /\ allPoints[i].count \in Nat \ {0}
                                     /\ allPoints[i].place \in Voted \ {<<>>}
  BY PointsAre
<1>1. \A S : <<>> \in Seq(S)
  BY EmptySeq
<1> USE DEF PointsTyped, Uncounted
<1>2. ASSUME NEW p \in Voted, NewChatMsg(p) PROVE PointsTyped'
  <2>1. /\ UNCHANGED <<allPoints, points, top, seen, point, ballots, ticking>>
        /\ voting = "idle" /\ heard' = heard + 1 /\ heard < MaxPlaceVotes
        /\ (voting' = "add" /\ place' = p /\ p # <<>>) \/ UNCHANGED <<voting, place>>
    BY <1>2 DEF NewChatMsg, TakeMessage, IsPlace, aggregator, ticker
  <2> QED BY <1>0, <2>1, PlacesAssumption
<1>3. CASE FindPoint
  <2>1. /\ UNCHANGED <<points, top, place, ticking, heard>> /\ voting = "add"
        /\ ballots' = [ballots EXCEPT ![place] = @ + 1]
    BY <1>3 DEF FindPoint, ticker
  <2>2. ballots' \in [Voted -> Nat]
    BY <2>1
  <2>3. CASE FindsNone
    <3>1. [place |-> place, count |-> 1] \in Points
      BY <2>1 DEF Points
    <3>2. allPoints' \in Seq(Points)
      BY <2>3, <3>1, AppendProperties DEF FindsNone
    <3>3. \A q \in Seq(DOMAIN allPoints) : q \in Seq(DOMAIN allPoints')
      BY <1>0, <2>3, ListsGrow DEF FindsNone
    <3>4. points \in Seq(DOMAIN allPoints') /\ seen' \in Seq(DOMAIN allPoints')
      BY <2>3, <3>3 DEF FindsNone
    <3>5. \A i \in DOMAIN allPoints' : allPoints'[i].count <= heard
      BY <1>0, <2>1, <2>3 DEF FindsNone
    <3>6. point' \in DOMAIN allPoints' /\ allPoints'[point'].place = place /\ voting' = "append"
      BY <1>0, <2>3 DEF FindsNone
    <3>7. voting' = "append" /\ UNCHANGED <<points, top, place, ticking, heard>>
      BY <2>1, <2>3 DEF FindsNone
    <3>8. place \in Voted \ {<<>>} /\ top[3] \in 0 .. heard /\ DOMAIN top = 1 .. 3
      BY <2>1
    <3>9. heard \in 0 .. MaxPlaceVotes
      OBVIOUS
    <3> QED
      <4>1. \A i \in DOMAIN allPoints' : allPoints'[i].count + 0 <= heard
        <5>1. \A i \in DOMAIN allPoints' : allPoints'[i].count \in Nat
          BY <1>0, <2>3 DEF FindsNone
        <5> QED BY <3>5, <5>1
      <4> QED BY <2>2, <3>2, <3>4, <3>6, <3>7, <3>8, <3>9, <4>1
  <2>4. CASE FindsOne
    <3>1. \A i \in DOMAIN allPoints' : allPoints'[i].count <= heard
      <4> HIDE DEF PointsTyped, Uncounted
      <4>1. \A i \in DOMAIN allPoints : allPoints[i].count + 1 <= heard
        BY <2>1 DEF PointsTyped, Uncounted
      <4>2. heard \in Nat
        BY PlacesAssumption DEF PointsTyped
      <4> QED BY <1>0, <2>4, <4>1, <4>2 DEF FindsOne
    <3>2. /\ allPoints' \in Seq(Points) /\ DOMAIN allPoints' = DOMAIN allPoints
          /\ voting' = "compare" /\ seen' = seen
          /\ point' \in DOMAIN allPoints /\ allPoints'[point'].place = place
      BY <2>4 DEF FindsOne
    <3>3. \A i \in DOMAIN allPoints' : allPoints'[i].count + 0 <= heard
      <4> HIDE DEF PointsTyped, Uncounted
      <4>1. \A i \in DOMAIN allPoints' : allPoints'[i].count \in Nat
        BY <1>0, <2>4 DEF FindsOne
      <4> QED BY <3>1, <4>1
    <3> QED BY <2>1, <2>2, <3>2, <3>3
  <2> QED BY <1>3, <2>3, <2>4, FindPointFinds
<1>4. CASE AppendPoint
  <2>1. Append(seen, point) \in Seq(DOMAIN allPoints)
    BY <1>4, AppendProperties DEF AppendPoint
  <2> QED BY <1>0, <1>1, <1>4, <2>1 DEF AppendPoint, ticker, noted
<1>5. CASE ComparePoint
  BY <1>0, <1>5 DEF ComparePoint, aggregator, ticker, noted
<1>6. CASE CopyPoint
  <2>1. /\ UNCHANGED <<allPoints, points, seen, ticking, heard, ballots>>
        /\ voting \in {"row", "col", "count"}
    BY <1>6 DEF CopyPoint, ticker, noted
  <2>2. /\ DOMAIN top' = 1 .. 3
        /\ top'[3] = top[3] \/ top'[3] = allPoints[point].count
        /\ (voting' \in {"col", "count"} /\ UNCHANGED <<place, point>>) \/ voting' = "idle"
    BY <1>6 DEF CopyPoint
  <2>3. top'[3] \in 0 .. heard
    BY <1>0, <2>1, <2>2
  <2> QED BY <1>0, <2>1, <2>2, <2>3
<1>7. CASE ResetPoints
  BY <1>0, <1>1, <1>7 DEF ResetPoints, adder
<1>8. CASE ReadTop
  BY <1>0, <1>8 DEF ReadTop, aggregator, adder, noted
<1>9. CASE ClearTop
  <2>1. /\ UNCHANGED <<allPoints, points, voting, place, point, seen, heard, ballots>>
        /\ ticking' \in {"clearCol", "clearCount", "build"}
        /\ DOMAIN top' = 1 .. 3 /\ top'[3] \in {0, top[3]}
    BY <1>9 DEF ClearTop, adder, noted
  <2> QED BY <1>0, <2>1
<1>10. CASE Build
  <2>1. /\ UNCHANGED <<points, top, voting, place, point, seen, heard>> /\ ticking' = "idle"
        /\ allPoints' = allPoints \/ (voting = "idle" /\ points = <<>> /\ allPoints' = <<>>)
        /\ ballots' \in [Voted -> Nat]
    BY <1>10 DEF Build, adder
  <2>2. CASE allPoints' = allPoints
    BY <1>0, <2>1, <2>2
  <2>3. CASE voting = "idle" /\ points = <<>> /\ allPoints' = <<>>
    <3>1. DOMAIN allPoints' = {}
      BY <2>3
    <3> QED BY <1>1, <2>1, <2>3, <3>1
  <2> QED BY <2>1, <2>2, <2>3
<1>11. CASE UNCHANGED tvars
  BY <1>0, <1>11 DEF tvars, aggregator, adder, ticker, noted
<1> QED BY <1>2, <1>3, <1>4, <1>5, <1>6, <1>7, <1>8, <1>9, <1>10, <1>11 DEF TowersNext, AddVote, Tick

\* As long as no Add meets a tick, nothing is being added and nothing leads when a tick has
\* forgotten it.
Calm ==
  /\ ticking = "idle" => ~crossed
  /\ ticking # "idle" /\ ~crossed => voting = "idle" /\ points = <<>>
  /\ ticking \in {"clearCol", "clearCount", "build"} /\ ~crossed => top[1] = 0
  /\ ticking \in {"clearCount", "build"} /\ ~crossed => top[2] = 0
  /\ ticking = "build" /\ ~crossed => top[3] = 0

LEMMA StartsCalm == TowersInit => Calm
BY DEF TowersInit, Calm

LEMMA CalmKept == PointsTyped /\ Calm /\ [TowersNext]_tvars => Calm'
<1> SUFFICES ASSUME PointsTyped, Calm, [TowersNext]_tvars PROVE Calm'
  OBVIOUS
<1> USE DEF Calm
<1>1. ASSUME NEW p \in Voted, NewChatMsg(p) PROVE Calm'
  BY <1>1 DEF NewChatMsg, TakeMessage, aggregator, ticker
<1>2. CASE FindPoint
  BY <1>2 DEF FindPoint, ticker
<1>3. CASE AppendPoint \/ ComparePoint
  BY <1>3 DEF AppendPoint, ComparePoint, aggregator, ticker, noted
<1>4. CASE CopyPoint
  BY <1>4 DEF CopyPoint, ticker, noted
<1>5. CASE ResetPoints
  BY <1>5 DEF ResetPoints, adder
<1>6. CASE ReadTop
  BY <1>6 DEF ReadTop, aggregator, adder, noted
<1>7. CASE ClearTop
  BY <1>7 DEF ClearTop, adder, noted, PointsTyped
<1>8. CASE Build
  BY <1>8 DEF Build, adder, Corner
<1>9. CASE UNCHANGED tvars
  BY <1>9 DEF tvars, aggregator, adder, ticker, noted
<1> QED BY <1>1, <1>2, <1>3, <1>4, <1>5, <1>6, <1>7, <1>8, <1>9 DEF TowersNext, AddVote, Tick

-----------------------------------------------------------------------------
(* TowerVotes: who has the most *)

\* A tower belongs at t: n votes are the most that a place has, and t has them, or none has two.
Contested == \E p \in Voted : ballots[p] >= 2
Leads(t, n) ==
  IF Contested THEN t \in Voted /\ ballots[t] = n /\ \A p \in Voted : ballots[p] <= n
  ELSE t = Corner /\ n = 0
Spot == <<top[1], top[2]>>

\* There is one point for every place that was voted for in this round, with its votes, and until
\* the next tick the list has them all.
PointsCounted ==
  /\ \A i, j \in DOMAIN allPoints : allPoints[i].place = allPoints[j].place => i = j
  /\ \A i \in DOMAIN allPoints : allPoints[i].count = ballots[allPoints[i].place]
  /\ \A p \in Voted : ballots[p] > 0 => \E i \in DOMAIN allPoints : allPoints[i].place = p
  /\ ticking = "idle" => \A i \in DOMAIN allPoints :
                            (\E j \in DOMAIN points : points[j] = i) \/ (voting = "append" /\ i = point)
  /\ voting = "append" => seen = points

\* max is the leader, except while the point that may have overtaken it is compared and copied.
TopLeads ==
  /\ ticking \in {"idle", "row", "col", "clearRow"} /\ voting \in {"idle", "add", "append"}
       => Leads(Spot, top[3])
  /\ voting \in {"compare", "row", "col", "count"} => ballots[place] >= 2
  /\ voting = "compare" =>
       /\ \A p \in Voted : p = place \/ ballots[p] <= 1 \/ ballots[p] <= top[3]
       /\ \/ top[3] = 0
          \/ Spot \in Voted /\ Spot # place /\ top[3] = ballots[Spot]
          \/ Spot = place /\ top[3] = ballots[place] - 1
  /\ voting \in {"row", "col", "count"} => \A p \in Voted : ballots[p] <= ballots[place]
  /\ voting \in {"col", "count"} => top[1] = place[1]
  /\ voting = "count" => top[2] = place[2]

\* What a tick has read of max is the leader.
TileLeads ==
  /\ ticking = "col" => tile = <<top[1], 0>>
  /\ ticking = "clearRow" => tile = Spot
  /\ ticking \in {"clearCol", "clearCount", "build"} => \E n \in Nat : Leads(tile, n)

PointTally == PointsCounted /\ TopLeads /\ TileLeads
PointsTallied == ~met /\ ~crossed => PointTally

LEMMA StartsTallied == TowersInit => PointsTallied
<1> SUFFICES ASSUME TowersInit PROVE PointTally
  BY DEF PointsTallied
<1>1. /\ DOMAIN allPoints = {} /\ ticking = "idle" /\ voting = "idle" /\ Spot = Corner /\ top[3] = 0
      /\ \A p \in Voted : ballots[p] = 0
  BY DEF TowersInit, Spot, Corner, NoMax
<1> QED BY <1>1 DEF PointTally, PointsCounted, TopLeads, TileLeads, Leads, Contested

\* A place that is added is new, or one of the points; its vote is counted.
LEMMA FindPointTallies ==
  ASSUME PointsTyped, PointTally, FindPoint, ticking = "idle"
  PROVE  PointTally'
<1>0. /\ UNCHANGED <<points, top, place, ticking, tile, Spot>> /\ voting = "add"
      /\ ballots' = [ballots EXCEPT ![place] = @ + 1]
  BY DEF FindPoint, ticker, Spot
<1>1. place \in Voted /\ ballots \in [Voted -> Nat] /\ top[3] \in Nat
  BY <1>0, PlacesAssumption DEF PointsTyped
<1>2. ballots'[place] = ballots[place] + 1 /\ \A p \in Voted : p # place => ballots'[p] = ballots[p]
  BY <1>0, <1>1
<1>3. /\ DOMAIN allPoints = 1 .. Len(allPoints) /\ Len(allPoints) \in Nat
      /\ \A i \in DOMAIN allPoints : allPoints[i] \in Points /\ allPoints[i].count \in Nat \ {0}
                                     /\ allPoints[i].place \in Voted \ {<<>>}
  BY PointsAre
<1>4. /\ \A i, j \in DOMAIN allPoints : allPoints[i].place = allPoints[j].place => i = j
      /\ \A i \in DOMAIN allPoints : allPoints[i].count = ballots[allPoints[i].place]
      /\ \A p \in Voted : ballots[p] > 0 => \E i \in DOMAIN allPoints : allPoints[i].place = p
      /\ \A i \in DOMAIN allPoints : \E j \in DOMAIN points : points[j] = i
  BY <1>0 DEF PointTally, PointsCounted
<1>5. Leads(Spot, top[3])
  BY <1>0 DEF PointTally, TopLeads
<1>6. TileLeads'
  BY <1>0 DEF TileLeads
<1>7. CASE FindsNone
  <2> DEFINE new == Len(allPoints) + 1
  <2>1. /\ DOMAIN allPoints' = 1 .. new /\ \A i \in DOMAIN allPoints : allPoints'[i] = allPoints[i]
        /\ allPoints'[new] = [place |-> place, count |-> 1] /\ point' = new
        /\ \A i \in DOMAIN points : allPoints[points[i]].place # place
        /\ seen' = points /\ voting' = "append"
    BY <1>7 DEF FindsNone
  <2>2. /\ \A i \in DOMAIN allPoints : i \in DOMAIN allPoints' /\ i # new
        /\ \A i \in DOMAIN allPoints' : i \in DOMAIN allPoints \/ i = new
        /\ new \in DOMAIN allPoints'
    BY <1>3, <2>1
  <2>3. allPoints'[new].place = place /\ allPoints'[new].count = 1
    BY <2>1
  <2> HIDE DEF new
  <2>4. \A i \in DOMAIN allPoints : allPoints[i].place # place
    BY <1>4, <2>1
  <2>5. ballots[place] = 0 /\ ballots'[place] = 1
    BY <1>1, <1>2, <1>4, <2>4
  <2>6. \A i, j \in DOMAIN allPoints' : allPoints'[i].place = allPoints'[j].place => i = j
    BY <1>4, <2>1, <2>2, <2>3, <2>4
  <2>7. \A i \in DOMAIN allPoints' : allPoints'[i].count = ballots'[allPoints'[i].place]
    BY <1>2, <1>3, <1>4, <2>1, <2>2, <2>3, <2>4, <2>5
  <2>8. \A p \in Voted : ballots'[p] > 0 => \E i \in DOMAIN allPoints' : allPoints'[i].place = p
    BY <1>2, <1>4, <2>1, <2>2, <2>3
  <2>9. \A i \in DOMAIN allPoints' : (\E j \in DOMAIN points' : points'[j] = i) \/ i = point'
    BY <1>0, <1>4, <2>1, <2>2
  <2>10. PointsCounted'
    BY <1>0, <2>1, <2>6, <2>7, <2>8, <2>9 DEF PointsCounted
  <2>11. Leads(Spot, top[3])'
    <3>1. \A p \in Voted : ballots'[p] = ballots[p] \/ (ballots'[p] = 1 /\ ballots[p] = 0)
      BY <1>1, <1>2, <2>5
    <3>2. \A p \in Voted : ballots'[p] >= 2 <=> ballots[p] >= 2
      BY <3>1
    <3>3. Contested' = Contested
      BY <3>2 DEF Contested
    <3>4. CASE Contested
      <4>1. Spot \in Voted /\ ballots[Spot] = top[3] /\ \A p \in Voted : ballots[p] <= top[3]
        BY <1>5, <3>4 DEF Leads
      <4>2. PICK q \in Voted : ballots[q] >= 2
        BY <3>4 DEF Contested
      <4>3. top[3] >= 2
        BY <1>1, <4>1, <4>2
      <4>4. ballots'[Spot] = top[3] /\ \A p \in Voted : ballots'[p] <= top[3]
        BY <1>1, <3>1, <4>1, <4>3
      <4> QED BY <1>0, <3>3, <3>4, <4>1, <4>4 DEF Leads
    <3>5. CASE ~Contested
      BY <1>0, <1>5, <3>3, <3>5 DEF Leads
    <3> QED BY <3>4, <3>5
  <2> QED BY <1>6, <2>1, <2>10, <2>11 DEF PointTally, TopLeads
<1>8. CASE FindsOne
  <2>1. /\ point' \in DOMAIN allPoints /\ allPoints[point'].place = place /\ DOMAIN allPoints' = DOMAIN allPoints
        /\ \A i \in DOMAIN allPoints : i # point' => allPoints'[i] = allPoints[i]
        /\ allPoints'[point'].place = place /\ allPoints'[point'].count = allPoints[point'].count + 1
        /\ voting' = "compare"
    BY <1>8 DEF FindsOne
  <2>2. ballots[place] >= 1 /\ ballots'[place] >= 2
    BY <1>1, <1>2, <1>3, <1>4, <2>1
  <2>3. \A i \in DOMAIN allPoints : allPoints'[i].place = allPoints[i].place
    BY <2>1
  <2>4. \A i \in DOMAIN allPoints : i # point' => allPoints[i].place # place
    BY <1>4, <2>1
  <2>5. \A i \in DOMAIN allPoints : allPoints'[i].count = ballots'[allPoints'[i].place]
    BY <1>2, <1>3, <1>4, <2>1, <2>3, <2>4
  <2>6. \A p \in Voted : ballots'[p] > 0 => \E i \in DOMAIN allPoints : allPoints'[i].place = p
    BY <1>2, <1>4, <2>1, <2>3
  <2>7. PointsCounted'
    BY <1>0, <1>4, <2>1, <2>3, <2>5, <2>6 DEF PointsCounted
  <2>8. \A p \in Voted : p = place \/ ballots'[p] <= 1 \/ ballots'[p] <= top[3]
    <3>1. \A p \in Voted : ballots[p] <= 1 \/ ballots[p] <= top[3]
      BY <1>1, <1>5 DEF Leads, Contested
    <3> QED BY <1>2, <3>1
  <2>9. \/ top[3] = 0
        \/ Spot \in Voted /\ Spot # place /\ top[3] = ballots'[Spot]
        \/ Spot = place /\ top[3] = ballots'[place] - 1
    <3>1. CASE Contested
      <4>1. Spot \in Voted /\ ballots[Spot] = top[3]
        BY <1>5, <3>1 DEF Leads
      <4> QED BY <1>1, <1>2, <4>1
    <3>2. CASE ~Contested
      BY <1>5, <3>2 DEF Leads
    <3> QED BY <3>1, <3>2
  <2>10. TopLeads'
    BY <1>0, <2>1, <2>2, <2>8, <2>9 DEF TopLeads
  <2> QED BY <1>6, <2>7, <2>10 DEF PointTally
<1> QED BY <1>7, <1>8, FindPointFinds

\* So do appending a point, comparing one with max, and copying one.
LEMMA AppendPointTallies ==
  ASSUME PointsTyped, PointTally, AppendPoint, ticking = "idle"
  PROVE  PointTally'
<1>0. /\ UNCHANGED <<allPoints, top, ticking, tile, ballots>> /\ voting = "append" /\ voting' = "idle"
      /\ points' = Append(points, point) /\ Spot' = Spot
  BY DEF AppendPoint, ticker, noted, Spot, PointTally, PointsCounted
<1>1. /\ DOMAIN points = 1 .. Len(points) /\ Len(points) \in Nat /\ points \in Seq(DOMAIN allPoints)
      /\ point \in DOMAIN allPoints
  BY <1>0, LenProperties DEF PointsTyped
<1>2. /\ DOMAIN points' = 1 .. Len(points) + 1 /\ \A i \in DOMAIN points : points'[i] = points[i]
      /\ points'[Len(points) + 1] = point
  BY <1>0, <1>1, AppendProperties, LenProperties
<1>3. \A i \in DOMAIN allPoints : (\E j \in DOMAIN points : points[j] = i) \/ i = point
  BY <1>0 DEF PointTally, PointsCounted
<1>4. (\A j \in DOMAIN points : j \in DOMAIN points') /\ Len(points) + 1 \in DOMAIN points'
  BY <1>1, <1>2
<1>5. \A i \in DOMAIN allPoints : \E j \in DOMAIN points' : points'[j] = i
  BY <1>2, <1>3, <1>4
<1>6. PointsCounted'
  BY <1>0, <1>5 DEF PointTally, PointsCounted
<1>7. Leads(Spot, top[3])' /\ TileLeads'
  BY <1>0 DEF PointTally, TopLeads, TileLeads, Leads, Contested
<1> QED BY <1>0, <1>6, <1>7 DEF PointTally, TopLeads

LEMMA ComparePointTallies ==
  ASSUME PointsTyped, PointTally, ComparePoint, ticking = "idle"
  PROVE  PointTally'
<1>0. /\ UNCHANGED <<allPoints, points, top, seen, ticking, tile, ballots>> /\ voting = "compare"
      /\ Spot' = Spot /\ Contested' = Contested
  BY DEF ComparePoint, aggregator, ticker, noted, Spot, Contested
<1>1. /\ place \in Voted /\ ballots \in [Voted -> Nat] /\ top[3] \in Nat
      /\ point \in DOMAIN allPoints /\ allPoints[point].place = place
  BY <1>0, PlacesAssumption DEF PointsTyped
<1>2. allPoints[point].count = ballots[place]
  BY <1>1 DEF PointTally, PointsCounted
<1>3. /\ ballots[place] >= 2
      /\ \A p \in Voted : p = place \/ ballots[p] <= 1 \/ ballots[p] <= top[3]
      /\ \/ top[3] = 0
         \/ Spot \in Voted /\ Spot # place /\ top[3] = ballots[Spot]
         \/ Spot = place /\ top[3] = ballots[place] - 1
  BY <1>0 DEF PointTally, TopLeads
<1>4. Contested
  BY <1>1, <1>3 DEF Contested
<1>5. TileLeads' /\ (voting' # "append" => PointsCounted')
  BY <1>0 DEF PointTally, TileLeads, PointsCounted
<1>6. CASE top[3] < allPoints[point].count
  <2>1. voting' = "row" /\ UNCHANGED <<place, point>>
    BY <1>6 DEF ComparePoint
  <2>2. \A p \in Voted : ballots[p] <= ballots[place]
    BY <1>1, <1>2, <1>3, <1>6
  <2> QED BY <1>0, <1>3, <1>5, <2>1, <2>2 DEF PointTally, TopLeads
<1>7. CASE ~(top[3] < allPoints[point].count)
  <2>1. voting' = "idle"
    BY <1>7 DEF ComparePoint
  <2>2. top[3] >= ballots[place]
    BY <1>1, <1>2, <1>7
  <2>3. Spot \in Voted /\ ballots[Spot] = top[3] /\ \A p \in Voted : ballots[p] <= top[3]
    BY <1>1, <1>3, <2>2
  <2>4. Leads(Spot, top[3])'
    BY <1>0, <1>4, <2>3 DEF Leads
  <2> QED BY <1>5, <2>1, <2>4 DEF PointTally, TopLeads
<1> QED BY <1>6, <1>7

LEMMA CopyPointTallies ==
  ASSUME PointsTyped, PointTally, CopyPoint, ticking = "idle"
  PROVE  PointTally'
<1>0. /\ UNCHANGED <<allPoints, points, seen, ticking, tile, ballots>> /\ Contested' = Contested
      /\ voting \in {"row", "col", "count"} /\ voting' \in {"col", "count", "idle"}
  BY DEF CopyPoint, ticker, noted, Contested
<1>1. /\ place \in Voted \ {<<>>} /\ ballots \in [Voted -> Nat] /\ DOMAIN top = 1 .. 3
      /\ point \in DOMAIN allPoints /\ allPoints[point].place = place
  BY <1>0 DEF PointsTyped
<1>2. allPoints[point].count = ballots[place] /\ ballots[place] >= 2
  BY <1>0, <1>1 DEF PointTally, PointsCounted, TopLeads
<1>3. \A p \in Voted : ballots[p] <= ballots[place]
  BY <1>0 DEF PointTally, TopLeads
<1>4. TileLeads' /\ PointsCounted'
  BY <1>0 DEF PointTally, TileLeads, PointsCounted
<1>5. CASE voting = "row"
  <2>1. top' = [top EXCEPT ![1] = place[1]] /\ voting' = "col" /\ UNCHANGED <<place, point>>
    BY <1>5 DEF CopyPoint
  <2>2. top'[1] = place[1]
    BY <1>1, <2>1
  <2> QED BY <1>0, <1>2, <1>3, <1>4, <2>1, <2>2 DEF PointTally, TopLeads
<1>6. CASE voting = "col"
  <2>1. top' = [top EXCEPT ![2] = place[2]] /\ voting' = "count" /\ UNCHANGED <<place, point>>
    BY <1>6 DEF CopyPoint
  <2>2. top'[2] = place[2] /\ top'[1] = top[1]
    BY <1>1, <2>1
  <2>3. top[1] = place[1]
    BY <1>6 DEF PointTally, TopLeads
  <2> QED BY <1>0, <1>2, <1>3, <1>4, <2>1, <2>2, <2>3 DEF PointTally, TopLeads
<1>7. CASE voting = "count"
  <2>1. top' = [top EXCEPT ![3] = allPoints[point].count] /\ voting' = "idle"
    BY <1>7 DEF CopyPoint
  <2>2. top'[3] = ballots[place] /\ top'[1] = top[1] /\ top'[2] = top[2]
    BY <1>1, <1>2, <2>1
  <2>3. top[1] = place[1] /\ top[2] = place[2]
    BY <1>7 DEF PointTally, TopLeads
  <2>4. place \in Nat \X Nat
    BY <1>1, PlacesAssumption
  <2>5. Spot' = place
    BY <2>2, <2>3, <2>4 DEF Spot
  <2>6. Contested
    BY <1>1, <1>2 DEF Contested
  <2>7. Leads(Spot, top[3])'
    BY <1>0, <1>1, <1>3, <2>2, <2>5, <2>6 DEF Leads
  <2> QED BY <1>4, <2>1, <2>7 DEF PointTally, TopLeads
<1> QED BY <1>0, <1>5, <1>6, <1>7

\* A step of the older tower defense keeps the tally.
LEMMA PointsTalliedKept == PointsTyped /\ Calm /\ PointsTallied /\ [TowersNext]_tvars => PointsTallied'
<1> SUFFICES ASSUME PointsTyped, Calm, PointsTallied, [TowersNext]_tvars, ~met', ~crossed'
             PROVE  PointTally'
  BY DEF PointsTallied
<1>1. ASSUME NEW p \in Voted, NewChatMsg(p) PROVE PointTally'
  <2>1. /\ UNCHANGED <<allPoints, points, top, seen, tile, ticking, ballots>>
        /\ Spot' = Spot /\ Contested' = Contested
        /\ voting = "idle" /\ ~crossed /\ ~met /\ voting' \in {"idle", "add"}
    BY <1>1 DEF NewChatMsg, TakeMessage, aggregator, ticker, Spot, Contested
  <2> QED BY <2>1 DEF PointsTallied, PointTally, PointsCounted, TopLeads, TileLeads, Leads
<1>2. CASE AddVote
  <2>1. UNCHANGED <<crossed, met>> /\ voting # "idle"
    BY <1>2 DEF AddVote, FindPoint, AppendPoint, ComparePoint, CopyPoint, noted
  <2>2. PointTally /\ ticking = "idle"
    BY <2>1 DEF PointsTallied, Calm
  <2> QED BY <1>2, <2>2, FindPointTallies, AppendPointTallies, ComparePointTallies, CopyPointTallies
          DEF AddVote
<1>3. CASE ResetPoints
  <2>1. /\ UNCHANGED <<allPoints, top, voting, place, point, seen, tile, ballots>>
        /\ Spot' = Spot /\ Contested' = Contested
        /\ voting = "idle" /\ ticking = "idle" /\ ticking' = "row" /\ ~met
    BY <1>3 DEF ResetPoints, adder, Spot, Contested
  <2>2. PointTally
    BY <2>1 DEF PointsTallied, Calm
  <2> QED BY <2>1, <2>2 DEF PointTally, PointsCounted, TopLeads, TileLeads, Leads
<1>4. CASE ReadTop
  <2>1. /\ UNCHANGED <<allPoints, points, top, voting, place, point, seen, ballots, crossed, met>>
        /\ Spot' = Spot /\ Contested' = Contested
        /\ \/ ticking = "row" /\ tile' = <<top[1], 0>> /\ ticking' = "col"
           \/ ticking = "col" /\ tile' = <<tile[1], top[2]>> /\ ticking' = "clearRow"
    BY <1>4 DEF ReadTop, aggregator, adder, noted, Spot, Contested
  <2>2. PointTally
    BY <2>1 DEF PointsTallied
  <2>3. PointsCounted' /\ TopLeads'
    BY <2>1, <2>2 DEF PointTally, PointsCounted, TopLeads, Leads
  <2>4. TileLeads'
    BY <2>1, <2>2 DEF PointTally, TileLeads, Spot
  <2> QED BY <2>3, <2>4 DEF PointTally
<1>5. CASE ClearTop
  <2>1. /\ UNCHANGED <<allPoints, points, voting, place, point, seen, tile, ballots, crossed, met>>
        /\ Contested' = Contested
        /\ ticking \in {"clearRow", "clearCol", "clearCount"}
        /\ ticking' \in {"clearCol", "clearCount", "build"}
    BY <1>5 DEF ClearTop, adder, noted, Contested
  <2>2. PointTally /\ voting = "idle"
    BY <2>1 DEF PointsTallied, Calm
  <2>3. \E n \in Nat : Leads(tile, n)
    <3>1. CASE ticking = "clearRow"
      <4>1. Leads(tile, top[3]) /\ top[3] \in Nat
        BY <2>2, <3>1, PlacesAssumption DEF PointTally, TopLeads, TileLeads, PointsTyped
      <4> QED BY <4>1
    <3>2. CASE ticking # "clearRow"
      BY <2>1, <2>2, <3>2 DEF PointTally, TileLeads
    <3> QED BY <3>1, <3>2
  <2>4. PointsCounted' /\ TopLeads' /\ TileLeads'
    BY <2>1, <2>2, <2>3 DEF PointTally, PointsCounted, TopLeads, TileLeads, Leads
  <2> QED BY <2>4 DEF PointTally
<1>6. CASE Build
  <2>1. ~crossed /\ ticking = "build" /\ ticking' = "idle" /\ UNCHANGED <<points, top, voting>>
    BY <1>6 DEF Build, adder
  <2>2. voting = "idle" /\ points = <<>> /\ top[1] = 0 /\ top[2] = 0 /\ top[3] = 0
    BY <2>1 DEF Calm
  <2>3. allPoints' = <<>> /\ ballots' = [p \in Voted |-> 0]
    BY <1>6, <2>2 DEF Build
  <2>4. DOMAIN allPoints' = {} /\ (\A p \in Voted : ballots'[p] = 0) /\ Spot' = Corner
    BY <2>1, <2>2, <2>3 DEF Spot, Corner
  <2>5. Leads(Spot, top[3])'
    BY <2>1, <2>2, <2>4 DEF Leads, Contested
  <2> QED BY <2>1, <2>2, <2>4, <2>5 DEF PointTally, PointsCounted, TopLeads, TileLeads
<1>7. CASE UNCHANGED tvars
  <2>1. UNCHANGED <<allPoints, points, top, voting, place, point, seen, ticking, tile, ballots, crossed, met>>
    BY <1>7 DEF tvars, aggregator, adder, ticker, noted
  <2> QED BY <2>1 DEF PointsTallied, PointTally, PointsCounted, TopLeads, TileLeads, Leads, Contested, Spot
<1> QED BY <1>1, <1>2, <1>3, <1>4, <1>5, <1>6, <1>7 DEF TowersNext, Tick

\* The types of the older tower defense, from what its points are.
LEMMA TowersTyped == ASSUME PointsTyped PROVE TowersTypeOK
<1>1. /\ DOMAIN allPoints = 1 .. Len(allPoints) /\ Len(allPoints) \in Nat
      /\ \A i \in DOMAIN allPoints : allPoints[i].count \in Nat \ {0} /\ allPoints[i].place \in Voted
  BY PointsAre
<1>2. /\ heard \in 0 .. MaxPlaceVotes /\ MaxPlaceVotes \in Nat /\ Uncounted \in 0 .. 1
      /\ \A i \in DOMAIN allPoints : allPoints[i].count + Uncounted <= heard
  BY PlacesAssumption DEF PointsTyped, Uncounted
<1>3. \A i \in DOMAIN allPoints : allPoints[i].place \in Voted /\ allPoints[i].count \in 1 .. MaxPlaceVotes
  BY <1>1, <1>2
<1>4. Range(points) \subseteq DOMAIN allPoints
  <2>1. points \in Seq(DOMAIN allPoints)
    BY DEF PointsTyped
  <2>2. \A i \in DOMAIN points : points[i] \in DOMAIN allPoints
    BY <2>1, LenProperties, ElementOfSeq
  <2> QED BY <2>2 DEF Range
<1>5. top[3] \in 0 .. MaxPlaceVotes
  BY <1>2 DEF PointsTyped
<1> QED BY <1>3, <1>4, <1>5 DEF TowersTypeOK, PointsTyped

-----------------------------------------------------------------------------
(* Both *)

\* The inductive invariant.
LeadsRecent == PointersHold /\ LeadRecent /\ ListLasts /\ TopRecent

\* Whatever the goroutines do to each other, and however many messages there are: what Reset returns
\* to a Controller of ChatVotes, and the row and the column of a tower of TowerVotes, were voted for
\* since the round before; and all that Peak shows a tower-defense player was voted for in this
\* round, unless at every Reset since an append was under way, which brings the list back (Reset,
\* Peak and Add of both ChatAggregators, which share no lock).
THEOREM NoOldVotesWin == AllSpec => NoOldVotes
<1>1. AllInit => LeadsRecent
  BY StartsRecent, TopStartsRecent DEF AllInit, LeadsRecent
<1>2. LeadsRecent /\ [Chat \/ Towers]_<<vars, tvars, olderTD>> => LeadsRecent'
  <2> SUFFICES ASSUME LeadsRecent, [Chat \/ Towers]_<<vars, tvars, olderTD>> PROVE LeadsRecent'
    OBVIOUS
  <2>1. [Next]_vars /\ [TowersNext]_tvars
    BY DEF Chat, Towers
  <2> QED BY <2>1, PointersKept, RecentKept, ListLastsKept, TopRecentKept DEF LeadsRecent
<1>3. LeadsRecent /\ [Chat \/ Towers]_<<vars, tvars, olderTD>>
        => [/\ user = "doom" /\ ResetList => curr' \in {<<>>} \cup older \cup newer
            /\ Peak => {MsgOf(o) : o \in Range(list)} \subseteq newer \cup lasting]_vars
  <2>1. LeadsRecent /\ user = "doom" /\ ResetList => curr' \in {<<>>} \cup older \cup newer
    BY DEF LeadsRecent, LeadRecent, ResetList, Returned
  <2>2. LeadsRecent => {MsgOf(o) : o \in Range(list)} \subseteq newer \cup lasting
    BY DEF LeadsRecent, ListLasts, Lasting, Range
  <2> QED BY <2>1, <2>2
<1>4. LeadsRecent /\ [Chat \/ Towers]_<<vars, tvars, olderTD>>
        => [Build => \A i \in 1 .. 2 : tile[i] \in {0} \cup {p[i] : p \in before \cup now}]_tvars
  <2> SUFFICES ASSUME LeadsRecent, NEW i \in 1 .. 2
               PROVE  tile[i] \in {0} \cup {p[i] : p \in before \cup now}
    OBVIOUS
  <2>1. i = 1 \/ i = 2
    OBVIOUS
  <2> QED BY <2>1 DEF LeadsRecent, TopRecent, Rows, Columns
<1> QED BY <1>1, <1>2, <1>3, <1>4, PTL DEF AllSpec, NoOldVotes, NoOldWinner, NoOldTower

\* The inductive invariants of the counts.
ChatCounted == PointersHold /\ VotesTyped /\ KeysTyped /\ Undisturbed /\ Tallied
TowersCounted == PointsTyped /\ Calm /\ PointsTallied

\* However many messages there are: as long as no vote is being added while the winner is taken,
\* the message that a round goes by, and the place of a tower, has as many votes of the round as any
\* other; until then, the list has every message that was voted for once, with its votes (Add,
\* incAndMax, Reset and Peak; Add, Tick and Reset of the older tower defense).
THEOREM WinnersAlwaysLead == AllSpec => WinnersLead
<1> DEFINE Step == [Chat \/ Towers]_<<vars, tvars, olderTD>>
<1>0. Step => [Next]_vars /\ [TowersNext]_tvars
  BY DEF Chat, Towers
<1>1. AllInit => ChatCounted /\ TowersCounted
  BY StartsRecent, StartsTyped, StartsUndisturbed, PointsStart, StartsCalm, StartsTallied
     DEF AllInit, ChatCounted, TowersCounted
<1>2. ChatCounted /\ TowersCounted /\ Step => (ChatCounted /\ TowersCounted)'
  <2> SUFFICES ASSUME ChatCounted, TowersCounted, [Next]_vars, [TowersNext]_tvars
               PROVE  ChatCounted' /\ TowersCounted'
    BY <1>0
  <2>1. ChatCounted'
    BY PointersKept, VotesTypedKept, KeysTypedKept, UndisturbedKept, TalliedKept DEF ChatCounted
  <2>2. TowersCounted'
    BY PointsTypedKept, CalmKept, PointsTalliedKept DEF TowersCounted
  <2> QED BY <2>1, <2>2
<1>3. ChatCounted /\ TowersCounted => TypesOK /\ VotesCounted
  BY ChatTyped, TowersTyped, VotesAreCounted DEF ChatCounted, TowersCounted, TypesOK
<1>4. ChatCounted /\ TowersCounted /\ Step
        => [Answered /\ adding = "idle" /\ ~over /\ ~raced => \A m \in Msgs : votes[m] <= votes[curr']]_vars
  BY AnswersLead DEF ChatCounted
<1>5. ChatCounted /\ TowersCounted /\ Step
        => [Build /\ ~crossed /\ ~met =>
              IF \E p \in Voted : ballots[p] >= 2
              THEN tile \in Voted /\ \A p \in Voted : ballots[p] <= ballots[tile]
              ELSE tile = Corner]_tvars
  <2> SUFFICES ASSUME TowersCounted, Build, ~crossed, ~met
               PROVE  IF \E p \in Voted : ballots[p] >= 2
                      THEN tile \in Voted /\ \A p \in Voted : ballots[p] <= ballots[tile]
                      ELSE tile = Corner
    OBVIOUS
  <2>1. PICK n \in Nat : Leads(tile, n)
    BY DEF TowersCounted, PointsTallied, PointTally, TileLeads, Build
  <2> QED BY <2>1 DEF Leads, Contested
<1> QED BY <1>1, <1>2, <1>3, <1>4, <1>5, PTL DEF AllSpec, WinnersLead, MostVoted, TowerWhereVoted
=============================================================================
