-------------------------------- MODULE Relay --------------------------------
(***************************************************************************)
(* The relay server of vim-mate (pkg/v2/relay, with the two goroutines of  *)
(* relay/cmd/server/main.go and the ByteFramer of pkg/v2/net).  A program  *)
(* that owns the id (a driver) connects, authenticates and streams frames, *)
(* the first of which opens the picture; browsers (viewers) connect and    *)
(* watch.  Every connection has a reading and a writing goroutine.  A      *)
(* message is its driver and its number, 0 for the open frame.             *)
(***************************************************************************)
EXTENDS Naturals, Sequences, FiniteSets

CONSTANTS Drivers,    \* programs that stream: RelayDriver
          Viewers,    \* browsers
          LastFrame,  \* bound: frames 1..LastFrame follow the open frame
          ChanCap,    \* capacity of Relay.ch (10 in the code)
          ConnsCap,   \* of Relay.conns (10)
          MsgsCap,    \* of Conn.msgs (10)
          FramesCap,  \* of ByteFramer.ch (10)
          Leavers,    \* connections whose peer may go away
          Stallers,   \* connections that may stop reading without closing
          None        \* no connection

ASSUME RelayAssumption ==
  /\ Drivers \cap Viewers = {} /\ None \notin Drivers \cup Viewers
  /\ Leavers \cup Stallers \subseteq Drivers \cup Viewers /\ LastFrame \in Nat
  /\ {ChanCap, ConnsCap, MsgsCap, FramesCap} \subseteq Nat \ {0}

VARIABLES
  link,        \* per connection: out, open, gone (the peer left), closed
  stalled,     \* per connection: does its peer take no more bytes?
  read,        \* messages read from it: the id, the open frame, the frames
  authorized,  \* Conn.authorized
  reader,      \* Conn.read: off, read, spread, end
  todo,        \* listeners that its message is still to be handed to
  writer,      \* Conn.write: off, take, write, leave, end
  outgoing,    \* the message Conn.write holds
  msgs,        \* Conn.msgs
  inbox,       \* what the relay has written to its peer
  listeners,   \* Relay.listeners
  ch, conns,   \* Relay.ch and Relay.conns
  newc,        \* newConnections: the connection it is writing to
  framer,      \* FrameChan: the message it is about to push
  frames,      \* ByteFramer.ch
  onmsg,       \* onMessage: the open frame it is about to store
  opens,       \* ConnectionMessages.open
  crash        \* a panic has ended the process

connVars == <<link, stalled, read, authorized, reader, todo, inbox>>
sendVars == <<writer, outgoing, msgs>>
openVars == <<framer, frames, onmsg, opens>>
rvars == <<connVars, sendVars, listeners, ch, conns, newc, openVars, crash>>

Conns == Drivers \cup Viewers
Message == [src : Drivers, n : 0..LastFrame]
NoMessage == [src |-> None, n |-> 0]
Entry == [m : Message, via : {"relay", "open"}]

RelayTypeOK ==
  /\ link \in [Conns -> {"out", "open", "gone", "closed"}]
  /\ stalled \in [Conns -> BOOLEAN]
  /\ read \in [Conns -> 0..LastFrame + 2]
  /\ authorized \in [Conns -> BOOLEAN]
  /\ reader \in [Conns -> {"off", "read", "spread", "end"}]
  /\ todo \in [Conns -> SUBSET Conns]
  /\ writer \in [Conns -> {"off", "take", "write", "leave", "end"}]
  /\ outgoing \in [Conns -> Message \cup {NoMessage}]
  /\ msgs \in [Conns -> Seq(Message)] /\ \A c \in Conns : Len(msgs[c]) <= MsgsCap
  /\ inbox \in [Conns -> Seq(Entry)]
  /\ listeners \subseteq Conns
  /\ ch \in Seq(Message) /\ Len(ch) <= ChanCap
  /\ conns \in Seq(Conns) /\ Len(conns) <= ConnsCap
  /\ newc \in Conns \cup {None}
  /\ framer \in Message \cup {NoMessage}
  /\ frames \in Seq(Message) /\ Len(frames) <= FramesCap
  /\ onmsg \in Message \cup {NoMessage}
  /\ opens \in Message \cup {NoMessage}
  /\ crash \in BOOLEAN

RelayInit == /\ link = [c \in Conns |-> "out"]
             /\ stalled = [c \in Conns |-> FALSE]
             /\ read = [c \in Conns |-> 0]
             /\ authorized = [c \in Conns |-> FALSE]
             /\ reader = [c \in Conns |-> "off"]
             /\ todo = [c \in Conns |-> {}]
             /\ writer = [c \in Conns |-> "off"]
             /\ outgoing = [c \in Conns |-> NoMessage]
             /\ msgs = [c \in Conns |-> <<>>]
             /\ inbox = [c \in Conns |-> <<>>]
             /\ listeners = {} /\ ch = <<>> /\ conns = <<>>
             /\ newc = None /\ framer = NoMessage /\ frames = <<>>
             /\ onmsg = NoMessage /\ opens = NoMessage /\ crash = FALSE

\* The message a reading goroutine is relaying.
Current(c) == [src |-> c, n |-> read[c] - 2]
\* Relay.mutex is read-locked while a message is handed to the listeners.
Unlocked == \A c \in Conns : reader[c] # "spread"
-----------------------------------------------------------------------------
(* Connections: render, add, remove *)

\* A peer connects.  The channel to newConnections never blocks.
Add(c) ==
  /\ link[c] = "out" /\ Unlocked
  /\ link' = [link EXCEPT ![c] = "open"]
  /\ listeners' = listeners \cup {c}
  /\ conns' = IF Len(conns) < ConnsCap THEN Append(conns, c) ELSE conns
  /\ reader' = [reader EXCEPT ![c] = "read"]
  /\ writer' = [writer EXCEPT ![c] = "take"]
  /\ UNCHANGED <<stalled, read, authorized, todo, outgoing, msgs, inbox, ch, newc,
                 openVars, crash>>

\* The peer goes away, or hangs.
Leave(c) == /\ c \in Leavers /\ link[c] = "open"
            /\ link' = [link EXCEPT ![c] = "gone"]
            /\ UNCHANGED <<stalled, read, authorized, reader, todo, inbox, sendVars,
                           listeners, ch, conns, newc, openVars, crash>>

Stall(c) == /\ c \in Stallers /\ link[c] = "open" /\ ~stalled[c]
            /\ stalled' = [stalled EXCEPT ![c] = TRUE]
            /\ UNCHANGED <<link, read, authorized, reader, todo, inbox, sendVars,
                           listeners, ch, conns, newc, openVars, crash>>

\* remove and Conn.Close, by either goroutine of the connection.
remove(c) == /\ Unlocked
             /\ listeners' = listeners \ {c}
             /\ link' = [link EXCEPT ![c] = "closed"]
-----------------------------------------------------------------------------
(* Conn.read and Relay.relay *)

\* The first message must be the id: any other one ends the connection.
Authorize(c) ==
  /\ reader[c] = "read" /\ link[c] = "open" /\ c \in Drivers /\ ~authorized[c]
  /\ authorized' = [authorized EXCEPT ![c] = TRUE]
  /\ read' = [read EXCEPT ![c] = 1]
  /\ UNCHANGED <<link, stalled, reader, todo, inbox, sendVars, listeners, ch, conns,
                 newc, openVars, crash>>

\* A message comes in and is relayed: a copy for onMessage, if its channel has
\* room, then all that listen at this moment.
ReadMessage(c) ==
  /\ reader[c] = "read" /\ link[c] = "open"
  /\ authorized[c] /\ read[c] < LastFrame + 2
  /\ read' = [read EXCEPT ![c] = @ + 1]
  /\ ch' = IF Len(ch) < ChanCap THEN Append(ch, [src |-> c, n |-> read[c] - 1]) ELSE ch
  /\ reader' = [reader EXCEPT ![c] = "spread"]
  /\ todo' = [todo EXCEPT ![c] = listeners]
  /\ UNCHANGED <<link, stalled, authorized, inbox, sendVars, listeners, conns, newc,
                 openVars, crash>>

\* Seeded bug: a group of listeners is not emptied when it is handed out.
MsgAgain(c, l) ==
  /\ l \in todo[c]
  /\ todo' \in {todo, [todo EXCEPT ![c] = @ \ {l}]}
  /\ msgs' = IF Len(msgs[l]) < MsgsCap THEN [msgs EXCEPT ![l] = Append(@, Current(c))]
             ELSE msgs
  /\ UNCHANGED <<link, stalled, read, authorized, reader, inbox, writer, outgoing,
                 listeners, ch, conns, newc, openVars, crash>>

\* Seeded bug: the send waits for room.
MsgBlocks(c, l) ==
  /\ l \in todo[c] /\ Len(msgs[l]) < MsgsCap
  /\ todo' = [todo EXCEPT ![c] = @ \ {l}]
  /\ msgs' = [msgs EXCEPT ![l] = Append(@, Current(c))]
  /\ UNCHANGED <<link, stalled, read, authorized, reader, inbox, writer, outgoing,
                 listeners, ch, conns, newc, openVars, crash>>

\* One of the goroutines of relayRange hands it to a listener, in any order; a
\* listener whose channel is full misses it.
Msg(c, l) ==
  /\ l \in todo[c]
  /\ todo' = [todo EXCEPT ![c] = @ \ {l}]
  /\ msgs' = IF Len(msgs[l]) < MsgsCap THEN [msgs EXCEPT ![l] = Append(@, Current(c))]
             ELSE msgs
  /\ UNCHANGED <<link, stalled, read, authorized, reader, inbox, writer, outgoing,
                 listeners, ch, conns, newc, openVars, crash>>

\* wait.Wait() and the unlock.
Relayed(c) ==
  /\ reader[c] = "spread" /\ todo[c] = {}
  /\ reader' = [reader EXCEPT ![c] = "read"]
  /\ UNCHANGED <<link, stalled, read, authorized, todo, inbox, sendVars, listeners, ch,
                 conns, newc, openVars, crash>>

\* Seeded bug: the loop is left without remove.
ReadEndOnly(c) ==
  /\ reader[c] = "read"
  /\ link[c] # "open" \/ (c \in Drivers /\ ~authorized[c])
  /\ link' = [link EXCEPT ![c] = "closed"]
  /\ reader' = [reader EXCEPT ![c] = "end"]
  /\ UNCHANGED <<stalled, read, authorized, todo, inbox, sendVars, listeners, ch, conns,
                 newc, openVars, crash>>

\* A wrong id, or a failed read.
ReadEnd(c) ==
  /\ reader[c] = "read"
  /\ link[c] # "open" \/ (c \in Drivers /\ ~authorized[c])
  /\ remove(c)
  /\ reader' = [reader EXCEPT ![c] = "end"]
  /\ UNCHANGED <<stalled, read, authorized, todo, inbox, sendVars, ch, conns, newc,
                 openVars, crash>>
-----------------------------------------------------------------------------
(* Conn.write *)

\* Seeded bug: the authorization is not looked at.
TakeUnchecked(c) ==
  /\ writer[c] = "take" /\ msgs[c] # <<>>
  /\ msgs' = [msgs EXCEPT ![c] = Tail(@)]
  /\ writer' = [writer EXCEPT ![c] = "write"]
  /\ outgoing' = [outgoing EXCEPT ![c] = Head(msgs[c])]
  /\ UNCHANGED <<connVars, listeners, ch, conns, newc, openVars, crash>>

\* An authorized connection throws its messages away.
Take(c) ==
  /\ writer[c] = "take" /\ msgs[c] # <<>>
  /\ msgs' = [msgs EXCEPT ![c] = Tail(@)]
  /\ IF authorized[c] THEN UNCHANGED <<writer, outgoing>>
     ELSE /\ writer' = [writer EXCEPT ![c] = "write"]
          /\ outgoing' = [outgoing EXCEPT ![c] = Head(msgs[c])]
  /\ UNCHANGED <<connVars, listeners, ch, conns, newc, openVars, crash>>

\* WriteMessage: what is written to a peer that has left may be lost without
\* an error; a peer that stalls blocks it.
Deliver(c, e) == inbox' = IF link[c] = "open" THEN [inbox EXCEPT ![c] = Append(@, e)]
                          ELSE inbox

Write(c) ==
  /\ writer[c] = "write"
  /\ link[c] = "gone" \/ (link[c] = "open" /\ ~stalled[c])
  /\ Deliver(c, [m |-> outgoing[c], via |-> "relay"])
  /\ writer' = [writer EXCEPT ![c] = "take"]
  /\ outgoing' = [outgoing EXCEPT ![c] = NoMessage]
  /\ UNCHANGED <<link, stalled, read, authorized, reader, todo, msgs, listeners, ch,
                 conns, newc, openVars, crash>>

WriteFails(c) ==
  /\ writer[c] = "write" /\ link[c] \in {"gone", "closed"}
  /\ writer' = [writer EXCEPT ![c] = "leave"]
  /\ outgoing' = [outgoing EXCEPT ![c] = NoMessage]
  /\ UNCHANGED <<connVars, msgs, listeners, ch, conns, newc, openVars, crash>>

WriteEnd(c) ==
  /\ writer[c] = "leave" /\ remove(c)
  /\ writer' = [writer EXCEPT ![c] = "end"]
  /\ UNCHANGED <<stalled, read, authorized, reader, todo, inbox, outgoing, msgs, ch,
                 conns, newc, openVars, crash>>
-----------------------------------------------------------------------------
(* newConnections: a new connection is sent the last open frame *)

\* Seeded bug: the open frame is looked up before the connection comes.
TakeConnEarly == /\ newc = None /\ conns # <<>>
                 /\ conns' = Tail(conns)
                 /\ newc' \in {None, IF opens # NoMessage THEN Head(conns) ELSE None}
                 /\ UNCHANGED <<connVars, sendVars, listeners, ch, openVars, crash>>

TakeConn == /\ newc = None /\ conns # <<>>
            /\ conns' = Tail(conns)
            /\ newc' = IF opens # NoMessage THEN Head(conns) ELSE None
            /\ UNCHANGED <<connVars, sendVars, listeners, ch, openVars, crash>>

\* The result of WriteMessage is not looked at.
WriteOpen ==
  /\ newc # None
  /\ link[newc] = "open" => ~stalled[newc]
  /\ Deliver(newc, [m |-> opens, via |-> "open"])
  /\ newc' = None
  /\ UNCHANGED <<link, stalled, read, authorized, reader, todo, sendVars, listeners, ch,
                 conns, openVars, crash>>

\* The websocket library panics when two goroutines are in WriteMessage of one
\* connection, if it notices.
Panic == /\ newc # None /\ writer[newc] = "write"
         /\ crash' = TRUE
         /\ UNCHANGED <<connVars, sendVars, listeners, ch, conns, newc, openVars>>
-----------------------------------------------------------------------------
(* FrameChan and onMessage *)

\* A driver's message is one whole frame.
FramerTake == /\ framer = NoMessage /\ ch # <<>>
              /\ ch' = Tail(ch) /\ framer' = Head(ch)
              /\ UNCHANGED <<connVars, sendVars, listeners, conns, newc, frames, onmsg,
                             opens, crash>>

FramerPush == /\ framer # NoMessage /\ Len(frames) < FramesCap
              /\ frames' = Append(frames, framer)
              /\ framer' = NoMessage
              /\ UNCHANGED <<connVars, sendVars, listeners, ch, conns, newc, onmsg, opens,
                             crash>>

\* Frames other than the open frame are dropped.
OnMessage == /\ onmsg = NoMessage /\ frames # <<>>
             /\ frames' = Tail(frames)
             /\ onmsg' = IF Head(frames).n = 0 THEN Head(frames) ELSE NoMessage
             /\ UNCHANGED <<connVars, sendVars, listeners, ch, conns, newc, framer, opens,
                            crash>>

\* The open frame is stored under the lock that newConnections holds while it
\* writes.
StoreOpen == /\ onmsg # NoMessage /\ newc = None
             /\ opens' = onmsg /\ onmsg' = NoMessage
             /\ UNCHANGED <<connVars, sendVars, listeners, ch, conns, newc, framer, frames,
                            crash>>
-----------------------------------------------------------------------------
ReadStep(c) == \/ Authorize(c) \/ ReadMessage(c) \/ Relayed(c) \/ ReadEnd(c)
               \/ \E l \in Conns : Msg(c, l)
WriteStep(c) == Take(c) \/ Write(c) \/ WriteFails(c) \/ WriteEnd(c)
NewStep == TakeConn \/ WriteOpen
FrameStep == FramerTake \/ FramerPush
OpenStep == OnMessage \/ StoreOpen

RelayNext == /\ ~crash
             /\ \/ NewStep \/ FrameStep \/ OpenStep \/ Panic
                \/ \E c \in Conns : \/ Add(c) \/ Leave(c) \/ Stall(c)
                                    \/ ReadStep(c) \/ WriteStep(c)

\* Goroutines are scheduled, and a driver goes on streaming as long as it is
\* connected.  Nobody is obliged to connect, to leave or to stall.
Fairness == /\ \A c \in Conns : WF_rvars(ReadStep(c)) /\ WF_rvars(WriteStep(c))
            /\ WF_rvars(NewStep) /\ WF_rvars(FrameStep) /\ WF_rvars(OpenStep)

RelaySpec == RelayInit /\ [][RelayNext]_rvars /\ Fairness
-----------------------------------------------------------------------------
(* Properties *)

\* A peer gets each driver's messages in the order in which they were sent and
\* none of them twice, whatever it misses and whoever else is streaming.
InOrder ==
  \A c \in Conns : \A i, j \in DOMAIN inbox[c] :
    LET e == inbox[c][i] f == inbox[c][j] IN
    i < j /\ e.via = "relay" /\ f.via = "relay" /\ e.m.src = f.m.src => e.m.n < f.m.n

\* A driver does not get its own stream back: its writing goroutine has always
\* seen the authorization that preceded the message.
NoEcho == \A d \in Drivers : \A i \in DOMAIN inbox[d] :
            inbox[d][i].via = "relay" => inbox[d][i].m.src # d

\* What a peer gets through the relay: the streams of others, in their order.
StreamsKept == RelayTypeOK /\ InOrder /\ NoEcho

\* Nobody slows a stream down: whatever the other peers, the writing goroutines
\* and newConnections are blocked on, everything that an authorized driver
\* sends is read and relayed.
StreamsFlow ==
  \A d \in Drivers :
    authorized[d] ~> \/ read[d] = LastFrame + 2 /\ reader[d] = "read"
                     \/ link[d] # "open" \/ crash

\* A peer that is gone stops being a listener, although its writing goroutine
\* may be asleep or stuck.
LeaversForgotten == \A c \in Leavers : link[c] = "gone" ~> c \notin listeners \/ crash

\* A connection that newConnections has been told of gets the open frame that
\* is stored, unless a peer that stalls holds up newConnections.
Told(c) == \E i \in DOMAIN inbox[c] : inbox[c][i].via = "open"
NewcomersTold ==
  \A c \in Conns :
    opens # NoMessage /\ c \in {conns[i] : i \in DOMAIN conns}
      ~> Told(c) \/ link[c] # "open" \/ crash \/ \E s \in Conns : stalled[s]
=============================================================================
