------------------------------- MODULE Screen -------------------------------
(***************************************************************************)
(* How memesweeper's picture reaches its clients: the server of            *)
(* examples/memesweeper/cmd/server with pkg/window and pkg/tcp.  Two       *)
(* goroutines render and send, "main" when a game is over and "tick" every *)
(* 16 ms before that; a third, TCP.Start, welcomes clients.  They share    *)
(* the Renderer without a lock and the list of sockets under one.          *)
(*                                                                         *)
(* The game is what there is to see of Sweeper: a row of two cells, the    *)
(* first safe and the second a bomb, and a smiley to the right of them.    *)
(* TCP keeps a connection's bytes in order, so view[c] is what c shows     *)
(* when it has read all that was written to it.                            *)
(***************************************************************************)
EXTENDS Renderer, FiniteSets

CONSTANTS MaxClients   \* bound: connections, each with the id that Start counts

VARIABLES
    game,      \* [open, bomb, lost, pick]: what is to be seen
    over,      \* the state of the board is WIN or LOSE
    zs,        \* the heights of renderables, in their order
    ticked,    \* a tick has been rendered since main changed the game
    buffer, previous,     \* of the Renderer
    out,       \* of each goroutine: the cells it is about to send
    pc,        \* of each goroutine: how far it is with Render and Send
    nth,       \* of each goroutine: sockets it has written to
    removals,  \* of each goroutine: indexes of sockets that failed
    sockets,   \* of the TCP server
    welcomes,  \* how many welcome messages are registered
    hello,     \* [conn, sent, due]: the connection Start welcomes, the messages sent of those due
    view,      \* of each client: its picture, <<>> before it has a window and when it has left
    left,      \* clients that have closed their end
    reset,     \* clients whose end has answered a write with a reset
    stalled,   \* clients that have stopped reading and whose buffers are full
    gap,       \* history: clients that missed a picture between welcome and sockets
    overlap,   \* history: one goroutine rendered or sent while the other did
    crash

screen == <<buffer, previous, out>>
history == <<gap, overlap>>
ends == <<view, left, reset, stalled>>
send == <<nth, removals>>
vars == <<game, over, zs, ticked, screen, pc, send, sockets, welcomes, hello, ends, history,
          crash>>

Clients == 1 .. MaxClients
Goroutines == {"main", "tick"}
Other(g) == CHOOSE h \in Goroutines : h # g
NoConn == 0
Nobody == [conn |-> NoConn, sent |-> 0, due |-> 0]
NoCells == [i \in {} |-> Blank]
None == <<-9, -9>>

(***************************************************************************)
(* The things on the screen, by height: the smiley, the board and the      *)
(* place in the lead.                                                      *)
(***************************************************************************)
Glyph(v) == [v |-> v, bg |-> "default"]
Board(g) == [z |-> 2, loc |-> <<0, 0>>,
    cells |-> [o \in {<<0, 0>>, <<0, 1>>} |->
                 IF o = <<0, 0>> THEN IF g.open THEN Glyph(".") ELSE Blank
                 ELSE [v |-> IF g.bomb THEN "*" ELSE " ", bg |-> "gray"]]]
Smiley(g) == [z |-> 1, loc |-> <<0, 2>>,
    cells |-> [o \in {<<0, 0>>} |-> Glyph(IF g.lost THEN "(" ELSE ")")]]
Pick(g) == [z |-> 100, loc |-> g.pick,
    cells |-> [o \in IF g.pick = None THEN {} ELSE {<<0, 0>>} |-> BackgroundCellOnly("red")]]
Thing(g, z) == CHOOSE t \in {Board(g), Smiley(g), Pick(g)} : t.z = z
Things(g) == [n \in 1 .. Len(zs) |-> Thing(g, zs[n])]

\* What the game looks like when it is drawn on its own in a blank window, by height.
Picture(g) == Placed(NewRender, <<Smiley(g), Board(g), Pick(g)>>)

Shut == [open |-> FALSE, bomb |-> FALSE, lost |-> FALSE, pick |-> None]

Init ==
    /\ game = Shut /\ over = FALSE /\ ticked = TRUE
    /\ \E order \in {<<1, 2, 100>>, <<100, 2, 1>>, <<2, 100, 1>>} :
         zs = Add(Add(Add(<<>>, order[1]), order[2]), order[3])
    /\ buffer = NewRender /\ previous = NewRender
    /\ out = [g \in Goroutines |-> NoCells]
    /\ pc = [g \in Goroutines |-> "idle"]
    /\ nth = [g \in Goroutines |-> 0] /\ removals = [g \in Goroutines |-> <<>>]
    /\ sockets = <<>> /\ welcomes = 2 /\ hello = Nobody
    /\ view = [c \in Clients |-> <<>>] /\ left = {} /\ reset = {} /\ stalled = {}
    /\ gap = {} /\ overlap = FALSE /\ crash = FALSE
-----------------------------------------------------------------------------
(* The game, as main changes it.  (The chat moves the lead within a round.) *)

\* main's clocks run for seconds: a tick has been rendered before it changes anything again.
\* (Where a client that does not read holds the ticks up this is a bound: main then changes the
\* game once, or ends it, renders and sends.)
Clock == pc["main"] = "idle" /\ ~over /\ ticked
Changed(g) == game' = g /\ ticked' = FALSE

ShowLead ==
    /\ Clock /\ game.pick = None
    /\ Changed([game EXCEPT !.pick = <<0, 0>>])
    /\ UNCHANGED <<over, pc>>

ShowCell ==
    /\ Clock /\ game.pick # None
    /\ Changed([game EXCEPT !.pick = None, !.open = TRUE])
    /\ UNCHANGED <<over, pc>>

\* A round that ends the game: over is set in PickSpot, the rest after it, and then main
\* renders, too.
Finish ==
    /\ Clock /\ game.pick # None
    /\ over' = TRUE /\ Changed([game EXCEPT !.pick = None])
    /\ UNCHANGED pc
ShowBombs ==
    /\ pc["main"] = "idle" /\ over /\ ~game.bomb
    /\ Changed([game EXCEPT !.bomb = TRUE, !.lost = TRUE])
    /\ pc' = [pc EXCEPT !["main"] = "due"]
    /\ UNCHANGED over
ShowReset ==
    /\ pc["main"] = "idle" /\ over /\ game.bomb
    /\ over' = FALSE /\ Changed(Shut)
    /\ UNCHANGED pc

Still == UNCHANGED <<zs, screen, send, sockets, welcomes, hello, ends, history, crash>>
Shows == (ShowLead \/ ShowCell \/ Finish \/ ShowBombs \/ ShowReset) /\ Still
-----------------------------------------------------------------------------
(* Render and Send. *)

\* Everything is drawn into the buffer: main once it has revealed the bombs, a tick while the
\* game is not over.
Place(g) ==
    /\ IF g = "main" THEN pc[g] = "due" ELSE pc[g] = "idle" /\ ~over
    /\ pc' = [pc EXCEPT ![g] = "placed"]
    /\ buffer' = Placed(buffer, Things(game))
    /\ ticked' = (ticked \/ g = "tick")
    /\ overlap' = (overlap \/ pc[Other(g)] \notin {"idle", "due"})
    /\ UNCHANGED <<game, over, zs, previous, out, send, sockets, welcomes, hello, ends, gap,
                   crash>>

\* What has changed goes to out and to previous, and the buffer is emptied.  A tick that found
\* nothing new sends nothing.
Compare(g) ==
    /\ pc[g] = "placed"
    /\ LET cells == Changes(buffer, previous) IN
         /\ out' = [out EXCEPT ![g] = cells]
         /\ previous' = Merged(previous, cells)
         /\ pc' = [pc EXCEPT ![g] = IF g = "tick" /\ cells = NoCells THEN "idle" ELSE "send"]
    /\ buffer' = clean
    /\ UNCHANGED <<game, over, zs, ticked, send, sockets, welcomes, hello, ends, history,
                   crash>>
\* Send takes the read lock.  A client between its picture and its place in sockets misses it.
RLock(g) ==
    /\ pc[g] = "send"
    /\ pc' = [pc EXCEPT ![g] = "sending"]
    /\ gap' = IF hello.sent = 3 THEN gap \cup ({hello.conn} \ left) ELSE gap
    /\ UNCHANGED <<game, over, zs, ticked, screen, send, sockets, welcomes, hello, ends,
                   overlap, crash>>

\* A write to a peer that has left succeeds once at most: the reset that answers it fails the
\* next one.  No write has a deadline: one to a peer that has stopped reading waits, with the read
\* lock in Send, until it reads again or leaves.
WriteOk(c) ==
    /\ c \notin reset \cup stalled
    /\ reset' = IF c \in left THEN reset \cup {c} ELSE reset
WriteFails(c) == c \in left /\ UNCHANGED reset

IndexFromOne(g) == nth[g] + 1 \* Seeded bug: the index of the next socket.
\* One turn of the loop over sockets.
Index(g) == nth[g]
Write(g) ==
    /\ pc[g] = "sending" /\ nth[g] < Len(sockets)
    /\ nth' = [nth EXCEPT ![g] = @ + 1]
    /\ LET c == sockets[nth[g] + 1] IN
       \/ /\ WriteOk(c)
          /\ view' = IF c \in left THEN view ELSE [view EXCEPT ![c] = Merged(@, out[g])]
          /\ UNCHANGED removals
       \/ /\ WriteFails(c)
          /\ removals' = [removals EXCEPT ![g] = Append(@, Index(g))]
          /\ UNCHANGED view
    /\ UNCHANGED <<game, over, zs, ticked, screen, pc, sockets, welcomes, hello, left,
                   stalled, history, crash>>
RUnlockOnly(g) == \* Seeded bug: what failed is not removed.
    /\ pc[g] = "sending" /\ nth[g] = Len(sockets)
    /\ pc' = [pc EXCEPT ![g] = "idle"]
    /\ removals' = [removals EXCEPT ![g] = <<>>]
    /\ nth' = [nth EXCEPT ![g] = 0]
    /\ out' = [out EXCEPT ![g] = NoCells]
    /\ UNCHANGED <<game, over, zs, ticked, buffer, previous, sockets, welcomes, hello, ends,
                   history, crash>>
RUnlock(g) ==
    /\ pc[g] = "sending" /\ nth[g] = Len(sockets)
    /\ pc' = [pc EXCEPT ![g] = IF removals[g] = <<>> THEN "idle" ELSE "removing"]
    /\ nth' = [nth EXCEPT ![g] = 0]
    /\ out' = [out EXCEPT ![g] = NoCells]
    /\ UNCHANGED <<game, over, zs, ticked, buffer, previous, removals, sockets, welcomes,
                   hello, ends, history, crash>>

Rank(S, k) == Cardinality({j \in S : j <= k})
\* Lock waits for the readers.  The indexes were collected under another lock: if sockets has
\* changed meanwhile they name others, or none, which ends the process.
Unread == \A g \in Goroutines : pc[g] # "sending"
Latest(idxs) == idxs[Len(idxs)] + 1
\* Indexes ascend, and what they name is removed from the last to the first.
Without(seq, idxs) ==
    LET kept == DOMAIN seq \ {i + 1 : i \in ToSet(idxs)}
    IN [n \in 1 .. Cardinality(kept) |-> seq[CHOOSE k \in kept : Rank(kept, k) = n]]
RemoveSockets(g) ==
    /\ pc[g] = "removing" /\ Unread
    /\ pc' = [pc EXCEPT ![g] = "idle"]
    /\ removals' = [removals EXCEPT ![g] = <<>>]
    /\ IF Latest(removals[g]) > Len(sockets) THEN crash' = TRUE /\ UNCHANGED sockets
       ELSE sockets' = Without(sockets, removals[g]) /\ UNCHANGED crash
    /\ UNCHANGED <<game, over, zs, ticked, screen, nth, welcomes, hello, ends, history>>
-----------------------------------------------------------------------------
(* TCP.Start and the clients. *)

\* main registers the full picture as the third welcome when Start is already running.
WelcomeMessage ==
    /\ welcomes = 2 /\ welcomes' = 3
    /\ UNCHANGED <<game, over, zs, ticked, screen, pc, send, sockets, hello, ends, history,
                   crash>>

Accept(c) ==
    /\ hello = Nobody /\ view[c] = <<>> /\ c \notin left
    /\ \A d \in 1 .. c - 1 : view[d] # <<>> \/ d \in left
    /\ hello' = [conn |-> c, sent |-> 0, due |-> welcomes]
    /\ UNCHANGED <<game, over, zs, ticked, screen, pc, send, sockets, welcomes, ends, history,
                   crash>>

ShownBuffer(c, n) == \* Seeded bug: the picture being drawn is sent, not the one that was sent.
    CASE n = 1 -> view[c] [] n = 2 -> NewRender [] n = 3 -> Merged(NewRender, buffer)
\* The commands, the window and the picture, in order, as many as there were at the start: an
\* early client gets no picture.  When one cannot be written the connection is left as it is.
Shown(c, n) == CASE n = 1 -> view[c] [] n = 2 -> NewRender [] n = 3 -> FullRender(previous)
Welcome ==
    /\ hello # Nobody /\ hello.sent < hello.due
    /\ LET c == hello.conn IN
       \/ /\ WriteOk(c)
          /\ view' = IF c \in left THEN view
                     ELSE [view EXCEPT ![c] = Shown(c, hello.sent + 1)]
          /\ hello' = [hello EXCEPT !.sent = @ + 1]
       \/ /\ WriteFails(c)
          /\ hello' = Nobody
          /\ UNCHANGED view
    /\ UNCHANGED <<game, over, zs, ticked, screen, pc, send, sockets, welcomes, left, stalled,
                   history, crash>>

Join ==
    /\ hello # Nobody /\ hello.sent = hello.due /\ Unread
    /\ sockets' = Append(sockets, hello.conn)
    /\ hello' = Nobody
    /\ gap' = IF hello.sent = 2 /\ previous # NewRender THEN gap \cup ({hello.conn} \ left) ELSE gap
    /\ UNCHANGED <<game, over, zs, ticked, screen, pc, send, welcomes, ends, overlap, crash>>

Leave(c) ==
    /\ c \notin left /\ (view[c] # <<>> \/ hello.conn = c)
    /\ left' = left \cup {c} /\ stalled' = stalled \ {c}
    /\ view' = [view EXCEPT ![c] = <<>>] /\ gap' = gap \ {c}
    /\ UNCHANGED <<game, over, zs, ticked, screen, pc, send, sockets, welcomes, hello, reset,
                   overlap, crash>>

\* A client has stopped reading: a write finds its window and the server's buffer for it full.
\* It may read again, or leave with what it has not read; then the write that waits fails.
WritesTo(c) ==
    \/ hello.conn = c /\ hello.sent < hello.due
    \/ \E g \in Goroutines : /\ pc[g] = "sending" /\ nth[g] < Len(sockets)
                            /\ sockets[nth[g] + 1] = c
Stall(c) ==
    /\ c \notin left \cup stalled /\ WritesTo(c)
    /\ stalled' = stalled \cup {c}
    /\ UNCHANGED <<game, over, zs, ticked, screen, pc, send, sockets, welcomes, hello, view, left,
                   reset, history, crash>>
Resume(c) ==
    /\ c \in stalled
    /\ stalled' = stalled \ {c}
    /\ UNCHANGED <<game, over, zs, ticked, screen, pc, send, sockets, welcomes, hello, view, left,
                   reset, history, crash>>

Render(g) == Place(g) \/ Compare(g)
Send(g) == RLock(g) \/ Write(g) \/ RUnlock(g) \/ RemoveSockets(g)
Start == (\E c \in Clients : Accept(c)) \/ Welcome \/ Join

Next ==
    /\ ~crash
    /\ \/ Shows \/ WelcomeMessage \/ Start
       \/ \E g \in Goroutines : Render(g) \/ Send(g)
       \/ \E c \in Clients : Leave(c) \/ Stall(c) \/ Resume(c)

\* The goroutines wait for their clocks, for the lock, and for clients that do not read.  A lock
\* that is asked for is granted although readers come and go (sync.RWMutex), and a write goes on
\* when its client reads.  Clients owe nothing: that they read is not assumed.
Fairness ==
    /\ WF_vars(~crash /\ Shows)
    /\ SF_vars(~crash /\ (Welcome \/ Join))
    /\ \A g \in Goroutines : SF_vars(~crash /\ (Render(g) \/ Send(g)))

Spec == Init /\ [][Next]_vars /\ Fairness
-----------------------------------------------------------------------------
Glyphs == {" ", ".", "*", ")", "("}
CellsShown == [v : Glyphs, bg : {"default", "gray", "red"}]

\* Every variable stays in its type: in particular nothing but drawn cells is ever sent or kept.
TypeOK ==
    /\ \A i \in Idxs : previous[i] \in CellsShown
    /\ \A i \in Idxs : buffer[i] \in CellsShown \/ IsEmpty(buffer[i])
    /\ \A g \in Goroutines : \A i \in DOMAIN out[g] : i \in Idxs /\ out[g][i] \in CellsShown
    /\ \A c \in Clients : view[c] = <<>> \/ \A i \in Idxs : view[c][i] \in CellsShown
    /\ sockets \in Seq(Clients) /\ hello.conn \in Clients \cup {NoConn}
    /\ left \in SUBSET Clients /\ reset \in SUBSET left /\ stalled \in SUBSET (Clients \ left)

Sure(c) == c \in ToSet(sockets) \ (left \cup gap) /\ ~overlap
Quiet(g) == pc[g] \in {"idle", "due", "placed"}

\* A client that joined without a gap shows what the renderer takes for shown, whenever no
\* change is on its way: the full picture of its welcome and the changes since, which previous
\* keeps and nothing else, add up (Render, FullRender, Start).
ClientsInStep ==
    (\A g \in Goroutines : Quiet(g)) => \A c \in Clients : Sure(c) => view[c] = previous

\* When main has rendered and sent a game that is over, its clients see all of it, the bombs and
\* the smiley too: the last tick has not spoilt it.  Only as long as the two goroutines have not
\* rendered at the same time.
EndIsShown ==
    /\ over /\ game.bomb /\ pc["main"] = "idle" /\ pc["tick"] = "idle"
    => \A c \in Clients : Sure(c) => view[c] = Picture(game)

\* A connection leaves sockets only when its peer has left it, and the process does not end,
\* while no two Sends overlap: then the indexes still name what failed (TCP.Send).
OnlyLeaversDropped ==
    ~overlap => /\ ~crash
                /\ \A c \in Clients : view[c] # <<>> /\ c \notin left /\ hello.conn # c
                                      => c \in ToSet(sockets)

\* Things are drawn by their height, in whatever order they were added (Add's binary search).
DrawnByHeight == zs = <<1, 2, 100>>

\* A client that has left is dropped in the end: rounds go on, so something is sent to it until
\* it fails.  Unless some client never reads again: a Send that waits for it keeps the read lock
\* for good (conn.Writer.Write has no deadline), and nobody is dropped or joins any more.
Readers == \A c \in Clients : []<>(c \notin stalled)
LeaversDropped ==
    Readers => \A c \in Clients : c \in left /\ c \in ToSet(sockets)
                                  ~> c \notin ToSet(sockets) \/ crash

\* As long as a client is there it is sent what has changed, and keeps up with it.
ClientsServed == ClientsInStep /\ OnlyLeaversDropped
=============================================================================
