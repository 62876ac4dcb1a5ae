# A verification project for next.vim

The repository holds five programs around Neovim and terminals: **arcadevim**
(a proxy that gives each game client a game server, in Go), **vim-mate** (a
terminal program's pictures streamed to browsers, chat that steers programs, and
a tower-defense engine; Go, Zig, JavaScript and Lua), **vim-insight** (a Neovim
plugin that measures what its user does, in Lua, with a Go server),
**grapple** (marks, terminals and menus for Neovim, in Lua) and **titan** (a
platform game steered with vim motions, in JavaScript).

This directory holds TLA+ modules of the parts whose correctness depends on what
several goroutines, processes or peers do in which order, the TLC configurations
that check them on small instances, and proofs that TLAPS checks for instances of
any size.  `PROJECT.json` maps every definition to the lines it models.

To check a module: `tlc -config MCMatchMaking.cfg MCMatchMaking` (or any other
pair named below).  To check the proofs: `tlapm MatchMakingProofs.tla`.

## 1. Inventory

Paths are relative to `src/`.

### arcadevim

| part | state | operations | what is hard | what must hold |
|---|---|---|---|---|
| matchmaking (`pkg/am-proxy/matchmaking.go`) | flag, WaitGroup and last created id under a mutex; one goroutine per client | find the best server; become the creator or wait; create, poll, release | the WaitGroup is replaced in place while released waiters are inside it; the last id is read without the mutex | one creator, one server on its way up, everyone is matched |
| server management (`pkg/server-management/local.go`) | process ids; one goroutine per process | spawn, poll until ready or closed, read rows | polling without a timeout; processes that die | a creation ends |
| game-server stats (`pkg/game-server-stats`) | a table of one row per server, shared between processes | insert or update, query by load, by id | whole-row writes of old copies; a closed database | the row catches up with the server |
| game server (`pkg/api/server.go`) | state, three counters, a mutex that only some take | accept, count, time out, go idle, close | closing races with accepting; counters read without the mutex | counts are right; a server closes empty, and closes in the end |
| proxy connection (`pkg/am-proxy/am-proxy.go`, `pkg/api/client.go`) | two sockets, two framers, a context | authenticate, match, dial, answer, forward, remove | either end fails or vanishes at any moment; a select over three sources | answer first, order kept, nothing after a goodbye, resources freed |
| packets (`pkg/packet`) | a byte buffer that fills and shifts | encode, push, pull | packets cut anywhere by reads; boundary lengths | every packet comes out whole, once and in order |
| accept loop (`pkg/am-proxy/net.go`) | listener, counters, closed flag | accept, add, close | connections accepted before and added after closing | every client is added; what comes too late ends the process in known ways only |
| context reader (`pkg/utils/context.go`) | three goroutines, two channels | read, cancel | a channel closed under a sender | no send on a closed channel but after a cancel; a hang-up is heard |
| command runner, simulation, fly.io, logging, tools | — | — | — | harness, wiring and formatting; not modelled |

A client's packets reach the proxy through `packet`; its goroutine calls
matchmaking, which starts game-server processes through server management; these
publish their rows in the stats table, the only thing the proxy ever sees of a
server before it dials it; from then on the connection forwards packets both ways.

### vim-mate

| part | state | operations | what is hard | what must hold |
|---|---|---|---|---|
| relay (`pkg/v2/relay`) | listeners under a lock, bounded channels, the stored open frame | connect, authorize, relay, drop, leave; tell newcomers | two goroutines per connection, four for the server; slow and hanging peers | streams in order, never echoed, held up by nobody; leavers forgotten; newcomers told |
| frames (`pkg/v2/net`, `js/net`, `js/decode`) | the framer's buffer, the page's cache of 256 | frame, cache, pop, seek | a frame shares the framer's buffer; sequence numbers wrap | frames are shown in order and whole |
| encodings (`ascii_buffer`, `encoder`, `huffman`, `src/encoding`) | previous picture, runs, code tree | encode, choose, decode | runs of 255 and more; empty input | decoding undoes encoding |
| tower defense (`src/engine`) | towers, creeps, projectiles, board, rounds, counters | place, upgrade, hurt, spawn, walk, shoot, end a round | indexes of dead objects; paths over a changing board; counters over a whole round | counters equal what they count; a round ends with nothing left over; a game ends |
| chat, controller, program (`pkg/v2/chat`, `controller`, `program`) | votes of the round; a clock | add, next, send a key | adding and resetting in two goroutines | each vote counts in one round |
| TCP server (`pkg/tcp`) and Lua client (`lua/vim-mate`) | sockets under a lock; parsers | accept, welcome, broadcast, drop | indexes collected under one lock and used under another | only broken sockets are dropped |
| window (`pkg/window`), ansi, colours, metrics | two pictures; counters | add, remove, render | partial renders | the terminal shows the picture |
| memesweeper (`examples/memesweeper`) | board, votes, clock | vote, reveal, restart | votes that arrive between rounds | a cell is revealed once; the game ends when won or lost |

### vim-insight

| part | state | operations | what is hard | what must hold |
|---|---|---|---|---|
| motions (`lua/vim-apm/motion`) | a position in a tree of keys | feed a key, reset | digits, operators and text objects mix | each finished motion is reported once, an unfinished one never |
| statistics (`stats.lua`, `ring_buffer.lua`) | ring buffer, sliding sum, counters | push, trim, merge | growing while wrapped; clamping | the sum is that of the motions in the window |
| events and reporters (`bus.lua`, `actions.lua`, `reporter/`, `pkg/parser`, `cmd/server`) | listeners, idle timer, message queue, connection state | emit, listen, enable, flush, parse | callbacks after stop; reads that end inside a packet | what is queued is sent once; what is sent is parsed |

### grapple

| part | state | operations | what is hard | what must hold |
|---|---|---|---|---|
| marks (`mark.lua`, `init.lua`) | a list with holes; one file for all editors | add, remove, move, save, refresh | holes; several editors saving one file | a file has one place; other projects survive a save |
| terminals (`term.lua`, `tmux.lua`) | terminals by index | go to, send, clear | holes; windows closed from outside | an index names one live terminal |

### titan

| part | state | operations | what is hard | what must hold |
|---|---|---|---|---|
| player (`objects/titan`, `input`) | modifiers, pending command, jump, dash, portal, platform | keys and ticks | modes that end each other, keys of one tick | modes exclude each other; a jump or dash ends |
| level (`objects/level`) | platforms and their circuits | move, collide, change level | collisions while moving | circuits stay between their ends |
| editor (`editor`, `bus.js`) | selection, drag | mouse events | listeners that remove themselves | one platform is selected |

The modelled parts are those of section 2.  `PROJECT.json` lists every part, also
those left out, with the reason.  It also lists the hazards of the code at their
lines, each with the property that covers it or the reason why none does yet.

## 2. What is modelled

| module | models | checked by |
|---|---|---|
| `ServerStates` | states of a server, rows, loads | `MCGameServer`, `MCMatchMaking` |
| `ServerRow` | what a game-server process promises of its row (abstract) | implemented by `GameServer`, relied on by `MatchMaking` |
| `MatchMaking` | `matchmaking.go`, `local.go`, the queries of `sqlite.go` | `MCMatchMaking`, `MatchMakingProofs` |
| `GameServer` | `server.go` as `cmd/api-server/main.go` runs it, the updates of `sqlite.go` | `MCGameServer`, `GameServerProofs` |
| `ProxyConnection` | `am-proxy.go`, `client.go`, `FrameWithReader` | `MCProxyConnection`, `ProxyConnectionProofs` |
| `AcceptLoop` | `am-proxy/net.go` and who starts and closes it | `MCProxyConnection`, `ProxyConnectionProofs` |
| `ContextReader` | `utils/context.go` and the end of `Client.Connect` | `MCProxyConnection`, `ProxyConnectionProofs` |
| `PacketPipe` | what a connection with a framer promises (abstract) | implemented by the three framers |
| `PacketFramer` | the wire format and the framer of `packet.go` | `MCFramers`, `ProxyConnectionProofs` |
| `TcpFrames` | `pkg/tcp`, `pkg/commands`, the cells of `pkg/window` as bytes | `MCFramers` |
| `AnsiFramer` | `ansi_parser`, the reading end of `examples/v2/doom` | `MCFramers` |
| `FrameStream` | `v2/huffman`, `ascii_buffer`, `v2/encoder`, the page's `decode/frame.js` | `MCFramers` |
| `Quadtree` | `ascii_buffer/virtual_box.go` | `MCFramers` |
| `Relay` | `relay.go`, `conn.go`, `client.go`, the relay server's `main.go`, the goroutine of `framer.go` | `MCRelay`, `DoomProofs` |
| `TDRounds` | what the tower-defense engine promises the program that drives it (abstract) | implemented by `TowerDefense`, relied on by `TDDriver` |
| `TowerDefense` | `main.zig`, `game-state.zig`, `tower.zig`, `creep.zig`, `projectile.zig`, `rounds.zig` | `MCTowerDefense`, `TowerDefenseProofs` |
| `TDDriver` | `examples/v2/td`: main's loop, the players, their movers, lines and reports | `MCTDDriver`, `TDDriverProofs` |
| `ChatVotes` | `v2/chat`, `v2/controller`, doom's and tower defense's use of them | `MCChatVotes`, `DoomProofs` |
| `TowerVotes` | `pkg/tower_defense`, the older game | `MCChatVotes`, `DoomProofs` |
| `Sweeper` | `examples/memesweeper`: board, votes, rounds | `MCSweeper`, `ScreenProofs` |
| `Renderer`, `Screen` | `pkg/window/renderer.go`; memesweeper's server with `pkg/tcp` | `MCScreen`, `ScreenProofs` |
| `Particles` | `pkg/particles` | `MCScreen`, `ScreenProofs` |
| `MotionTree` | vim-insight's `motion/`, the modes of `apm/init.lua` | `MCPlugins`, `PluginProofs` |
| `Calculator` | vim-insight's `stats.lua` (actions per minute), `ring_buffer.lua` | `MCPlugins`, `PluginProofs` |
| `StatsFile` | vim-insight's file reporter, `interval.lua`, `init.lua`, the merge of `stats.lua` | `MCPlugins`, `PluginProofs` |
| `Marks` | grapple's `mark.lua`, `init.lua`, the menu of `ui.lua` | `MCPlugins`, `PluginProofs` |

Where one MC module stands beside several components, a behaviour is one of them,
told by a variable (`kind`, `part`, `olderTD`): they share a run, not a state.

### MatchMaking

One goroutine per connection (`pc`), with a label between any two atomic regions
of `createAndWait`, `startWaiting`, `stopWaiting` and `matchmake`.  `waitingForServer`,
`lastCreatedGameId` and `nextId` are the code's fields.  `wg` is `sync.WaitGroup`
by its counter, waiters and semaphore, which is external: `startWaiting` assigns a
new WaitGroup over one whose waiters may not have left `Wait`, and only at this
level does one see that they then take a token of the new one, sleep for ever, or
meet the runtime's panic.  `crash` records which assertion or panic ended the
process.  The servers are the processes of `ServerRow`, one per id; `gen` and
`joined` are history variables: how many creations have begun, and which one
a waiter joined.

### GameServer and ServerRow

`pc` is `main` and then `Run`; `cl` the client and its `handleConnection`; `upd` the
stat updater with its two copies.  `incConnections` takes the mutex for two
assignments, which the model keeps apart, and the updater copies the stats without
it in two halves.  Its goroutine takes its first copy (`StatStart`) whenever it gets to run, and
takes it for what is in the row: clients that have been counted by then are in the row only
with the next change, which `RowCatchesUp` excepts (`Overlooked`).  The select of `Run` is `Timer`, `Accept` or `LeaveLoop`, any of
those that are ready.  `Update` fails when `Sqlite.Run` has closed the database
after an interrupt.  `ServerRow` is what the rest of the system may take for granted: a row
first says ready and empty, a late stat write may bring back an older state
but never a later one, and nothing is written after the process has ended.
`KeepsPromise` maps one to the other, and `ServersFollowRow` says of
`MatchMaking` that its servers are such processes: the two sides meet in `ServerRow`, and
both are proved.

### ProxyConnection

Both ends, both framers, both sockets and the wrapper's goroutine.  A side is "c"
(client) or "g" (game server); `wire`, `hand` and `chan` follow a packet from the
peer through `FrameWithReader` into the framer's channel; `out` is what the proxy
wrote.  `MaySucceed` and `MayFail` say when a write to a socket can succeed and
fail: a write to a peer that has left may still succeed, and is lost.
`removeConnection` closes both sockets and cancels the context; the goroutine goes on.

### AcceptLoop and ContextReader

`AcceptLoop` has `Run` (`run`), `listen` (`accept`), a goroutine per added connection and the
owner that waits for `ready` and closes.  Three orders of these end badly, and `NoLateAdd`
says that no others do: a proxy that is closed before `Run` has stored its listener leaves
the listener open, and the first client fails `Add`'s assertion; a connection that
was accepted before `Close` and is added after it fails the same one; and when `Run` leaves
its loop, connections in its channel stay there.

`ContextReader` has the three goroutines and two channels of `Read`, the consumer of `Connect`,
and the framer that `Connect` leaves running, which takes reads away from it.  Closing
`Out` and `Err` under their senders panics, but only after a cancelled context
(`PanicNeedsCancel`); a client whose server closed first is told nothing (`HangupIsHeard`
excepts it).

### PacketPipe and the framers

`PacketPipe` is a queue: what is received is a prefix of what was sent, and everything
comes in the end.  Three framers implement it over a connection that is cut into
any sequence of reads.

* `PacketFramer`: bytes are numbers below `Base`; the length field has two of them.  `Read` is
  one read of at most `ChunkSize` bytes and the copy into the buffer; `Pull` takes one packet out
  and moves the rest to the front, in the 16-bit arithmetic of the code.  It implements the
  promise for the packets before the first one of another version, after which the code
  collects bytes for ever.  `Writable` says which packets the peer may write as the n-th; the run
  writes three lengths and two versions.
* `TcpFrames`: commands with a length of two bytes that a `FrameReader` cuts out.  A command that is
  longer than `MAX_PACKET_LENGTH` is refused by every reader for ever (in the code, a partial
  render of more than 908 cells), and nothing after it arrives.  The writer's length wraps
  at 65,536 bytes; `MaxCells` stays below.  `Color.UnmarshalBinary` inverts the flag
  that tells foreground from background; the promise is about what can be seen (`Visible`).
* `AnsiFramer`: doom's text as tokens.  A frame is told by its number of rows or by the escape
  that starts the next one; in the second case the frame drawn last only comes with the one
  after it.  The first text has a colour, as doom's has.

### FrameStream and Quadtree

`CalculateHuffman` is the construction of the code: a heap of nodes, the decoding tree with byte offsets written left
before right, and the table; the order of ties in the heap changes codes, not their
length, and `HuffmanIsShortest` compares with all prefix codes.  `FrameStream` is the encoder
as doom's driver sets it up and the page.  The length that an encoding
reports ignores Huffman's four header bytes and is one too large when the bits fill
their last byte, so the choice is not always of the shortest; the number of bits wraps at
65,536.  The page throws at a run-length frame ("WTF unknown encoding",
`js/decode/frame.js:174-182`) and at a Huffman frame of one colour, and then
stops (`Throw`).  `Quadtree` cuts boxes of all shapes of a small set; with values
of two bytes a row must hold at least one value per box and a whole number of them, as
the code's callers have it.  `Next` compares the row with the columns (`virtual_box.go:174`), so
a box with more than one row over its columns ends the process when it gets there
(`NextFails`); `EveryValueOnce` says that no other box does, and that up to there each value is read once.

### Relay

Every connection has a reading goroutine (`reader`, `read`, `todo`) and a writing one
(`writer`, `outgoing`, `msgs`); the server has `relay` (run by the readers under the
read lock), `newConnections` (`newc`), the framer's goroutine and `onMessage`.  A
driver's message is one whole frame, and frame 0 opens the picture.  `Leave`,
`Stall` and the websocket library are external: a peer may go away, or stop
reading without going away, and the library panics when it finds two goroutines
writing to one connection.  A viewer is a listener before it has been sent the open frame,
so it may see frames first, at which its page gives up (`js/app.js:32`): what
`NewcomersTold` promises is that the open frame comes.

### TowerDefense and TDRounds

The engine is one thread; `pc` is the place in the loop of `main` and `todo` the
objects that the current loop over towers or creeps has still to visit, so that what one
object's turn does to another that comes later in the same update is kept apart.
`towers` and `creeps` hold the living objects by their index in the code's lists, which only
grow (`built`, `bred`); a dead one is not in the domain.  `changed` is the
comparison of `boardChanged` with its value at the start of the update.  `shots` are
the projectiles in flight.  A position is a cell: the model leaves out where between two
cells a creep is, and time, so a creep covers up to `Stride` cells in an update
(`CreepWalks`, `CreepArrives`), a tower that has a target fires or rests, a
projectile lands or flies on, and a tick spawns at least the first pair and then any
number of those that are left.  `Round` takes whole the lists of positions; `place`
works them off one at a time (`Upgrade`, `Hurt`, `Build`), as one frame of the code.
Without positions the code reads an undefined list: the model lets it find any, or
fail on the assertion (`RoundUndefined`).

`CalculatePath` is `walkAStar` and `path` as recursive functions, the order of ties and the
limit of 255 included.  `TDRounds` is what the driver of the engine sees: waiting,
playing, finished, and whether towers are owed.  Which creep in range is the closest to the exit hangs
on the fractions of cells that are left out (`creep.zig:26-32`), so a tower aims at any of
them (`Targets`).

### TDDriver

Composed with `TDRounds` for the engine.  Three goroutines write lines to the engine, each as a
text and an end without a lock, so two texts may come to stand in one line, which the engine
then reads as neither (`torn`).  A report may come in one read with other output, and is then
not understood (`dropped`).  A mover may take positions from its channel and write them
after its round has been cancelled (`late`).  The properties say what holds but for
these three.  An AI player asks its service again until its context is done; how
often is not bounded in the code, for its counter is never counted up.  Two times are
assumed: the 100 ms between two writes of `main` are longer than a write, and a round
that is played is longer than what the goroutines of the round before have left to do.
To take a list from a channel and to write its text is one step.  A mover that has been told to
stop closes its channels 100 ms later (`players.go:53-55`), when nobody uses them any more: that
is left out.

### ChatVotes and TowerVotes

Every read and write of what the goroutine of the chat and that of its user share is a step: `Add`'s
search, its append (which may write into an array that `Reset` has dropped: `own`), its count, its
comparison; `Reset`'s two assignments; `Peak`'s reads.  `Peak` sorts by counts and may leave messages with equal
counts in any order (`Orders`, `slices.SortFunc` is not stable).  `raced` and `over` tell whether an `Add` met
the user, and what holds then as well is `NoOldWinner`.  Doom plays what `Reset` returns; a tower-defense
player throws that away (`twitch.go:99-101`) and goes by the head of the list that `Peak` shows it (`Returned`).  An
append that `Reset` meets brings the dropped list back (`chat.go:117`), and so votes of an older round to its head:
`lasting` is what may be there because of that.  The user is doom's controller with its
select, its five newlines and its 500 (which, being nanoseconds, never hold a key
back), or tower defense's chat player.  `TowerVotes` is the older game, whose maximum is a struct that is copied
field by field.

### Sweeper, Renderer, Screen and Particles

`Sweeper` plays with every drawing of the bombs.  Rows of the board are numbered
from one and `memesweeper.go:143` refuses only rows past the last, so a vote for row zero wins a
round and then indexes off the board: `PickOffBoard` ends the process, and the
properties speak of games that go on.  The column is `col[0]-'A'` of bytes (`memesweeper.go:150`): what
comes before 'A' wraps to 240 and more (`FromA`), and is too big.  `Renderer` is the heights, the placing and the partial
renders as operators; `Screen` has the two goroutines that use one `Renderer` without
a lock, `TCP.Send` with its two locks, and the connection that is being welcomed.  A write has no
deadline (`tcp.go:76`, `connection.go:138`): a client that has not left but stops reading (`Stall`; it may
`Resume`) holds up `Send` with its read lock, and with it removals and newcomers.
`overlap` and `gap` are histories of what those allow to go wrong: two renders or sends at once, and a picture
sent between a client's welcome and its place in the list.  `Particles` counts in parts of a
cell.  `Start` resets the particles some time after
`NewParticleSystem` took the time, and the first `Update` gives them that time too (`born`).  A clock that goes back would put a particle in a negative row, and the model's does not.
`CoffeeAssumption` takes an odd width of three columns or more: `NewCoffee` refuses even ones,
and one column would divide zero by zero.

### MotionTree, Calculator, StatsFile and Marks

`MotionTree` has a motion as a function from keys to answers, a state and the motion that comes next,
and makes them as `motions.lua` does (`make_number`, `make_key`, `make_any_key`, `make_or`).  `Settled` is the
loop of `feedkey`, which calls again with the same key when a number has not consumed it, twice at most.  `T` is
made of the key "t", and a motion that begins with a letter behind `numbered` (gg, zz, u, ^R) is never
reached, for `numbered` takes every key; after digits at the head the recogniser stays at
the head, so that "3viw" and "6^D" count as motions, although `motion_tree.lua:120` says that no
motion starts with a number and then visual.  `IsMotion` and `IsBegun`
of `MotionsRecognised` say which words of keys the code does recognise, and not by the tree.

`Calculator` is the ring buffer with `trim`, a loop that takes no more turns than the ring has
places, and with its `_resize`, which is only called with start and stop equal, copies one item
to an index where nobody looks, and leaves a buffer that looks empty: from a full ring (1000
motions within a minute) on the sum is not trimmed until the next clear, which `SumIsWindow`
excepts (`resized`).

`StatsFile`: a report reads the common file, empties it by opening it, and writes it.  Two
reports at once lose what one of them has merged (`overlap`); a report that cannot open the file
ends with an error in `fs_close` and with it the interval (`OpenFails`), one that cannot write it goes on as if it had
(`WriteFails`), and both leave what they have cleared unwritten (`failed`); a second `setup` within the interval revives the
first reporter's callback, and time is counted twice (`again`).

`Marks`: saving has the same three steps, with what two editors at once may spoil (`spoiled`).  The
project is asked for at every call (`utils.lua:10-38`), so `:cd` and a checkout change it (`ChangeDir`) and
grapple does nothing.  A save reads the other projects again, but writes the editor's own from memory.  `missed` is what
an editor does not know of the projects, since it started or last read them; when it saves one of
those, on BufLeave if not before, another editor's marks there are lost (`overtaken`): two editors in one project
are enough, or one that comes to it by `:cd`.  The menu shows a hole as "(empty)" (`ui.lua:100-105`) and saves
its lines as they are, so that each becomes a mark of that name (`toggle_quick_menu`, `Empty`); a user may also
write a file twice (`repeated`).

## 3. The runs

A property of a run is a conjunction of named parts, each with its own comment in
its module; the table names the parts in parentheses.  A type invariant is a conjunct of one
of them, or proved.

| run | instance | shows |
|---|---|---|
| `mm_all` | 3 clients, 3 servers, one retires, one may die, one late stat write | `OneAtATime` (`OneCreator`, `OneServerStarting`): creations are serialised; `OnlyOvertakenMiss`: only a waiter that a later creation overtook misses its server; `CreationEnds`, whatever becomes of its server; `WaitersReleased` when it has |
| `gs_all` | 2 clients, one may vanish, an interrupt | `CountsAgree`; `ClosesEmpty`: a server that closes leaves nobody behind; `KeepsPromise`: it implements `ServerRow`; `ShutsDown` when left; `RowCatchesUp`: the row has the counters in the end, but for clients that the updater's first copy takes for written |
| `pc_all` | 2 packets each way, channels of 1, a client that may vanish; 3 clients for the accept loop; 3 reads for the context reader | `AnswerFirst`; `InOrder`; `NothingAfterGoodbye`; `AroundSafe` (`NoLateAdd`: late clients end the proxy only as described; `PanicNeedsCancel`); `EveryoneIsServed` (`ReadyMeansListening`, `EveryClientAdded`: clients get in; `ServerHeard`: the server's packets arrive; `GoodbyeReleases`: a disconnect frees the server's socket; `HangupIsHeard`) |
| `wire` | 3 packets, 3 commands or 3 pictures, cut into every sequence of reads; frames of 8 values; quadtrees of all small shapes | `KeepsPipe`: the framers are queues, with bounded buffers; `PageInStep`: a page shows what was drawn; `EncodingsRight` (`HuffmanReadsBack`, `HuffmanIsShortest`; `EveryValueOnce`: boxes cover every value once, up to one that fails the assertion of `Next`) |
| `encodings_none` | the same | **violated**: the driver only chooses encodings it can write (`EncodingKnown`) |
| `relay_all` | a driver, a viewer that may leave or stall, 3 messages, channels of 1 | `StreamsKept` (`InOrder`, `NoEcho`), `StreamsFlow`, `LeaversForgotten`, `NewcomersTold` |
| `td_all` | 5 rows of 4 cells, towers of one cell with ammo for 2 shots, one creep a side | `CountersHold` (`CountersAgree`, `CreepsCounted`); `BoardServes` (`BoardAgrees`, and `RandomSpotsServe`: `place` comes to an end); `CreepsOnTheirWay` (`NoCreepInTower`, `PathsLead`); `KeepsRounds`: rounds follow `TDRounds`; `RoundsEnd` |
| `td_driver` | two pairings of players of every kind, 2 rounds | `NeverUndefined`: the engine never reads undefined positions; `ThisRoundsOnly` (`OfThisRound`, and `ToldOnce` to play); `RoundsGoOn`; the first but for `torn`, the second but for `late`, the third but for `torn` or `dropped` |
| `chat_votes` | 3 votes for 5 messages, 3 rounds; 4 votes for 3 places, 3 ticks | `WinnersLead` (`VotesCounted`, `MostVoted`, `TowerWhereVoted`); `NoOldVotes` (`NoOldWinner`: what `Reset` returns is of this round or the last, what `Peak` shows of this one but for `lasting`; `NoOldTower`); `VotesTakeEffect` (`EveryTickBuilds`, `WinnerPlayed`) |
| `sweeper` | 2 rows of 3 cells, every place of one bomb, 2 votes a round | `GameByRules` (`RevealedByRules`, `WonIsCleared`: the board opens and is won by the rules; `MaxLeads`); `PicksByRules` (`FirstPickIsSafe`; `PicksTheLeader` of the round; `GamesRestart`) |
| `screen` | 3 cells, 2 connections; 2 particles in 3 columns of 2 rows | `ClientsServed` (`ClientsInStep`: they show what was sent; `OnlyLeaversDropped`); `LeaversDropped` in the end, if all clients read on; `DrawnAsIs` (`EndIsShown`: the end of a game is seen whole; `DrawnByHeight`, `EveryParticleDrawn`, `AgesWithTheClock`) |
| `plugins` | motions of 5 keys; 6 motions in a ring of 4; 2 editors with one file of statistics; 2 editors with one file of marks, that go from project to project | `MotionsRecognised`; `SumIsWindow`; `FilesKept` (`NothingLost` and `NothingTwice` of the statistics, `MarksKept`, but for projects `overtaken`, and `NoFileTwice` of the marks) |

### What the violated run shows

`encodings_none`: doom's driver adds `NoneEncoding` to its encoder
(`examples/v2/doom/run/main.go:238`), so a frame that nothing makes shorter is sent
with encoding NONE.  `encodeInto` has no function for it, and the assertion of
`encoder.go:48` ends the driver.

Other disagreements between the code and what the repository says of it have no run of their own; a
passing property says how far each goes:

* A later creation replaces the WaitGroup under a waiter that has been released but has not
  taken its token; it waits for ever, and so would `e2e-tests/matchmaking_test.go:50`
  (`WaitersReleased` bounds it to replaced WaitGroups).
* A waiter reads `lastCreatedGameId` outside the mutex, a later creation may have stored an id
  without a row there, and the proxy ends on its own assertion at `matchmaking.go:108`
  (`OnlyOvertakenMiss`).
* `closeDown` cancels the context, and the next select may still take a connection; the
  assertion at `server.go:162` ends the process.  `ready()` assigns idle while its log
  says ready (`server.go:220,222`).  The stat updater writes an old state over the final one,
  and the goroutine that watches the process takes its end for a crash (`local.go:120`).
  `KeepsPromise` includes all three: a row may go back to an older state, never
  to a later one.
* The updater takes its first copy for what is in the row (`server.go:184`), whoever has been counted by
  then (`RowCatchesUp`).
* `Next` of the quadtree asserts that the row is within the columns ("somehow iterX is greator than cols",
  `virtual_box.go:174`), which a box that is high and narrow breaks (`EveryValueOnce`).
* `Send` writes without a deadline under its lock (`tcp.go:76`): one client that stops reading stops the
  game's screen for all (`LeaversDropped`).
* A tower-defense player's list may come back by an append that `Reset` meets, with the last round's votes (`NoOldVotes`).
* The report's own error for a failed write (`file-reporter.lua:66-68`) is never raised: `fs_write` returns
  its error (`NothingLost`).
* grapple's BufLeave save writes a stale copy of the project that an editor has just come to, and two
  editors in one project lose each other's marks without ever saving at once (`MarksKept`).
* A failed matchmaking or dial is answered with an error, on which the client asserts
  (`client.go:144`); `AnswerFirst` counts it as the answer.
* `e2e-tests/sim` asserts a client state that a client of the simulation is
  never in; `controller_test.go` expects letters to be held back that 500 nanoseconds do not.

### Bounds

* `mm_all`: the races of matchmaking need a creator, a waiter and a third goroutine that
  creates again before the waiter has left; three connections are those, and each
  creates at most once, so three servers are never short.  `Retires` and `Flaky`
  are separate servers so that each fate meets each role.
* `gs_all`: two clients interleave their counts; one of them may vanish.
  `MaxLoad` 1 caps the load in `ServerRow`, of which the proxy only asks whether it is
  below the limit.
* `pc_all`: channels of 1 fill up with the second packet, so that `FrameWithReader`
  blocks with a packet in hand, as it does with the eleventh in the code.  Three clients
  are one in the backlog, one in the channel and one being added; three reads fill `Out`, the
  reader's hand and the framer.
* `wire`: `Base` 4 and `PayloadSize` 6 keep the relation of the code's numbers
  (a packet and a read together stay below `Base^2`); `Lengths` are the boundaries
  (0, 1, `PayloadSize` - 1); a payload looks like headers, so a framer that loses its
  place finds wrong packets.  `MaxLength` 12 is one cell and less than two.  Text is read three
  tokens at a time, so that line ends, escapes and frame starts are cut.  A frame of
  8 values with `MaxRun` 5 has runs that are cut; `ByteBits` 8 and `U16` 12 make the number of
  bits wrap within reach; a tree node is one byte.
* `td_all`: with towers of one cell, five rows leave a no-build zone of one row, an odd
  number, between the two ranges.  The position asked for is the first
  side's own, so that the second side falls back to random ones, and in the second round
  upgrades, hurts and builds.  `PlayedRounds` 1 and `MaxRounds` 2: the towers of a
  second round are placed, with the whole board to build on, but it is not played; a
  second round with two creeps a side has more than five million states.  Towers with ammo
  2 fire, are drained by arrivals and by each other, and die in either order.
* `td_driver`: an AI player against one with boxes and a random one against a chat are all four
  kinds; what one round leaves behind shows in the second.
* `chat_votes`: three votes make and pass a maximum while another message holds it; the third round shows
  whether an old winner comes back.  Fewer keys than the game's: what matters is that
  "ae" and "ea" are one message for doom and two places for tower defense.
* `sweeper`: a bomb in a corner of two rows of three leaves cells that flood and cells that do not, and a game of
  more than one pick.
* `screen`: the smallest board with a safe cell, a bomb and something beside it; with two connections one
  may be dropped while the other is welcomed.
* `relay_all`: one stream and channels of 1 exercise every full channel; two drivers
  make the state space too large for liveness.
* `plugins`: five keys are more than the longest motion that is not a repetition of digits;
  a ring of four is filled and passed, and the period of three lets motions expire one and several
  at a time; three setups put two reporters into one editor.  Which editor is which
  does not matter to any invariant, so their permutations are a symmetry; the run has no
  liveness.

`CHECK_DEADLOCK FALSE` is set throughout: processes exit, connections end, streams
and games are finite or bounded.

### Fairness

Weak fairness on a goroutine's steps says that the Go scheduler runs it.  Where a
select has several ready cases Go picks one at random, so each case has its own weak
fairness (`Forward`, `Return`), or strong fairness where a case comes and goes: `Timer` in
`GameServer`, whose expired timer stays in its channel while the ticks of the stat updater come and
go, and `Play` in `ChatVotes`.  `Screen` has strong fairness for those that ask for a
lock, which `sync.RWMutex` grants although readers come and go; that a write to a client ends is only
asked of clients that read, and `LeaversDropped` says itself that it is about clients that read again and again (`Readers`).  `TurnIsLong` is the one timing
assumption of `GameServer`: within the 30 s of a timer a
goroutine that was started has counted its client, and a stat write that began
before it has ended (the database's own timeout is 3 s).  TCP is
reliable and ordered until an end closes.  Nobody is obliged to connect, leave,
stall, vanish, vote or interrupt.  In `MatchMaking` a spawned server gets to publish its row, and
an idle one closes; with `Flaky` it may die instead.  In `Relay` a driver that
stays connected goes on streaming.  In `TowerDefense` the one thread runs (weak fairness
on everything but messages, which nobody is obliged to send), and strong fairness stands for
time that passes: again and again an update comes in which some creep has covered a cell
(`Advance`; its speed is never zero), a tick comes that spawns what is due
(`SpawnPair`; all pairs are due after 10 s), and a frame has run its updates
(`EndFrame`; their number is fixed when it begins).  In `TDDriver` the engine's process runs as the
driver's goroutines do.

## 4. What is proved

Every theorem holds for all values of the constants that satisfy the named
assumptions (`ConstAssumption`, `MaxLoadAssumption`, `GSAssumption`,
`PCAssumption`, `TDAssumption`, `AcceptAssumption`, `ReaderAssumption`,
`RelayAssumption`, `DriverAssumption`, `WindowAssumption`, `CoffeeAssumption`, `BoardAssumption`,
`ChatAssumption`, `PlacesAssumption`, `MotionAssumption`, `CalcAssumption`, `FileAssumption`,
`MarksAssumption`, `PFAssumption`), which TLC evaluates in the runs.  `CalcAssumption` takes a
ring of two places or more (the code's has 1000): one would be full with its first motion.
`PFAssumption` takes packets whose payload is below `PACKET_PAYLOAD_SIZE`, which the encoders
assert, and sizes of packet and read that together fit the header's two bytes, as 1024 and 100
do.

* **`MatchMakingProofs`**: `TypeCorrect`, `CreatorUnique`, `StartingUnique` and the two
  together, `CreationsOneAtATime`; `MissIsOvertaken`; `ServersFollow`; for any connections and
  any number of servers.  The invariant
  `IInv` adds to the properties: rows follow servers (`RowsFollowServers`); every
  starting server has a goroutine that polls for it (`StartingIsPolled`, which
  with `OneCreator` gives `OneServerStarting`); the creator's server is the last one
  created (`CreatorsServer`); between creations that server has a row
  (`LastIsPublished`); and a waiter past `Wait` that was not overtaken finds no
  creation in progress (`WaitersPastDone`).  The last two give
  `OnlyOvertakenMiss`: an id that is read between creations is published, so
  a waiter that misses must have read during a creation later than the one it joined.
  `RowStep` maps each step to one of `ServerRow` for the server it is about.
* **`GameServerProofs`**: `TypeCorrect`, `CountsCorrect`, `ClosesEmptyCorrect`,
  `PromiseKept`, for any finite set of clients.  `CountsAgree` relates a number to the cardinality of
  a set; `CountedStep` says that a step adds or removes at most one client.
  `MutexInv` keeps the halves of `incConnections` apart, `LoopInv` ties the
  context to the loop's label.  That `conns` never goes negative follows
  from `CountsAgree`, not from its type, which is why both are in `IInv`.
  `PromiseKept` is that the runner implements `ServerRow`: it needs `StagesInv`, that nothing
  is counted, copied or published before `Run` has started, and that a copy of the stats on its way
  to the database holds a state the server has reached.  Together with `ServersFollow` this closes the gap
  between the two components: what the proxy's proofs take a server to do is proved of the
  server.
* **`ProxyConnectionProofs`**: `TypeCorrect`, `AnswerIsFirst`, `GoodbyeIsLast` (an
  action property), for any numbers of packets and any capacity.  `Early`,
  `Returned` and `Answered` say what has been written at each label; `Ended` says
  that after a goodbye both sockets are closed, so no write can succeed.
  `MessagesInOrder`: while an end is there and its socket is not closed, what it was sent, the channel, the
  framer's hand and the wire, one after the other, are all the messages of its peer, in order
  (`StreamsFit`).  Reading and forwarding leave that sequence as it is; a packet that the proxy
  puts in or takes out is no message, because the client sends none before its answer (`Unanswered`).
  `AroundAlwaysSafe` is about what is around a connection, for any clients, channels and numbers of reads.  `QueuesInv` has every
  connection in one queue, once; `ClosingInv` says what `Close` leaves behind when it had a
  listener and nothing was on its way.  `ReaderInv` orders the reader's goroutines: an error is
  passed on by the time the inner context is cancelled, so a channel that is closed under its
  sender was closed for the outer context.
  `PacketsKeptInOrder` and `BufferAlwaysBounded` are about the framer below, for any packets in any reads.  `FramerInv`
  has everything that was written as one line of bytes, with the position at which each packet starts (`Laid`): the
  buffer up to `idx` and, behind it, the connection are that line from the first packet on that was not pulled
  (`Unread`).  So the header in front of the buffer is that packet's (`FrontIs`), and two bytes are read as the
  length they were written for (`TwoBytes`); a read finds less than a packet in the buffer (`HeldFits`), which
  bounds what it grows to.
* **`TowerDefenseProofs`**: `CountersAlwaysAgree`, `CreepsAreCounted` and the two together,
  `CountersAlwaysHold`; `BoardAlwaysAgrees`, `PlaceServes` and together `BoardAlwaysServes`;
  `KeepsTDRounds`; for every board, every list of
  positions, any number of rounds, towers and creeps.  None of these looks into
  `CalculatePath`.  Four invariants, each inductive with
  `RoundsFit`: `RangesFit` (while there is a no-build zone it lies a row and a tower from
  both edges, and the ranges end at it; from the round in which its length saturates at zero
  the ranges are the whole board) gives `RandomSpotsServe`; `RoundsFit` (where the thread
  may be while a round is played, and when towers are owed) gives the
  refinement; `CreepsFit` adds to the count that between rounds no creep is alive or due,
  which is what lets a round start counting from nothing; `TowersFit` adds that
  indexes are fresh, that the loop over towers visits living ones, and that a
  tower keeps its side and place, so that only building and dying touch the count
  and the board.
  `CreepsAlwaysOnTheirWay` is about what the search finds.  Of `walkAStar` it is shown that a turn keeps what
  has been found connected to the start (`Rooted`), in an order in which every cell comes after the
  one it was reached from (`Ranks`), and that nothing visited has a free neighbour left that was not found (`Explored`,
  `TurnKeeps`); that after as many turns as the board has cells it has stopped, because a turn that
  goes on visits a new cell (`SearchEnds`); that the walk back over `parents` ends at the start and is the way out read
  backwards (`StepsLead`); and that a search is not stuck where a way leads out over cells that are near
  enough (`WayFound`).  There is such a way for a creep that is spawned, down the first column and along the last row,
  where `CanPlaceTower` lets no tower stand (`EdgeFree`, `AlongTheEdge`); for one that is rerouted there is the path it
  has, because towers only die while creeps are out (`FewerWalls`) and walking leaves the rest of a path
  (`RestLeads`), and for one past the last column that a tower may begin in, a straight run (`FreeRun`).  The
  search looks only at distances below 255.  From a cell that has enough columns behind it every cell is
  nearer than that (`Near`); a creep that is far ahead (`FarAhead`) must have what is left of its path in
  sight when it is rerouted (`InSight`).  So the theorem is `Spec /\ []InSight => []CreepsOnTheirWay`, for every board
  with `2 * Cols + Rows <= Farthest`, which the 24 by 80 of `main.json` and `foo.json` is.  There `InSight` is
  about the columns 72 and 73, and about paths back to a corner of the first column, 22 rows away or 23: a
  creep there whose one way out is such a path would have none, and `calculatePath` would end the engine.
  Whether a game can build such a maze is not settled here, so the condition stays, and it is not a fact about the code.
  `NarrowBoardsLeadOut` needs no condition on the game: up to 79 columns of 24 rows, `InSight` always holds
  (`Rows + 3 * Cols <= Farthest + TowerCols + 2`).  `SpawnedPathsLead` needs only `2 * Cols + Rows <= Farthest`, and no `InSight`:
  every creep starts out with a path that leads.
  The search and the path are recursive functions, and a hit is a fold over the projectiles that land (`StruckType`).
  TLA+ defines both by `CHOOSE`, so for each it is first proved that such a function exists (`Iterates`, `SumsUp`), by an
  induction over a set of numbers (`Induct`) that rests on the library's well-foundedness of strict subsets.
* **`DoomProofs`**, the relay: `StreamsAlwaysKept`, for any drivers and viewers, any number of frames and any
  capacity.  What a listener has of a stream is spread over three places: its peer, the message
  its writing goroutine holds, and its channel.  `StreamsFit` says that the stream is in order through
  all three and behind the message its driver's reading goroutine hands out, which that goroutine
  may still owe it (`Past`); `ReadersFit` says that only an authorized driver relays.
* **`TDDriverProofs`**: `NeverUndefinedHolds` and `ThisRoundsOnlyHolds`, for any set of pairings, any capacity of
  a mover's channel and any number of rounds.  A round is held together by one token: the report
  that the engine waits, main at work on it, the countdown or "play" in the pipe are
  mutually exclusive (`OneReport`, `Tokens`), so "play" is written once, and once the engine has it nothing else of
  the round is on its way but a late mover's list (`Order`).  `Movers` is that the movers have lists
  of this round only until the round is cancelled, `Fresh` carries that through the pipe to the engine;
  `MadeUpFor` says where the positions are that `EndRound` makes up: known to the engine, or in a line of their
  own before "play", which `Torn` keeps from being cut in two.
* **`DoomProofs`**, the chat: `NoOldVotesWin`, for both aggregators.  What is in the lead was being added in this
  round or in the last, and in this one once `Reset` has cleared it (`LeadRecent`).  What is in the list, which
  `Peak` shows, or in the one that an append writes back, was added in this round or is `lasting` (`ListLasts`).  For the newer one that needs
  to follow pointers (`PointersHold`): an occurrence that `Add` has found or made is one of its
  message, whatever array the list is in and however `Peak` has sorted it.  For the older one the maximum may be
  two points at once, so each of its fields is shown to be of a recent point (`TopRecent`).
  `WinnersAlwaysLead`: as long as no vote is being added while the winner is taken, he has the most.  In the newer
  one (`Tally`) every message that was voted for has one occurrence, in the list once, with its votes, and nobody
  has more than the leader but the one that is being compared with him; the leader is `max`, and what
  `Reset` has read of it once it has begun.  It needs that `Add` has overlooked nothing where it has looked,
  that an append adds to the list there is, and that sorting keeps what the list holds (`OrdersHoldTheSame`).
  In the older one (`PointTally`) a new point is not compared with the maximum, so that leads only once a
  place has two votes (`Leads`); between, `TopLeads` says what the fields hold while a point is copied,
  and `TileLeads` what a tick has read.  Both start each round from nothing once no `Add` met the reset, whatever the
  rounds before were like (`Undisturbed`, `Calm`).
* **`ScreenProofs`**: `ClientsAlwaysServed`, for any window and any number of clients.  The invariant, `ServedAlone`,
  promises nothing once two Sends or renders have overlapped, for the code then keeps nothing.  Until then one goroutine
  at most is busy (`Alone`); a client that Send has not reached is exactly the change behind that is on
  its way, and the others show `previous` (`InStep`; putting a change on twice is putting it on once,
  `MergedTwice`, which is what a client needs that was welcomed after the change was taken over and before it
  was sent); the indexes that Send has collected still name those that failed when it removes them
  (`Collected`, `WithoutLeaves`); and whoever has a window is a socket or about to be one (`Kept`).
  `AlwaysDrawnAsIs`: whatever overlaps, nothing but the cells of the picture is in the buffer, in what was shown
  or on its way (`Painted`), nor in a client's window (`Seen`).  Things lie by height because the
  binary search inserts where it should (`SpotFound`, `Inserted`); placing them is a fold, which is
  unrolled (`PlacedInTurn`).  After the last change of a game, main is about to render it, or has placed it on a buffer
  that was empty (`DrawnOnNothing`), or has shown it, and then all clients in step have it
  (`EndFollows`, with `ClientsAlwaysServed`).  `Steamed` keeps every particle in the grid; the colour is in its byte because a
  column holds at most as many particles as are drawn at all (`GreenIs`, `TotalIs`).
  `GameAlwaysByRules` and `PicksAreVoted`, for any board, number of bombs and messages.  The flood is a function that calls itself
  through a fold, on a set that grows; that there is such a function is proved by induction over the
  number of hidden cells (`RevealsExists`), that it opens what the rules open by another one
  (`SpotOpens`).  What `Boarded` adds is that a cell is revealed exactly if it was picked
  or touches a clear revealed one (`Ruled`), and that bombs are laid as long as a game lasts.  `Counted` is the
  chat: `Leads` says who leads in each of main's places, among them that between rounds nobody is adding a
  vote unless one has raced with `Reset`, and that what `Reset` has taken is one of `due`.
* **`PluginProofs`**: the Lua programs, each with an invariant of its own, and together because they share nothing
  (`PluginInv`).  `MotionsAlwaysRecognised`, for any keys and digits, and any number of keys typed.  The words of
  `MotionsRecognised` are told by the places of their keys (`MotionIs`), what each motion of the tree answers is
  worked out (`FeedHead`, `FeedCommand`, `FeedLast`), and `MotionInv` joins the two: what
  has been typed says which motion is awaited (`Where`), each key has the `Outcome` it should, and one is dropped
  only where no motion goes on like that, however long (`Dead`).
  `SumAlwaysWindow`, for any ring, period and number of motions compared.  `Holds` reads the ring as items one behind the other, wherever it
  starts, which storing and popping keep (`StoredHolds`, `PopHolds`).  `SlotsHold` says in which slot of
  `motions_count` each recent key is; slots and recent motions are one to one, so counting slots, as the code does, gives
  the score that the history says (`CountIs`).  Times go up, so what has not expired is a tail of
  the history (`Since`); `trim`'s function exists (`TurnsExist`), and its turns take
  out what has expired, one by one, and stop there.  A ring that has been full starts where nothing will ever be stored (`Spent`).
  `FilesAlwaysKept`, for any editors, setups, events, projects and lists of marks.  Every event waits in a reporter, was cleared, or is in
  the text that counts now: the file's, or its one writer's when editors take turns (`NoneTwice`, `NoneLost`); the numbers that
  wait are a sum, of which a step changes one (`SumChanges`).  For times there is a moment for each editor up to which
  it has reported, and their sum bounds the time in the file (`TimeOnce`).  `OnceKept` and `SavedKept` say of marks that no
  list has a file twice, that whoever is saving has what users last made of the projects, and that the
  others have it but for what they missed (`missed`, `overtaken`).

`MaxServers`, `MaxStatWrites`, `PlayedRounds`, `MaxRounds` and `Stride` bound the models,
not the proofs: they are arbitrary numbers in them.

Only model-checked: all liveness (`CreationEnds`, `WaitersReleased`, `ShutsDown`,
`RowCatchesUp`, `EveryoneIsServed`, `StreamsFlow`, `LeaversForgotten`, `NewcomersTold`, `RoundsEnd`,
`RoundsGoOn`, `WinnerPlayed`, `GamesRestart`, `LeaversDropped`, and that everything sent is received in
`KeepsPipe`), which is beyond the prover; that every tick builds a tower (`EveryTickBuilds`), a sum over the
board that is checked with the liveness of `VotesTakeEffect`; the order in which the other two framers deliver
(`KeepsPipe`); and the encodings (`PageInStep`, `EncodingsRight`), whose operators use `Bitwise`, which a
module with a theorem cannot.  Every other invariant of the runs is proved.

## 5. What is not modelled, and the plan

Left out of the models above: log lines and metrics; the contents of packets beyond type
and order; HTTP routes; prompts and requests of the AI players.

Not modelled, with the reason:

* `flyio.go`: a client of an external service, with the operations of `local.go`.
* arcadevim's command runner, simulation, tools; vim-mate's other mains: harness and wiring of
  what is modelled.
* Geometry, colour arithmetic, logging, metrics and drawing (the engine's canvas and
  renderer, titan's shaders): functions of their arguments, or of a state that is modelled.
* The browser client beyond its decoder: the cache of 256 frames (`js/net/cache.js`), its seek,
  the sequence check and reconnecting (`js/ws/index.js`).  That a frame's bytes live in the framer's buffer,
  which the next message overwrites (`v2/net/framer.go:49`), belongs with them.
* vim-insight's network reporter and server: `_flush` sends its messages and keeps them
  (`network-reporter.lua`), `encode_motion` counts timings where its body has characters, and
  the server drops what is left of a read that ends inside a packet.
* vim-mate's Lua client, grapple's terminals, titan's player, levels and editor: one thread each, driven by callbacks of
  the editor or the browser; the player's modes and the editor's selection are worth a module each.

In this order:

1. **`FrameBuffer`** and **`FrameCache`**: the ByteFramer over its shared buffer, the page's
   cache, sequence numbers modulo 256 (parameter), seek and reconnect, against
   `PacketPipe` with loss.
2. **`Reporting`**: vim-insight's queue of messages, its connection and the server's reads.
3. **`Arcade`**: matchmaking, two game servers as `ServerRow` and connections as `PacketPipe`: a client that is
   matched reaches a server that is alive, or learns that it is not.
4. **`Titan`** and **`Editor`**: keys and ticks on an integer grid.
5. Proofs: `EveryTickBuilds`; the order of `TcpFrames` and `AnsiFramer`.
