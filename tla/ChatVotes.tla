------------------------------ MODULE ChatVotes ------------------------------
(***************************************************************************)
(* Votes of a chat (pkg/v2/chat) and what is made of them.  One goroutine  *)
(* (Pipe) adds messages to the aggregator.  Another takes the most voted   *)
(* one out again, without a lock: for doom a Controller, which plays its   *)
(* keys, or for tower defense a TwitchTDChat, which looks at it during the *)
(* round and forgets it when the next begins.                              *)
(*                                                                         *)
(* A message is a sequence of keys.  A pointer to an occurrence is its     *)
(* index in occs.  Every read and write of what both goroutines share is a *)
(* step.                                                                   *)
(***************************************************************************)
EXTENDS Naturals, SequencesExt

CONSTANTS Said,       \* what the chat writes; letters are numbers, in their order
          ValidMsg,   \* validMsg
          Places,     \* the messages that name a place on the board
          E,          \* the letter that may only be used from time to time
          Newlines,   \* how often the driver presses return before it plays (5)
          MaxVotes,   \* bound: messages
          MaxRounds   \* bound: rounds of the controller

\* A message is a sequence of letters.
ASSUME ChatAssumption ==
  /\ \A m \in Said : m \in Seq(Nat)
  /\ {Newlines, MaxVotes, MaxRounds} \subseteq Nat

VARIABLES
  user,              \* "doom" or "td"
  occs,              \* every occurrence there was: its message and count
  list, max,         \* ChatAggregator: occurrences, and max (0 is defaultMax)
  adding,            \* Pipe's goroutine: where Add is
  msg, walk, at, occ, \* its message, list, index and occurrence
  own,               \* walk shares its array with list
  asking,            \* the user's goroutine
  got, curr,         \* what Reset read as max, and Controller.curr
  keys, used,        \* DoomController.SendKey: keys to come; E has been used
  newlines, playing, last, \* the driver's start, DoomController.playing, what the game was sent last
  said, rounds,
  votes,             \* history: votes of this round
  over, raced,       \* history: this Reset, this round met an Add
  older, newer,      \* history: messages added in the last round, in this
  lasting            \* history: messages of older rounds that an append may have kept in the list

heap == <<occs, list, max>>
add  == <<adding, msg, walk, at, occ, own>>
play == <<keys, used, newlines, playing, last>>
hist == <<votes, over, raced, older, newer, lasting>>
vars == <<user, heap, add, asking, got, curr, play, said, rounds, hist>>

\* DoomChatMapFn: two keys are taken in any order, sorted.
AnyOrder(m) == IF Len(m) = 2 /\ m[2] < m[1] THEN <<m[2], m[1]>> ELSE m
\* DoomFilterFn.
Playable(m) == Len(m) <= 2 /\ (m = <<>> \/ \E i, j \in DOMAIN ValidMsg : SubSeq(ValidMsg, i, j) = m)
\* tdFilter.
OnBoard(m) == m \in Places

\* WithMap and WithFilter of the two users.
Mapped(m) == IF user = "doom" THEN AnyOrder(m) ELSE m
Allowed(m) == IF user = "doom" THEN Playable(m) ELSE OnBoard(m)

Msgs == {Mapped(m) : m \in Said} \cup {<<>>}
MsgOf(o) == IF o = 0 THEN <<>> ELSE occs[o].msg
CountOf(o) == IF o = 0 THEN 0 ELSE occs[o].count

TypeOK ==
  /\ \A i \in DOMAIN occs : occs[i].msg \in Msgs /\ occs[i].count \in 0 .. MaxVotes
  /\ Range(list) \cup {max, got} \subseteq 0 .. Len(occs)
  /\ adding \in {"idle", "find", "append", "count", "compare"}
  /\ asking \in {"select", "max", "list", "keys"}
  /\ msg \in Msgs /\ curr \in Msgs
  /\ occ \in DOMAIN occs \/ adding \in {"idle", "find"}
  /\ last \in {0} \cup UNION {Range(m) : m \in Msgs} /\ newlines <= Newlines

\* NewChatAggregator.
Aggregator == occs = <<>> /\ list = <<>> /\ max = 0

\* runChat of doom and NewTwitchTDChat.
Users == user \in {"doom", "td"}

Init ==
  /\ Users
  /\ Aggregator
  /\ adding = "idle" /\ msg = <<>> /\ walk = <<>> /\ at = 0 /\ occ = 0 /\ own = FALSE
  /\ asking = "select" /\ got = 0 /\ curr = <<>>
  /\ keys = <<>> /\ used = FALSE /\ newlines = 0 /\ playing = FALSE /\ last = 0
  /\ said = 0 /\ rounds = 0
  /\ votes = [m \in Msgs |-> 0] /\ over = FALSE /\ raced = FALSE
  /\ older = {} /\ newer = {} /\ lasting = {}
-----------------------------------------------------------------------------
(* Pipe *)

\* A message comes from the chat; Add maps it, and drops it or begins to look for it.
Hear(m) ==
  /\ adding = "idle" /\ said < MaxVotes
  /\ said' = said + 1
  /\ IF Allowed(Mapped(m))
     THEN /\ adding' = "find" /\ msg' = Mapped(m) /\ at' = 1
          /\ walk' = list /\ own' = TRUE
          /\ newer' = newer \cup {Mapped(m)}
          /\ over' = (over \/ asking \in {"max", "list"})
     ELSE UNCHANGED <<adding, msg, at, walk, own, newer, over>>
  /\ UNCHANGED <<user, heap, occ, asking, got, curr, play, rounds, votes, raced, older, lasting>>

Found(o) == occs[o].msg = msg

Find ==
  /\ adding = "find"
  /\ \/ /\ at <= Len(walk) /\ Found(walk[at])
        /\ adding' = "count" /\ occ' = walk[at]
        /\ UNCHANGED <<at, walk, own, occs>>
     \/ /\ at <= Len(walk) /\ ~Found(walk[at])
        /\ at' = at + 1
        /\ UNCHANGED <<adding, occ, walk, own, occs>>
     \/ /\ at > Len(walk)
        /\ occs' = Append(occs, [msg |-> msg, count |-> 0]) /\ occ' = Len(occs')
        /\ walk' = list /\ own' = TRUE
        /\ adding' = "append"
        /\ UNCHANGED at
  /\ UNCHANGED <<user, list, max, msg, asking, got, curr, play, said, rounds, hist>>

\* What append has read is written back with one more.
AddNew ==
  /\ adding = "append"
  /\ list' = Append(walk, occ)
  /\ adding' = "count"
  /\ UNCHANGED <<user, occs, max, msg, walk, at, occ, own, asking, got, curr, play, said, rounds, hist>>

Count ==
  /\ adding = "count"
  /\ occs' = [occs EXCEPT ![occ].count = @ + 1]
  /\ votes' = [votes EXCEPT ![msg] = @ + 1]
  /\ adding' = "compare"
  /\ UNCHANGED <<user, list, max, msg, walk, at, occ, own, asking, got, curr, play, said, rounds,
                 over, raced, older, newer, lasting>>

\* Seeded bug: the last message is the most voted one.
CompareNot ==
  /\ adding = "compare"
  /\ max' = occ
  /\ adding' = "idle" /\ msg' = <<>> /\ walk' = <<>> /\ own' = FALSE /\ at' = 0 /\ occ' = 0
  /\ UNCHANGED <<user, occs, list, asking, got, curr, play, said, rounds, hist>>

\* incAndMax.
Compare ==
  /\ adding = "compare"
  /\ max' = IF CountOf(occ) > CountOf(max) THEN occ ELSE max
  /\ adding' = "idle" /\ msg' = <<>> /\ walk' = <<>> /\ own' = FALSE /\ at' = 0 /\ occ' = 0
  /\ UNCHANGED <<user, occs, list, asking, got, curr, play, said, rounds, hist>>
-----------------------------------------------------------------------------
(* The user *)

\* Reset, for the Controller's nextInput or a round of tower defense: max is read,
ReadMax ==
  /\ asking = "select" /\ rounds < MaxRounds
  /\ rounds' = rounds + 1
  /\ got' = max /\ asking' = "max"
  /\ over' = (adding # "idle")
  /\ UNCHANGED <<user, heap, add, curr, play, said, votes, raced, older, newer, lasting>>

\* Seeded bug: it is not forgotten.
ResetMaxNot ==
  /\ asking = "max"
  /\ asking' = "list"
  /\ UNCHANGED <<user, heap, add, got, curr, play, said, rounds, hist>>

\* and forgotten,
ResetMax ==
  /\ asking = "max"
  /\ max' = 0 /\ asking' = "list"
  /\ UNCHANGED <<user, occs, list, add, got, curr, play, said, rounds, hist>>

\* A round's end for who only looks at votes: StartRound drops what Reset returns.
Returned == IF user = "doom" THEN MsgOf(got) ELSE curr
\* An append under way will write the list of the round back.
Lasts == IF adding = "append" THEN lasting \cup newer ELSE {}

\* Seeded bug: the list goes on.
ResetListNot ==
  /\ asking = "list"
  /\ curr' = Returned /\ got' = 0 /\ asking' = "select"
  /\ raced' = over /\ over' = FALSE
  /\ votes' = [m \in Msgs |-> 0]
  /\ older' = newer /\ newer' = (IF adding = "idle" THEN {} ELSE {msg}) /\ lasting' = Lasts
  /\ UNCHANGED <<user, occs, list, own, max, adding, msg, walk, at, occ, play, said, rounds>>

\* and the list with it; what nobody points to is garbage.
ResetList ==
  /\ asking = "list"
  /\ list' = <<>> /\ own' = FALSE
  /\ curr' = Returned /\ got' = 0 /\ asking' = "select"
  /\ occs' = IF adding = "idle" /\ max = 0 THEN <<>> ELSE occs
  /\ raced' = over /\ over' = FALSE
  /\ votes' = [m \in Msgs |-> 0]
  /\ older' = newer /\ newer' = (IF adding = "idle" THEN {} ELSE {msg}) /\ lasting' = Lasts
  /\ UNCHANGED <<user, max, adding, msg, walk, at, occ, play, said, rounds>>

\* SortFunc leaves equals in any order.
Orders(q) == {[i \in DOMAIN q |-> q[p[i]]] : p \in Bijection(DOMAIN q, DOMAIN q)}
Descending(q) == \A i, j \in DOMAIN q : i < j => CountOf(q[i]) >= CountOf(q[j])

\* Peak sorts the list where it is and returns its head.
Peak ==
  /\ user = "td" /\ asking = "select" /\ list # <<>>
  /\ \E sorted \in Orders(list) :
       /\ Descending(sorted)
       /\ list' = sorted
       /\ walk' = IF own THEN sorted ELSE walk
       /\ curr' = MsgOf(Head(sorted))
  /\ raced' = (raced \/ adding # "idle")
  /\ UNCHANGED <<user, occs, max, adding, msg, at, occ, own, asking, got, play, said, rounds,
                 votes, over, older, newer, lasting>>

\* Seeded bug: the last use is not forgotten.
PlayUsed ==
  /\ user = "doom" /\ asking = "select" /\ curr # <<>>
  /\ keys' = curr /\ asking' = "keys"
  /\ UNCHANGED <<user, heap, add, got, curr, used, newlines, playing, last, said, rounds, hist>>

\* The Controller's playInput.
Play ==
  /\ user = "doom" /\ asking = "select" /\ curr # <<>>
  /\ keys' = curr /\ used' = FALSE /\ asking' = "keys"
  /\ UNCHANGED <<user, heap, add, got, curr, newlines, playing, last, said, rounds, hist>>

\* Program.SendKey.
Sent(k) == last' = k

\* DoomController.SendKey, key by key.  E is sent if the last use is long enough ago when
\* SendKey begins.
SendKey ==
  /\ asking = "keys"
  /\ IF playing /\ ~(Head(keys) = E /\ used) THEN Sent(Head(keys)) ELSE UNCHANGED last
  /\ used' = (used \/ Head(keys) = E)
  /\ keys' = Tail(keys)
  /\ asking' = IF Len(keys) = 1 THEN "select" ELSE "keys"
  /\ UNCHANGED <<user, heap, add, got, curr, newlines, playing, said, rounds, hist>>

\* The driver presses return some times, and then the chat plays.
Begin ==
  /\ user = "doom" /\ ~playing
  /\ IF newlines < Newlines
     THEN newlines' = newlines + 1 /\ UNCHANGED playing
     ELSE playing' = TRUE /\ UNCHANGED newlines
  /\ UNCHANGED <<user, heap, add, asking, got, curr, keys, used, last, said, rounds, hist>>
-----------------------------------------------------------------------------
Adds == Find \/ AddNew \/ Count \/ Compare
Resets == ResetMax \/ ResetList

Next == (\E m \in Said : Hear(m)) \/ Adds \/ ReadMax \/ Resets \/ Peak \/ Play \/ SendKey \/ Begin

\* Goroutines run, and a select that keeps finding its play timer takes it in the end.
Spec == /\ Init /\ [][Next]_vars
        /\ WF_vars(Adds) /\ WF_vars(Resets) /\ SF_vars(Play) /\ WF_vars(SendKey) /\ WF_vars(Begin)
-----------------------------------------------------------------------------
(* Properties *)

\* The message that a Controller or a tower-defense round goes by has as many votes of
\* this round as any other, unless an Add was under way while the user looked or reset.
Answered == (user = "doom" /\ ResetList) \/ Peak
MostVoted ==
  [][Answered /\ adding = "idle" /\ ~over /\ ~raced
       => \A m \in Msgs : votes[m] <= votes[curr']]_vars

\* Whatever the goroutines do to each other: what Reset returns to the Controller was being added
\* since the round before.  What Peak shows a tower-defense player, who moves by all of it, was
\* being added in this round, unless Add's append has brought an older list back: then for that
\* vote an append was under way at every Reset since its round (chat.go:100 around 117).
NoOldWinner ==
  [][/\ user = "doom" /\ ResetList => curr' \in {<<>>} \cup older \cup newer
     /\ Peak => {MsgOf(o) : o \in Range(list)} \subseteq newer \cup lasting]_vars

\* Unless an Add met the user, every message that was voted for stands in the list once,
\* with its votes.
VotesCounted ==
  adding = "idle" /\ asking = "select" /\ ~raced =>
    \A m \in Msgs : Cardinality({i \in DOMAIN list : occs[list[i]].msg = m /\ CountOf(list[i]) = votes[m]})
                    = (IF votes[m] > 0 THEN 1 ELSE 0)

\* Once the chat plays, the winner of a round is played until the next round.
WinnerPlayed == (playing /\ curr # <<>>) ~> (curr = <<>> \/ last \in Range(curr))
=============================================================================
