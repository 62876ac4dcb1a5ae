----------------------------- MODULE MCChatVotes -----------------------------
(***************************************************************************)
(* A behaviour is either one of ChatVotes or one of TowerVotes.            *)
(***************************************************************************)
EXTENDS ChatVotes, TowerVotes

VARIABLE olderTD  \* which

AllInit == olderTD \in BOOLEAN /\ Init /\ TowersInit
Chat == ~olderTD /\ Next /\ UNCHANGED <<tvars, olderTD>>
Towers == olderTD /\ TowersNext /\ UNCHANGED <<vars, olderTD>>

\* The fairness is ChatVotes'.
Fair == /\ WF_vars(~olderTD /\ Adds) /\ WF_vars(~olderTD /\ Resets) /\ SF_vars(~olderTD /\ Play)
        /\ WF_vars(~olderTD /\ SendKey) /\ WF_vars(~olderTD /\ Begin)
AllSpec == AllInit /\ [][Chat \/ Towers]_<<vars, tvars, olderTD>> /\ Fair

\* The types of both.
TypesOK == TypeOK /\ TowersTypeOK

\* Votes are counted, and what most of a round's votes are for wins it, as long as no vote is
\* being added while the winner is taken.
WinnersLead == [](TypesOK /\ VotesCounted) /\ MostVoted /\ TowerWhereVoted

\* Whatever the goroutines do to each other, no round is won by votes of long ago.
NoOldVotes == NoOldWinner /\ NoOldTower

\* What was voted for happens: a tower for every tick, and the keys of the winner.
VotesTakeEffect == []EveryTickBuilds /\ WinnerPlayed

\* With a = 1 and e = 2: "e", "ae", "ea", which is the same, "ee", and "aa", which is
\* not allowed.  In tower defense "ae", "ea" and "ee" are three places.
TheValid == <<1, 2, 2>>
TheSaid == {<<2>>, <<1, 2>>, <<2, 1>>, <<2, 2>>, <<1, 1>>}
ThePlaces == {<<1, 2>>, <<2, 1>>, <<2, 2>>}

\* Two places on the board, one that is not, and what is no place.
TheTiles == {<<1, 2>>, <<2, 1>>, <<3, 3>>, <<>>}
=============================================================================
