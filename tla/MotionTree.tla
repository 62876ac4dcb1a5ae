------------------------------ MODULE MotionTree ------------------------------
(***************************************************************************)
(* vim-insight's recogniser of motions (motion/motions.lua,                *)
(* motion/motion_tree.lua, motion/init.lua) and the APM that feeds it      *)
(* (apm/init.lua).                                                         *)
(***************************************************************************)
EXTENDS Integers, SequencesExt

CONSTANTS Keys,    \* those that are typed
          Digits,  \* those that tonumber knows
          MaxTyped \* bound: keys of a motion

\* The keys of motion_tree.lua.  T is made of the key "t".
Searching == {"f", "F", "t"}
Moving == {"j", "k", "x", "X", "w", "b", "W", "B", "~", "_", "e", "E", "{", "}", "(", ")"}
Enclosing == {"p", "b", "[", "(", "{", "]", ")", "}", "w", "W"}
Inserting == {"o", "O", "I", "A", "a", "i"}
Paging == {"^D", "^U"}

\* Digits are no letters, and there is a motion that counts can be written before.
ASSUME MotionAssumption ==
  /\ "w" \in Keys /\ MaxTyped \in Nat
  /\ Digits \cap (Searching \cup Moving \cup Enclosing \cup Inserting \cup Paging
                 \cup {"y", "d", "c", "v", "g", "z", "u", "^R"}) = {}

VARIABLES mode,
          curr,   \* Motion.curr
          chars,  \* Motion.chars
          last,   \* what the last key did: "motion", "dropped" or "going on"
          typed   \* history: the keys since the recogniser was at its head

kvars == <<mode, curr, chars, last, typed>>
-----------------------------------------------------------------------------
(* motions.lua.  A motion is a function from keys to answers: a state and  *)
(* the next motion.                                                        *)

Answer(state, next) == [state |-> state, next |-> next]
Nowhere == <<>>
FAIL == Answer("NIL", Nowhere)

\* Seeded bug: the key behind the digits is lost.
make_numberEats(next) ==
  [key \in Keys |-> IF key \in Digits THEN Answer("NO_DONE_CONSUME", Nowhere)
                    ELSE Answer("DONE_CONSUME", next)]
make_number(next) ==
  [key \in Keys |-> IF key \in Digits THEN Answer("NO_DONE_CONSUME", Nowhere)
                    ELSE Answer("DONE_NO_CONSUME", next)]
make_any_key(next) == [key \in Keys |-> Answer("DONE_CONSUME", next)]
make_key(keys, next) == [key \in Keys |-> IF key \in keys THEN Answer("DONE_CONSUME", next) ELSE FAIL]
make_or(motions) ==
  [key \in Keys |->
     LET taken == {i \in DOMAIN motions : motions[i][key] # FAIL}
     IN IF taken = {} THEN FAIL ELSE motions[Min(taken)][key]]
-----------------------------------------------------------------------------
(* motion_tree.lua.  Keys with the same next are made together.            *)

simple_motions == make_or(<<make_key(Searching, make_any_key(Nowhere)), make_key(Moving, Nowhere)>>)
complex_motion == make_key({"i", "a"}, make_key(Enclosing, Nowhere))
numbered == make_number(make_or(<<simple_motions, complex_motion>>))
make_numbered_command_motion(key) ==
  make_number(make_or(<<simple_motions, complex_motion, make_key({key}, Nowhere)>>))
Command(key) == make_key({key}, make_numbered_command_motion(key))
visual == make_key({"v"}, numbered)
command_motions == make_or(<<Command("y"), Command("d"), Command("c"), numbered>>)
numbered_command_motions ==
  make_number(make_or(<<command_motions, make_key({"z"}, make_key({"z"}, Nowhere)),
                        make_key({"g"}, make_key({"g"}, Nowhere)), make_key({"u", "^R"}, Nowhere)>>))
all_motions == make_or(<<visual, make_key(Inserting, Nowhere), make_key(Paging, Nowhere),
                         numbered_command_motions>>)
-----------------------------------------------------------------------------
\* Motion:feedkey.  Its loop calls again, with the same key, when a number has not consumed it,
\* and there are at most two numbers on the way to a key.
Settled(motion, key) ==
  LET Turn(m) == IF m[key].state = "DONE_NO_CONSUME" THEN m[key].next ELSE m
  IN Turn(Turn(motion))
Feed(motion, key) ==
  LET settled == Settled(motion, key)
      answer == settled[key]
  IN CASE answer.state = "NIL" -> [curr |-> Nowhere, last |-> "dropped"]
       [] answer.state = "DONE_CONSUME" ->
            [curr |-> answer.next, last |-> IF answer.next = Nowhere THEN "motion" ELSE "going on"]
       [] answer.state = "NO_DONE_CONSUME" -> [curr |-> settled, last |-> "going on"]

MotionInit == mode = "n" /\ curr = Nowhere /\ chars = <<>> /\ last = "dropped" /\ typed = <<>>

feedkey(key) ==
  /\ mode \notin {"i", "c"} /\ Len(typed) < MaxTyped
  /\ LET before == IF curr = Nowhere THEN <<>> ELSE chars
         fed == Feed(IF curr = Nowhere THEN all_motions ELSE curr, key)
     IN /\ curr' = fed.curr /\ last' = fed.last
        /\ chars' = IF fed.last = "dropped" THEN before ELSE Append(before, key)
  /\ typed' = IF last = "going on" THEN Append(typed, key) ELSE <<key>>
  /\ UNCHANGED mode

\* A key in insert mode, or on the command line, is no motion's.  Leaving insert mode forgets a
\* motion that had begun before it.
handle_mode_changed(to) ==
  /\ mode # to /\ mode' = to
  /\ IF mode = "i" /\ curr # Nowhere
     THEN curr' = Nowhere /\ chars' = <<>> /\ last' = "dropped" /\ typed' = <<>>
     ELSE UNCHANGED <<curr, chars, last, typed>>

MotionNext == (\E key \in Keys : feedkey(key)) \/ \E to \in {"n", "no", "v", "i", "c"} : handle_mode_changed(to)
-----------------------------------------------------------------------------
(* The motions, as sequences of keys.                                      *)

OneOf(keys, s) == Len(s) = 1 /\ s[1] \in keys
IsPlain(s) == \/ OneOf(Moving, s)
              \/ Len(s) = 2 /\ s[1] \in Searching
              \/ Len(s) = 2 /\ s[1] \in {"i", "a"} /\ s[2] \in Enclosing
Counted(Is(_), s) ==
  \E n \in 0 .. Len(s) : (\A i \in 1 .. n : s[i] \in Digits) /\ Is(SubSeq(s, n + 1, Len(s)))
IsWhole(s) ==
  \/ OneOf(Inserting \cup Paging, s)
  \/ IsPlain(s)
  \/ /\ Len(s) > 1 /\ s[1] \in {"y", "d", "c", "v"}
     /\ Counted(LAMBDA r : IsPlain(r) \/ (s[1] # "v" /\ r = <<s[1]>>), Tail(s))
IsMotion(s) == Counted(IsWhole, s)
IsBegun(s) == \E more \in BoundedSeq(Keys, 3) : more # <<>> /\ IsMotion(s \o more)

\* The modes that vim has here, and what keys there may be.
MotionTypeOK ==
  /\ mode \in {"n", "no", "v", "i", "c"} /\ last \in {"motion", "dropped", "going on"}
  /\ chars \in Seq(Keys) /\ Len(chars) <= MaxTyped

\* A motion is reported with the key that completes it and has all of its keys and no others; a
\* key is dropped, with those before it, as soon as no motion goes on like this; until then one
\* is awaited.  (gg, zz, u and ^R are none: an alternative before them takes every key.)
MotionsRecognised ==
  /\ MotionTypeOK
  /\ last = "motion" => IsMotion(typed) /\ chars = typed
  /\ last = "dropped" => typed = <<>> \/ ~(IsMotion(typed) \/ IsBegun(typed))
  /\ last = "going on" => IsBegun(typed) /\ ~IsMotion(typed) /\ chars = typed
=============================================================================
