------------------------------ MODULE Calculator ------------------------------
(***************************************************************************)
(* Actions per minute (vim-insight's stats.lua and ring_buffer.lua): the   *)
(* motions of the last apm_period are kept in a ring buffer with their     *)
(* scores, less for a motion that repeats a recent one, and the sum of     *)
(* the scores goes along with the buffer.                                  *)
(***************************************************************************)
EXTENDS Integers, SequencesExt

CONSTANTS Motions,           \* what disnumber_motion makes of the keys
          apm_repeat_count, apm_period,
          RingSize,          \* 1000
          Unit,              \* a score of one: a multiple of every possible count
          MotionGap,         \* from the last event to a motion
          ReportGap,         \* and to a report
          MaxMotions         \* bound

\* A ring of one would be full with its first motion.
ASSUME CalcAssumption ==
  /\ {apm_repeat_count, Unit} \subseteq Nat \ {0} /\ RingSize \in Nat \ {0, 1}
  /\ {apm_period, MotionGap, ReportGap, MaxMotions} \subseteq Nat
  /\ \A n \in 1 .. apm_repeat_count + 1 : Unit % n = 0

VARIABLES ring,       \* Calculator.motions
          motions_count, index_count, apm_sum,
          time,
          pushed,     \* history: the motions since the last clear, with their times
          resized     \* history: the ring was full since then

cvars == <<ring, motions_count, index_count, apm_sum, time, pushed, resized>>
-----------------------------------------------------------------------------
(* APMRingBuffer: buffer is a table, of which the indexes in its domain are not nil. *)

NewRing(size) == [buffer |-> <<>>, start |-> 1, stop |-> 1, size |-> size, len |-> 0]
Nil == <<>>

peek(r) == IF r.start \in DOMAIN r.buffer THEN r.buffer[r.start] ELSE Nil
After(r, i) == IF i + 1 > r.size THEN 1 ELSE i + 1

\* It is only called with start = stop: the loop over start .. stop copies one item, to index 0,
\* where nobody looks for it.
resize(r) ==
  [r EXCEPT !.buffer = [i \in {0} \cap {j - r.start : j \in DOMAIN r.buffer} |-> r.buffer[i + r.start]],
            !.start = 1, !.stop = r.size, !.size = 2 * @]

Stored(r, item) ==
  [r EXCEPT !.buffer = [i \in DOMAIN @ \cup {r.stop} |-> IF i = r.stop THEN item ELSE @[i]],
            !.stop = After(r, @), !.len = @ + 1]
Full(r) == r.stop = r.start
ringPush(r, item) == IF Full(Stored(r, item)) THEN resize(Stored(r, item)) ELSE Stored(r, item)

ringPop(r) ==
  IF r.start = r.stop THEN r
  ELSE [r EXCEPT !.buffer = [i \in DOMAIN @ \ {r.start} |-> @[i]],
                 !.start = After(r, @), !.len = @ - 1]
-----------------------------------------------------------------------------
ExpiredEarly(item, t) == item.time <= t - apm_period \* Seeded bug: one too early.
Expired(item, t) == item.time < t - apm_period

\* The loop of trim, after n turns.  It ends as soon as nothing is left that has expired, and
\* a ring holds no more than its size.
trim(r, sum, t) ==
  LET after[n \in Nat] ==
        IF n = 0 THEN [ring |-> r, sum |-> sum]
        ELSE LET c == after[n - 1]
             IN IF peek(c.ring) = Nil \/ ~Expired(peek(c.ring), t) THEN c
                ELSE [ring |-> ringPop(c.ring), sum |-> Max({0, c.sum - peek(c.ring).score})]
  IN after[r.size]

CalcInit ==
  /\ ring = NewRing(RingSize) /\ motions_count = <<>> /\ index_count = 1 /\ apm_sum = 0
  /\ time = 0 /\ pushed = <<>> /\ resized = FALSE

Trim(r, sum) == LET trimmed == trim(r, sum, time') IN ring' = trimmed.ring /\ apm_sum' = trimmed.sum

NextIndex == IF index_count + 1 > apm_repeat_count THEN 1 ELSE index_count + 1

Push(key) ==
  /\ Len(pushed) < MaxMotions
  /\ time' = time + MotionGap
  /\ LET count == 1 + Cardinality({i \in DOMAIN motions_count : motions_count[i] = key})
         item == [time |-> time', score |-> Unit \div count]
     IN /\ Trim(ringPush(ring, item), apm_sum + item.score)
        /\ resized' = (resized \/ Full(Stored(ring, item)))
  /\ motions_count' = [i \in DOMAIN motions_count \cup {index_count} |->
                         IF i = index_count THEN key ELSE motions_count[i]]
  /\ index_count' = NextIndex
  /\ pushed' = Append(pushed, [time |-> time', key |-> key])

\* MemoryReporter trims before it reports; FileReporter does not, and reports the sum as it was
\* after the last motion.
Report ==
  /\ pushed # <<>> /\ time + ReportGap <= Last(pushed).time + apm_period + 1
  /\ time' = time + ReportGap /\ Trim(ring, apm_sum)
  /\ UNCHANGED <<motions_count, index_count, pushed, resized>>

Clear ==
  /\ pushed # <<>>
  /\ ring' = NewRing(RingSize) /\ motions_count' = <<>> /\ index_count' = 1 /\ apm_sum' = 0
  /\ pushed' = <<>> /\ resized' = FALSE /\ time' = 0 \* only differences matter
CalcNext ==
  \/ Report \/ \E key \in Motions : Push(key)
  \/ Clear
-----------------------------------------------------------------------------
\* The last motions' keys go round in a table.
CalcTypeOK ==
  /\ ring.len \in 0 .. MaxMotions /\ apm_sum \in 0 .. Unit * MaxMotions
  /\ index_count \in 1 .. apm_repeat_count
  /\ DOMAIN motions_count \subseteq 1 .. apm_repeat_count

ScoreOf(n) ==
  Unit \div (1 + Cardinality({i \in DOMAIN pushed : i < n /\ n - i <= apm_repeat_count
                                                     /\ pushed[i].key = pushed[n].key}))
Window == {n \in DOMAIN pushed : pushed[n].time >= time - apm_period}

\* As long as the ring has not been full, the sum is that of the scores of the last apm_period,
\* each less for every repetition among the apm_repeat_count motions before it, and the ring
\* holds those motions.  Once it has been full it looks empty, and nothing is trimmed until
\* clear.
SumIsWindow ==
  /\ CalcTypeOK
  /\ IF resized THEN peek(ring) = Nil
     ELSE /\ apm_sum = FoldFunction(+, 0, [n \in Window |-> ScoreOf(n)])
          /\ ring.len = Cardinality(Window)
          /\ Window = {} \/ peek(ring).time = pushed[Min(Window)].time
=============================================================================
