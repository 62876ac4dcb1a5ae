------------------------------ MODULE StatsFile ------------------------------
(***************************************************************************)
(* One file for the statistics of all editors (vim-insight's               *)
(* reporter/file-reporter.lua, stats.lua, interval.lua and init.lua): once *)
(* a minute every FileReporter reads it, adds its own counts and writes it *)
(* again.  Within an editor that is one step of its main loop; between     *)
(* editors it is a read, an open that empties the file, and a write.       *)
(*                                                                         *)
(* The n-th setup of an editor makes its reporter <<editor, n>>.  Of the   *)
(* statistics there is a counter and the time in a mode.                   *)
(***************************************************************************)
EXTENDS Integers, SequencesExt

CONSTANTS Editors,
          MaxSetups, MaxEvents, MaxClock \* bounds

ASSUME FileAssumption == IsFiniteSet(Editors) /\ {MaxSetups, MaxEvents, MaxClock} \subseteq Nat

VARIABLES file,     \* the text, "json" with its count and its time, "empty", or "junk"
          setups,   \* of each editor: how often setup was called
          enabled,  \* of each editor: Interval's enabled
          own,      \* of each reporter: the count since its last merge
          since,    \* of each reporter: last_mode_start_time
          due,      \* reporters with a callback of defer_fn to come
          at,       \* of each editor: [step, by, merged], how far its report is
          clock,
          events,   \* history: how many events there were
          dropped,  \* history: events that were cleared before they were reported
          overlap,  \* history: two editors have reported at the same time
          failed,   \* history: a report has not been written
          again     \* history: setup was called while an earlier reporter's callback was due

reporters == <<setups, enabled, own, since, due>>
noted == <<events, dropped, overlap, failed, again>>
fvars == <<file, reporters, at, clock, noted>>

Reporters == Editors \X (1 .. MaxSetups)
Of(e) == {e} \X (1 .. MaxSetups)
Text(kind) == [kind |-> kind, count |-> 0, time |-> 0]
AtRest == [step |-> "idle", by |-> 0, merged |-> Text("empty")]
Total(counts) == FoldFunction(+, 0, counts)

FileInit ==
  /\ file = Text("empty") /\ clock = 0
  /\ setups = [e \in Editors |-> 0] /\ enabled = [e \in Editors |-> FALSE]
  /\ own = [r \in Reporters |-> 0] /\ since = [r \in Reporters |-> 0] /\ due = {}
  /\ at = [e \in Editors |-> AtRest]
  /\ events = 0 /\ dropped = 0 /\ overlap = FALSE /\ failed = FALSE /\ again = FALSE

Idle(e) == at[e] = AtRest

\* VimApm:clear, with FileReporter:clear.
Cleared(e) ==
  /\ own' = [r \in Reporters |-> IF r \in Of(e) THEN 0 ELSE own[r]]
  /\ dropped' = dropped + Total([r \in Of(e) |-> own[r]])

VimApmClear(e) ==
  /\ Idle(e) /\ enabled[e]
  /\ Cleared(e) /\ enabled' = [enabled EXCEPT ![e] = FALSE]
  /\ UNCHANGED <<file, setups, since, due, at, clock, events, overlap, failed, again>>

\* clear, and a reporter that listens to the bus in place of the last one.
Setup(e) ==
  /\ Idle(e) /\ Total(setups) < MaxSetups
  /\ Cleared(e) /\ enabled' = [enabled EXCEPT ![e] = TRUE]
  /\ setups' = [setups EXCEPT ![e] = @ + 1]
  /\ since' = [since EXCEPT ![<<e, setups'[e]>>] = clock]
  /\ due' = due \cup {<<e, setups'[e]>>}
  /\ again' = (again \/ due \cap Of(e) # {})
  /\ UNCHANGED <<file, at, clock, events, overlap, failed>>

\* An event on the bus, of which there is none without a setup.
Event(e) ==
  /\ Idle(e) /\ enabled[e] /\ events < MaxEvents
  /\ own' = [own EXCEPT ![<<e, setups[e]>>] = @ + 1] /\ events' = events + 1
  /\ UNCHANGED <<file, setups, enabled, since, due, at, clock, dropped, overlap, failed, again>>

\* The callback finds interval disabled, and is not deferred again.
Interval(e, n) ==
  /\ Idle(e) /\ <<e, n>> \in due /\ ~enabled[e]
  /\ due' = due \ {<<e, n>>}
  /\ UNCHANGED <<file, setups, enabled, own, since, at, clock, noted>>

\* Stats:merge: what cannot be read counts for nothing.
merge(r) == [kind |-> "json", count |-> own[r] + file.count, time |-> file.time + (clock - since[r])]

MergeTwice(e, n) == \* Seeded bug: merge does not clear the statistics.
  /\ Idle(e) /\ <<e, n>> \in due /\ enabled[e]
  /\ at' = [at EXCEPT ![e] = [step |-> "read", by |-> n, merged |-> merge(<<e, n>>)]]
  /\ since' = [since EXCEPT ![<<e, n>>] = clock]
  /\ overlap' = (overlap \/ \E f \in Editors \ {e} : ~Idle(f))
  /\ UNCHANGED <<file, setups, enabled, own, due, clock, events, dropped, failed, again>>
Merge(e, n) ==
  /\ Idle(e) /\ <<e, n>> \in due /\ enabled[e]
  /\ at' = [at EXCEPT ![e] = [step |-> "read", by |-> n, merged |-> merge(<<e, n>>)]]
  /\ own' = [own EXCEPT ![<<e, n>>] = 0] /\ since' = [since EXCEPT ![<<e, n>>] = clock]
  /\ overlap' = (overlap \/ \E f \in Editors \ {e} : ~Idle(f))
  /\ UNCHANGED <<file, setups, enabled, due, clock, events, dropped, failed, again>>

OpenKeeps(e) == \* Seeded bug: the file is opened without being emptied.
  /\ at[e].step = "read"
  /\ at' = [at EXCEPT ![e].step = "opened"]
  /\ UNCHANGED <<file, reporters, clock, noted>>
Open(e) ==
  /\ at[e].step = "read"
  /\ at' = [at EXCEPT ![e].step = "opened"] /\ file' = Text("empty")
  /\ UNCHANGED <<reporters, clock, noted>>

\* What was written since the file was opened is overwritten, and what is longer stays behind.
Write(e) ==
  /\ at[e].step = "opened"
  /\ \/ file' = at[e].merged
     \/ file.kind # "empty" /\ file' = Text("junk")
  /\ at' = [at EXCEPT ![e] = AtRest]
  /\ UNCHANGED <<reporters, clock, noted>>

\* The file cannot be opened: closing no file is an error, which ends the callback and with it the
\* interval.
OpenFails(e) ==
  /\ at[e].step = "read"
  /\ due' = due \ {<<e, at[e].by>>}
  /\ at' = [at EXCEPT ![e] = AtRest] /\ failed' = TRUE
  /\ UNCHANGED <<file, setups, enabled, own, since, clock, events, dropped, overlap, again>>

\* Nothing can be written, or not all of it: fs_write says so, nobody listens, and the interval goes on.
WriteFails(e) ==
  /\ at[e].step = "opened"
  /\ file' \in {file, Text("junk")}
  /\ at' = [at EXCEPT ![e] = AtRest] /\ failed' = TRUE
  /\ UNCHANGED <<reporters, clock, events, dropped, overlap, again>>

Tick ==
  /\ clock < MaxClock /\ clock' = clock + 1
  /\ UNCHANGED <<file, reporters, at, noted>>

FileNext ==
  \/ Tick
  \/ \E e \in Editors : \/ VimApmClear(e) \/ Setup(e) \/ Event(e) \/ Open(e) \/ Write(e)
                        \/ OpenFails(e) \/ WriteFails(e)
                        \/ \E n \in 1 .. MaxSetups : Interval(e, n) \/ Merge(e, n)
-----------------------------------------------------------------------------
\* Counts are of events, and callbacks of reporters.
FileTypeOK ==
  /\ file \in [kind : {"json", "empty", "junk"}, count : 0 .. MaxEvents, time : Nat]
  /\ due \subseteq Reporters /\ own \in [Reporters -> 0 .. MaxEvents]

\* Unless two editors report at the same time, or a report fails, every event is in the file, is
\* waiting in one reporter for the next report, or was cleared with it.
NothingLost ==
  ~overlap /\ ~failed /\ (\A e \in Editors : Idle(e)) => file.count + Total(own) + dropped = events

\* Whatever the editors do to each other, no event is counted twice; nor is time, unless an
\* editor was set up again within the interval: then the earlier reporter goes on, and adds its
\* own time in the mode it has last seen.
NothingTwice ==
  /\ file.count + Total(own) + dropped <= events
  /\ ~again => file.time <= clock * Cardinality({e \in Editors : setups[e] > 0})
=============================================================================
