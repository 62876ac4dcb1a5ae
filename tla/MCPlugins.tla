------------------------------ MODULE MCPlugins ------------------------------
(***************************************************************************)
(* The Lua programs.  A behaviour is one of: vim-insight's recogniser of   *)
(* motions, its actions per minute, its file of statistics with several    *)
(* editors, grapple's marks with several editors.                          *)
(***************************************************************************)
EXTENDS MotionTree, Calculator, StatsFile, Marks

VARIABLE part

plugins == <<kvars, cvars, fvars, mvars>>

AllInit ==
  /\ part \in {"motions", "calculator", "file", "marks"}
  /\ MotionInit /\ CalcInit /\ FileInit /\ MarksInit

Insight == /\ part = "motions" /\ MotionNext
           /\ UNCHANGED <<part, cvars, fvars, mvars>>
Apm == /\ part = "calculator" /\ CalcNext
       /\ UNCHANGED <<part, kvars, fvars, mvars>>
Statistics == /\ part = "file" /\ FileNext
              /\ UNCHANGED <<part, kvars, cvars, mvars>>
Grapple == /\ part = "marks" /\ MarksNext
           /\ UNCHANGED <<part, kvars, cvars, fvars>>
AllNext == Insight \/ Apm \/ Statistics \/ Grapple
AllSpec == AllInit /\ [][AllNext]_<<part, plugins>>

\* What editors keep in one file, unless two of them use it at the same time: each event once; of
\* every project the marks last made of it, but for projects that an editor saved although it had
\* missed another's change there; and a file in one place of a list.
FilesKept == FileTypeOK /\ MarksTypeOK /\ NothingLost /\ NothingTwice /\ MarksKept /\ NoFileTwice

EditorsAlike == Permutations(Editors) \cup Permutations(Nvims)
Unmarked == [p \in Projects |-> IF p = "q" THEN <<"a">> ELSE <<>>]
Menus == {<<"b", "a">>, <<"a", "a">>}
=============================================================================
