-------------------------------- MODULE Marks --------------------------------
(***************************************************************************)
(* grapple's marks (mark.lua, init.lua): a list of files for every         *)
(* project, with holes, in the memory of each editor and in one file of    *)
(* all editors.  Every change is saved at once: save reads the projects    *)
(* again that the editor is not in, and writes all of them.  Between       *)
(* editors that is a read, an open that empties the file, and a write.     *)
(*                                                                         *)
(* A project is a directory, or a branch in it: the one that an editor is  *)
(* in is asked for at every call.  One that is absent has no marks; of a   *)
(* mark there is the file name, not the cursor.                            *)
(***************************************************************************)
EXTENDS Integers, SequencesExt

CONSTANTS Nvims, Projects, Files, Hole,
          Empty,         \* "(empty)", as the menu has a hole
          Lists,         \* what a user makes of the menu's lines
          FirstMarks,    \* what the file has at the beginning
          MaxIdx, MaxOps \* bounds: the index asked of set_current_at, operations

\* No file is in a list twice.
Once(ms) == \A i, j \in DOMAIN ms : ms[i] = ms[j] /\ ms[i] \in Files => i = j

\* The file is grapple's own: no file is in it twice.
ASSUME MarksAssumption ==
  /\ Projects # {} /\ Hole \notin Files \cup {Empty} /\ Empty \notin Files /\ {MaxIdx, MaxOps} \subseteq Nat
  /\ Lists \subseteq Seq(Files \cup {Empty})
  /\ FirstMarks \in [Projects -> Seq(Files \cup {Hole})] /\ \A p \in Projects : Once(FirstMarks[p])

VARIABLES cache_config,  \* the file: "json" with its projects, "empty", or "junk"
          GrappleConfig, \* of each editor: its projects
          cwd,           \* of each editor: the project it is in
          running,       \* of each editor: "no", "yes" or "leaving"
          saving,        \* of each editor: "idle", "read" or "opened", how far save is
          ops,
          made,          \* history: of each project, what a user has last made of its marks
          missed,        \* history: of each editor, the projects others changed since it read them
          overtaken,     \* history: projects that an editor has saved which had missed a change
          spoiled,       \* history: an editor read or saved during a save, or one died saving
          repeated       \* history: a user has written a file twice into the menu

saves == <<made, missed, overtaken, spoiled, repeated>>
mvars == <<cache_config, GrappleConfig, cwd, running, saving, ops, saves>>

NoMarks == [p \in Projects |-> <<>>]

MarksInit ==
  /\ cache_config = [kind |-> "json", projects |-> FirstMarks]
  /\ GrappleConfig = [e \in Nvims |-> NoMarks]
  /\ cwd = [e \in Nvims |-> CHOOSE p \in Projects : TRUE]
  /\ running = [e \in Nvims |-> "no"] /\ saving = [e \in Nvims |-> "idle"]
  /\ ops = 0 /\ made = FirstMarks /\ missed = [e \in Nvims |-> {}] /\ overtaken = {}
  /\ spoiled = FALSE /\ repeated = FALSE

\* What cannot be read has no projects.
read_config == IF cache_config.kind = "json" THEN cache_config.projects ELSE NoMarks
marks(e) == GrappleConfig[e][cwd[e]]
Awake(e) == running[e] = "yes" /\ saving[e] = "idle"

get_index_of(ms, f) == {i \in DOMAIN ms : ms[i] = f}
get_first_empty_slot(ms) == Min({i \in DOMAIN ms : ms[i] = Hole} \cup {Len(ms) + 1})
remove_empty_tail(ms) == SubSeq(ms, 1, Max({i \in DOMAIN ms : ms[i] # Hole} \cup {0}))

Overlaps(e) == \E d \in Nvims \ {e} : saving[d] # "idle"

\* setup, in whatever directory the editor is started.
StartEditor(e, p) ==
  /\ running[e] = "no" /\ ops < MaxOps
  /\ running' = [running EXCEPT ![e] = "yes"] /\ cwd' = [cwd EXCEPT ![e] = p]
  /\ GrappleConfig' = [GrappleConfig EXCEPT ![e] = read_config]
  /\ ops' = ops + 1 /\ missed' = [missed EXCEPT ![e] = {}]
  /\ spoiled' = (spoiled \/ Overlaps(e))
  /\ UNCHANGED <<cache_config, saving, made, overtaken, repeated>>

\* The user goes to another directory, or checks out another branch: grapple does nothing.
ChangeDir(e, p) ==
  /\ Awake(e) /\ cwd' = [cwd EXCEPT ![e] = p]
  /\ UNCHANGED <<cache_config, GrappleConfig, running, saving, ops, saves>>

saveStale(e, ms) == \* Seeded bug: the other projects are not read again.
  /\ Awake(e) /\ ops < MaxOps /\ ops' = ops + 1
  /\ GrappleConfig' = [GrappleConfig EXCEPT ![e][cwd[e]] = ms]
  /\ saving' = [saving EXCEPT ![e] = "read"]
  /\ overtaken' = overtaken \cup (missed[e] \cap {cwd[e]})
  /\ spoiled' = (spoiled \/ Overlaps(e))
  /\ UNCHANGED <<cache_config, cwd>>
\* save as far as refresh_projects_b4update goes: the project that the editor is in has ms.
save(e, ms) ==
  /\ Awake(e) /\ ops < MaxOps /\ ops' = ops + 1
  /\ GrappleConfig' = [GrappleConfig EXCEPT ![e] = [read_config EXCEPT ![cwd[e]] = ms]]
  /\ saving' = [saving EXCEPT ![e] = "read"]
  /\ overtaken' = overtaken \cup (missed[e] \cap {cwd[e]})
  /\ spoiled' = (spoiled \/ Overlaps(e))
  /\ UNCHANGED <<cache_config, cwd>>
\* emit_changed, after a user has made ms of the marks.
emit_changed(e, ms) ==
  /\ save(e, ms)
  /\ made' = [made EXCEPT ![cwd[e]] = ms]
  /\ missed' = [d \in Nvims |-> IF d = e THEN missed[e] \cap {cwd[e]} ELSE missed[d] \cup {cwd[e]}]
  /\ running' = running
\* The rest of it, Path:write.
OpenCache(e) ==
  /\ saving[e] = "read"
  /\ saving' = [saving EXCEPT ![e] = "opened"]
  /\ cache_config' = [kind |-> "empty", projects |-> NoMarks]
  /\ UNCHANGED <<GrappleConfig, cwd, running, ops, saves>>
\* What was written since it was opened is overwritten, and what is longer stays behind.
WriteCache(e) ==
  /\ saving[e] = "opened"
  /\ \/ cache_config' = [kind |-> "json", projects |-> GrappleConfig[e]]
     \/ cache_config.kind # "empty" /\ cache_config' = [kind |-> "junk", projects |-> NoMarks]
  /\ saving' = [saving EXCEPT ![e] = "idle"]
  /\ running' = [running EXCEPT ![e] = IF @ = "leaving" THEN "no" ELSE @]
  /\ UNCHANGED <<GrappleConfig, cwd, ops, saves>>

add_file(e, f) ==
  /\ get_index_of(marks(e), f) = {}
  /\ LET slot == get_first_empty_slot(marks(e)) IN
     emit_changed(e, remove_empty_tail([i \in 1 .. Max({slot, Len(marks(e))}) |->
                                          IF i = slot THEN f ELSE marks(e)[i]]))
  /\ repeated' = repeated
rm_file(e, f) ==
  /\ get_index_of(marks(e), f) # {}
  /\ emit_changed(e, remove_empty_tail([marks(e) EXCEPT ![Min(get_index_of(marks(e), f))] = Hole]))
  /\ repeated' = repeated
clear_all(e) == emit_changed(e, <<>>) /\ repeated' = repeated

CopiedAt(ms, f, idx) == \* Seeded bug: the file stays where it was.
  [i \in 1 .. Max({idx, Len(ms)}) |->
     IF i = idx THEN f ELSE IF i \notin DOMAIN ms THEN Hole ELSE ms[i]]
MovedTo(ms, f, idx) ==
  [i \in 1 .. Max({idx, Len(ms)}) |->
     IF i = idx THEN f
     ELSE IF i \notin DOMAIN ms \/ (get_index_of(ms, f) # {} /\ i = Min(get_index_of(ms, f)))
     THEN Hole ELSE ms[i]]
set_current_at(e, f, idx) == emit_changed(e, MovedTo(marks(e), f, idx)) /\ repeated' = repeated

\* The menu's lines before the user has changed any; blank ones are left out when it is saved.
toggle_quick_menu(ms) == [i \in DOMAIN ms |-> IF ms[i] = Hole THEN Empty ELSE ms[i]]
set_mark_list(e, lines) == emit_changed(e, lines) /\ repeated' = (repeated \/ ~Once(lines))

\* On BufLeave, and once more on VimLeave, nothing is made of the marks, but they are saved.
store_offset(e) ==
  /\ save(e, marks(e))
  /\ running' \in {running, [running EXCEPT ![e] = "leaving"]}
  /\ missed' = [missed EXCEPT ![e] = @ \cap {cwd[e]}]
  /\ UNCHANGED <<made, repeated>>

\* The editor is killed, or its disk is full.
KillEditor(e) ==
  /\ running[e] # "no"
  /\ running' = [running EXCEPT ![e] = "no"] /\ saving' = [saving EXCEPT ![e] = "idle"]
  /\ spoiled' = (spoiled \/ saving[e] # "idle")
  /\ UNCHANGED <<cache_config, GrappleConfig, cwd, ops, made, missed, overtaken, repeated>>

MarksNext ==
  \E e \in Nvims :
    \/ KillEditor(e) \/ OpenCache(e) \/ WriteCache(e) \/ clear_all(e) \/ store_offset(e)
    \/ \E p \in Projects : StartEditor(e, p) \/ ChangeDir(e, p)
    \/ \E lines \in Lists \cup {toggle_quick_menu(marks(e))} : set_mark_list(e, lines)
    \/ \E f \in Files : add_file(e, f) \/ rm_file(e, f) \/ \E idx \in 1 .. MaxIdx : set_current_at(e, f, idx)
-----------------------------------------------------------------------------
\* Marks are files, holes, and holes that have been through the menu.
MarksTypeOK == \A e \in Nvims : GrappleConfig[e] \in [Projects -> Seq(Files \cup {Hole, Empty})]

\* Unless the file is read or saved during a save, or an editor dies while it saves, the file has
\* of every project, those included that no editor is in, what its users have last made of it.
\* That is but for a project that an editor has saved after it missed another's change there: it
\* has been in the project since, or has come back to it without a save in another project.
MarksKept ==
  ~spoiled /\ (\A e \in Nvims : saving[e] = "idle") =>
      /\ cache_config.kind = "json"
      /\ \A p \in Projects \ overtaken : cache_config.projects[p] = made[p]

\* No file is marked twice, unless a user writes it twice into the menu.
NoFileTwice == ~repeated => \A e \in Nvims : \A p \in Projects : Once(GrappleConfig[e][p])
=============================================================================
