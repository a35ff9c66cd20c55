------------------------------ MODULE TrashPurge ------------------------------
(***************************************************************************)
(* gsd-disk-space.c of gsd-housekeeping: what is in the trash, or among the *)
(* temporary files, for longer than a number of days is deleted each hour,  *)
(* and the trash on request.  The tree is walked by asynchronous calls, one  *)
(* file at a time, while files come, change and go.                         *)
(***************************************************************************)
EXTENDS Naturals, FiniteSets

CONSTANTS
  Tree,          \* file -> [parent, top, kind, fs, mine]; the roots are TempRoot and
                 \* TrashRoot, and top is the one the file is in, or is, below its root
  TempRoot, TrashRoot,
  PurgeAfter,    \* days
  MaxDays,       \* bound: days in a behaviour
  MaxPurges,     \* bound: purges in a behaviour with requests, 1 in others
  PuWorlds,      \* bound: the happenings of a behaviour are from one of these sets
  Systemd        \* {TRUE}, {FALSE} or both: gnome_settings_have_systemd

VARIABLE pu

Files == DOMAIN Tree
Roots == {TempRoot, TrashRoot}
Parent(f) == Tree[f].parent
Children(s, d) == {f \in s.there : Parent(f) = d}
Tops     == {f \in Files : Parent(f) \in Roots}
TopOf(f) == Tree[f].top
\* What a constant tree is: every file is below a file of the same top, or is one.
TreeIsATree ==
  /\ TempRoot # TrashRoot /\ Roots \cap Files = {}
  /\ \A f \in Files : TopOf(f) \in Tops
  /\ \A f \in Tops : TopOf(f) = f
  /\ \A f \in Files \ Tops : Parent(f) \in Files /\ TopOf(Parent(f)) = TopOf(f)

InTrash(f) == f = TrashRoot \/ (f \in Files /\ Parent(TopOf(f)) = TrashRoot)

Stages == {"query", "enumerate", "batch", "last"}
\* cutoff is one day late, so that it is a natural number.
Tasks  == [file : Files \cup Roots, stage : Stages, cutoff : 0 .. MaxDays + PurgeAfter]

PuTypeOK ==
  /\ pu.systemd \in BOOLEAN /\ pu.may \in PuWorlds
  /\ pu.purge_trash \in BOOLEAN /\ pu.purge_temp_files \in BOOLEAN
  /\ pu.privacy \in [{"trash", "temp"} -> BOOLEAN]
  /\ pu.there \subseteq Files /\ pu.time \in [Files -> 0 .. MaxDays]
  /\ pu.day \in 0 .. MaxDays /\ pu.purges \in 0 .. MaxPurges
  /\ pu.tasks \subseteq Tasks
  /\ pu.deleted \subseteq [file : Files, time : 0 .. MaxDays, top : 0 .. MaxDays,
                           cutoff : 0 .. MaxDays + PurgeAfter]

-------------------------------------------------------------------------------
\* Mistake: any file is old that was not changed since the cutoff.
ShouldPurgeAnybodys(s, f, cutoff) == f \in s.there /\ s.time[f] + PurgeAfter <= cutoff

\* should_purge_file: by the date it was trashed, or the time it was changed if
\* it is a file of the user.
ShouldPurgeFile(s, f, cutoff) ==
  /\ f \in s.there /\ s.time[f] + PurgeAfter <= cutoff
  /\ Parent(f) = TrashRoot \/ Tree[f].mine

\* g_file_delete: not of a directory that has something in it.  A directory is
\* changed when what it holds goes.  deleted is history.
Delete(s, f, cutoff) ==
  IF f \notin s.there \/ Children(s, f) # {} THEN s
  ELSE [s EXCEPT !.there = @ \ {f},
                 !.time = [g \in Files |-> IF g = Parent(f) /\ ~InTrash(g) THEN s.day ELSE @[g]],
                 !.deleted = @ \cup {[file |-> f, time |-> s.time[f], cutoff |-> cutoff,
                                      top |-> s.time[TopOf(f)]]}]

\* Inside an item of the trash everything goes with the item.
DeleteIfOld(s, f, cutoff) ==
  IF (InTrash(f) /\ f \notin Tops) \/ ShouldPurgeFile(s, f, cutoff) THEN Delete(s, f, cutoff) ELSE s

\* Mistake: an item of the trash is walked before it is known to be old.
DeleteRecursivelyAnyAge(s, f, cutoff) ==
  [s EXCEPT !.tasks = @ \cup {[file |-> f, stage |-> "query", cutoff |-> cutoff]}]

\* delete_recursively_by_age
DeleteRecursivelyByAge(s, f, cutoff) ==
  IF InTrash(f) /\ f \in Tops /\ ~ShouldPurgeFile(s, f, cutoff) THEN s
  ELSE [s EXCEPT !.tasks = @ \cup {[file |-> f, stage |-> "query", cutoff |-> cutoff]}]

Finish(s, task)       == [s EXCEPT !.tasks = @ \ {task}]
Goto(s, task, stage)  == [s EXCEPT !.tasks = (@ \ {task}) \cup {[task EXCEPT !.stage = stage]}]

\* delete_subdir_check_symlink: a link is never followed, and inside the trash
\* it goes by its own age.
CheckSymlink(s, task) ==
  LET f == task.file
  IN IF f \in Files /\ f \notin s.there THEN Finish(s, task)
     ELSE IF f \in Roots THEN Goto(s, task, "enumerate")
     ELSE CASE Tree[f].kind = "symlink" ->
                 IF ShouldPurgeFile(s, f, task.cutoff) THEN Delete(Finish(s, task), f, task.cutoff)
                 ELSE Finish(s, task)
            [] Tree[f].kind = "X11" -> Finish(s, task)
            [] OTHER -> Goto(s, task, "enumerate")

\* delete_subdir: a file is deleted, a directory read.
DeleteSubdir(s, task) ==
  LET f == task.file
  IN IF f \in Roots THEN Goto(s, task, "batch")
     ELSE IF f \notin s.there THEN Finish(s, task)
     ELSE IF Tree[f].kind = "dir" THEN Goto(s, task, "batch")
     ELSE DeleteIfOld(Finish(s, task), f, task.cutoff)

\* delete_batch, with the files of a directory: each that is on the file
\* system of the directory is walked.
FsOf(d) == IF d = TempRoot THEN "root" ELSE IF d = TrashRoot THEN "any" ELSE Tree[d].fs
Batch(s, task) ==
  LET batch == {f \in Children(s, task.file) :
                  FsOf(task.file) \in {"any", Tree[f].fs}}
      walked == {f \in batch : DeleteRecursivelyByAge(s, f, task.cutoff) # s}
  IN [Goto(s, task, "last") EXCEPT
        !.tasks = @ \cup {[file |-> f, stage |-> "query", cutoff |-> task.cutoff] : f \in walked}]

\* delete_batch, at the end: the directory itself, whether the calls for its
\* files have ended or not.
LastBatch(s, task) ==
  IF task.file \in Roots THEN Finish(s, task)
  ELSE DeleteIfOld(Finish(s, task), task.file, task.cutoff)

\* gsd_ldsm_purge_trash and gsd_ldsm_purge_temp_files
PurgeTrash(s, cutoff) == DeleteRecursivelyByAge(s, TrashRoot, cutoff)
PurgeTempFiles(s, cutoff) ==
  IF s.systemd THEN s ELSE DeleteRecursivelyByAge(s, TempRoot, cutoff)

-------------------------------------------------------------------------------
PuInit ==
  \E systemd \in Systemd, may \in PuWorlds :
    pu = [systemd |-> systemd, may |-> may,
          purge_trash |-> "trash" \in may, purge_temp_files |-> "temp" \in may,
          privacy |-> [k \in {"trash", "temp"} |-> k \in may],
          there |-> {f \in Files : (IF InTrash(f) THEN "trash" ELSE "temp") \in may},
          time |-> [f \in Files |-> 0], day |-> 0, purges |-> 0, tasks |-> {}, deleted |-> {}]

MayPurge == pu.purges < (IF "request" \in pu.may THEN MaxPurges ELSE 1)

\* ldsm_purge_trash_and_temp, the hourly timer: cutoff is PurgeAfter days ago.
PurgeTimer ==
  /\ MayPurge /\ (pu.purge_trash \/ pu.purge_temp_files)
  /\ LET s == [pu EXCEPT !.purges = @ + 1]
         t == IF pu.purge_trash THEN PurgeTrash(s, pu.day) ELSE s
     IN pu' = IF pu.purge_temp_files THEN PurgeTempFiles(t, pu.day) ELSE t

\* EmptyTrash and RemoveTempFiles of handle_method_call, and
\* empty_trash_callback: what there is by now.
PurgeNow ==
  /\ MayPurge /\ "request" \in pu.may
  /\ LET s == [pu EXCEPT !.purges = @ + 1]
     IN pu' = PurgeTrash(s, pu.day + PurgeAfter) \/ pu' = PurgeTempFiles(s, pu.day + PurgeAfter)

\* A call of the walk ends.
WalkOn ==
  \E task \in pu.tasks :
    pu' = CASE task.stage = "query"     -> CheckSymlink(pu, task)
            [] task.stage = "enumerate" -> DeleteSubdir(pu, task)
            [] task.stage = "batch"     -> Batch(pu, task)
            [] task.stage = "last"      -> LastBatch(pu, task)

\* gsd_ldsm_get_config reads the privacy settings, but only a change of the
\* settings of housekeeping makes it run.
PrivacyRead ==
  /\ "settings" \in pu.may
  /\ pu' = [pu EXCEPT !.purge_trash = pu.privacy["trash"], !.purge_temp_files = pu.privacy["temp"]]
PrivacyToggled(k) == "settings" \in pu.may /\ pu' = [pu EXCEPT !.privacy[k] = ~@]

\* A file is written again or created, an item is trashed or taken back.  Bound:
\* its name is not used again while a walk is on it, what is mounted stays.
FileChanges(f) ==
  /\ "files" \in pu.may /\ f \in pu.there /\ ~InTrash(f) /\ Tree[f].mine /\ Tree[f].fs = "root"
  /\ pu' = [pu EXCEPT !.time[f] = pu.day]
FileAppears(top) ==
  /\ "files" \in pu.may /\ top \notin pu.there /\ top \in Tops
  /\ (IF InTrash(top) THEN "trash" ELSE "temp") \in pu.may
  /\ \A d \in pu.deleted \cup pu.tasks : d.file \in Files => TopOf(d.file) # top
  /\ LET new == {f \in Files : TopOf(f) = top}
     IN pu' = [pu EXCEPT !.there = @ \cup new, !.time = [f \in Files |-> IF f \in new THEN pu.day ELSE @[f]]]
FileGoes(top) ==
  /\ "files" \in pu.may /\ top \in pu.there /\ top \in Tops /\ Tree[top].fs = "root"
  /\ \A d \in pu.deleted : TopOf(d.file) # top
  /\ pu' = [pu EXCEPT !.there = {f \in @ : TopOf(f) # top}]
DayPasses == pu.day < MaxDays /\ pu' = [pu EXCEPT !.day = @ + 1]

PuNext ==
  \/ PurgeTimer
  \/ PurgeNow
  \/ WalkOn
  \/ PrivacyRead
  \/ \E k \in {"trash", "temp"} : PrivacyToggled(k)
  \/ \E f \in Files : FileChanges(f) \/ FileAppears(f) \/ FileGoes(f)
  \/ DayPasses

-------------------------------------------------------------------------------
\* However the calls of the walk and the changes of the files interleave, what
\* is deleted had its age when it was: a temporary file of the user on the
\* file system of the directory, or an item of the trash with what is in it.
PurgeSpares ==
  \A d \in pu.deleted :
    IF InTrash(d.file) THEN d.top + PurgeAfter <= d.cutoff
    ELSE /\ d.time + PurgeAfter <= d.cutoff
         /\ Tree[d.file].mine /\ Tree[d.file].fs = "root" /\ Tree[d.file].kind # "X11"
==============================================================================
