----------------------------- MODULE SoundCache -----------------------------
(***************************************************************************)
(* gsd-sound: PulseAudio caches the sounds of the theme that applications    *)
(* have played; when the theme, or the files of one, change the daemon       *)
(* flushes them, half a second after the last of the changes.              *)
(***************************************************************************)
EXTENDS Integers, FiniteSets

CONSTANTS
  Samples,        \* the names of sounds
  Directories,    \* where themes may be installed
  MaxSoundEvents, \* bound: changes of themes, and sounds played
  SoWorlds        \* bound: the happenings of a behaviour are from one of these sets

VARIABLE so

FlushDelay == 2  \* the half second, in quarters

\* A cached sample is of a theme (it has an event id) or not, and fresh or not.
CacheEntry == [name : Samples, themed : BOOLEAN, fresh : BOOLEAN]

SoTypeOK ==
  /\ so.may \in SoWorlds /\ so.existing \subseteq Directories /\ so.monitors \subseteq so.existing
  /\ so.running \in BOOLEAN /\ so.event \in BOOLEAN /\ so.timeout \in 0 .. FlushDelay
  /\ so.cache \subseteq CacheEntry /\ so.pulse \in BOOLEAN
  /\ so.events \in 0 .. MaxSoundEvents

\* Mistake: the flush that is due is cancelled and no other begun.
TriggerFlushOnce(s) == IF s.timeout # 0 THEN [s EXCEPT !.timeout = 0] ELSE [s EXCEPT !.timeout = FlushDelay]

\* trigger_flush: the delay begins anew.
TriggerFlush(s) == [s EXCEPT !.timeout = FlushDelay]

\* sample_info_cb: a sample of no theme is kept.
DropSamples(cache) == {entry \in cache : ~entry.themed}

\* flush_cache: where PulseAudio cannot be talked to nothing is tried again.
FlushCache(s) == IF s.pulse THEN [s EXCEPT !.cache = DropSamples(@)] ELSE s

\* gsd_sound_manager_startup: the directories that are there are watched.
SoInit ==
  \E may \in SoWorlds, existing \in SUBSET Directories :
    so = [may |-> may, existing |-> existing, monitors |-> existing, running |-> TRUE,
          event |-> FALSE, timeout |-> 0, cache |-> {}, pulse |-> TRUE, events |-> 0]

Happens(what) == what \in so.may /\ so.events < MaxSoundEvents
Happened == [so EXCEPT !.events = @ + 1]
Stale(cache) == {[entry EXCEPT !.fresh = ~entry.themed] : entry \in cache}

\* An application plays a sound of the theme there is, or one of its own.
Play ==
  /\ Happens("play") /\ so.pulse
  /\ \E name \in Samples, themed \in BOOLEAN :
       /\ \A entry \in so.cache : entry.name # name
       /\ so' = [Happened EXCEPT !.cache = @ \cup {[name |-> name, themed |-> themed, fresh |-> TRUE]}]

\* settings_changed_cb, and what the change makes of the samples.
SettingsChanged ==
  /\ Happens("theme") /\ so.running
  /\ so' = TriggerFlush([Happened EXCEPT !.cache = Stale(@)])

\* Files of a theme change; the directory may be new.
FilesChange ==
  /\ Happens("files")
  /\ \E dir \in Directories :
       /\ dir \in so.existing \/ "new_directory" \in so.may
       /\ so' = [Happened EXCEPT !.existing = @ \cup {dir}, !.cache = Stale(@),
                                 !.event = @ \/ dir \in so.monitors]

\* file_monitor_changed_cb
FileMonitorChanged == so.event /\ so.running /\ so' = TriggerFlush([so EXCEPT !.event = FALSE])

\* Time passes; flush_cb.
SoTick ==
  /\ so.timeout > 0
  /\ LET later == [so EXCEPT !.timeout = @ - 1]
     IN so' = IF later.timeout = 0 THEN FlushCache(later) ELSE later

\* PulseAudio ends, and with it its cache, or begins.
PulseChanges == Happens("pulse") /\ so' = [Happened EXCEPT !.pulse = ~@, !.cache = {}]

\* gsd_sound_manager_shutdown
SoShutdown ==
  Happens("shutdown") /\ so.running
  /\ so' = [so EXCEPT !.running = FALSE, !.timeout = 0, !.monitors = {}, !.event = FALSE]

SoNext ==
  Play \/ SettingsChanged \/ FilesChange \/ FileMonitorChanged \/ SoTick \/ PulseChanges \/ SoShutdown

-------------------------------------------------------------------------------
(* Properties                                                              *)

\* However changes and sounds follow each other: while the daemon runs and its
\* directories are those it began with, a sample of an earlier theme is in the
\* cache only until the flush that is due.
OldSoundsAreFlushed ==
  so.running /\ so.existing = so.monitors
  => \A entry \in so.cache : entry.fresh \/ so.event \/ so.timeout > 0
=============================================================================
