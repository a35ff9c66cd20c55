---------------------------- MODULE KeyboardSetup ----------------------------
(***************************************************************************)
(* gsd-keyboard: at the start of a session it carries settings of earlier    *)
(* versions over, and gives a user who has no input sources those of         *)
(* libgnomekbd or else of the system, once localed has answered.  Stamp files *)
(* say what has been carried over.                                         *)
(***************************************************************************)
EXTENDS Integers, Sequences, SequencesExt

CONSTANTS
  LocaledAnswers, \* what localed may tell: [layouts, variants, options], sequences
  OldLayouts,     \* of libgnomekbd: a sequence of [layout, variant], "" for none
  OldOptions,     \* of libgnomekbd: a sequence of options
  MaxLogins,      \* bound: sessions in a behaviour
  MaxKbCalls,     \* bound: what users set in a behaviour
  KbWorlds        \* bound: the happenings of a behaviour are from one of these sets

VARIABLE kb

DEFAULT_LAYOUT == "us"
Options == {<<>>, <<"ctrl:nocaps">>, OldOptions} \cup {answer.options : answer \in LocaledAnswers}

KbTypeOK ==
  /\ kb.may \in KbWorlds /\ kb.phase \in {"out", "idle", "calling", "running"}
  /\ \A i \in DOMAIN kb.sources : kb.sources[i].variant \in STRING
  /\ kb.options \in Options /\ kb.options_set \in BOOLEAN
  /\ kb.converted \in BOOLEAN /\ kb.ported \in BOOLEAN
  /\ kb.im_module \in {"", "xim"} /\ kb.old_delay \in {0, 1} /\ kb.delay \in {0, 1, 2}
  /\ kb.gdm \in BOOLEAN /\ kb.by \in {"user", "daemon"}
  /\ kb.logins \in 0 .. MaxLogins /\ kb.calls \in 0 .. MaxKbCalls

Source(layout, variant) == [layout |-> layout, variant |-> variant]

-------------------------------------------------------------------------------
(* Carrying settings over.                                                 *)

\* gsd_settings_migrate_check, of migrate_keyboard_settings: a value that was
\* set is moved, whatever the new setting is.
MigrateCheck(s) == IF s.old_delay = 0 THEN s ELSE [s EXCEPT !.old_delay = 0, !.delay = s.old_delay]

\* migrate_keyboard_settings: gtk-im-module is reset once; written: the stamp
\* could be written.
MigrateKeyboardSettings(s, written) ==
  LET moved == MigrateCheck(s)
  IN IF moved.ported THEN moved ELSE [moved EXCEPT !.im_module = "", !.ported = written]

\* convert_libgnomekbd_layouts
ConvertLayouts(s) == [s EXCEPT !.sources = @ \o OldLayouts]

\* convert_libgnomekbd_options
ConvertOptions(s) == [s EXCEPT !.options = OldOptions, !.options_set = TRUE]

\* Mistake: the stamp is not asked for.
MaybeConvertAlways(s, written) ==
  LET layouts == IF "libgnomekbd" \in s.may /\ s.sources = <<>> THEN ConvertLayouts(s) ELSE s
      options == IF "libgnomekbd" \in s.may /\ s.options = <<>> THEN ConvertOptions(layouts) ELSE layouts
  IN [options EXCEPT !.converted = written]

\* maybe_convert_old_settings, where the directory of the stamp is there
MaybeConvertOldSettings(s, written) ==
  LET layouts == IF "libgnomekbd" \in s.may /\ s.sources = <<>> THEN ConvertLayouts(s) ELSE s
      options == IF "libgnomekbd" \in s.may /\ s.options = <<>> THEN ConvertOptions(layouts) ELSE layouts
  IN IF s.converted THEN s ELSE [options EXCEPT !.converted = written]

\* get_sources_from_xkb_config: layouts are paired with variants, up to an empty one.
SourcesFromXkb(s, localed) ==
  LET layouts  == localed.layouts
      variants == localed.variants
      n        == IF variants # <<>> /\ Len(variants) < Len(layouts) THEN Len(variants) ELSE Len(layouts)
      named    == {i \in 1 .. n : \A j \in 1 .. i : layouts[j] # ""}
      Variant(i) == IF i \in DOMAIN variants THEN variants[i] ELSE ""
      found    == [i \in named |-> Source(layouts[i], Variant(i))]
  IN [s EXCEPT !.sources = @ \o (IF layouts = <<>> THEN <<Source(DEFAULT_LAYOUT, "")>> ELSE found)]

\* get_options_from_xkb_config
OptionsFromXkb(s, localed) ==
  IF localed.options = <<>> THEN s ELSE [s EXCEPT !.options = localed.options, !.options_set = TRUE]

\* maybe_create_initial_settings
MaybeCreateInitialSettings(s, localed, written) ==
  LET converted == MaybeConvertOldSettings(s, written)
      sources   == IF converted.sources = <<>> THEN SourcesFromXkb(converted, localed) ELSE converted
  IN IF s.gdm THEN s
     ELSE IF sources.options_set THEN sources ELSE OptionsFromXkb(sources, localed)

-------------------------------------------------------------------------------
KbInit ==
  \E may \in KbWorlds, gdm, converted, ported \in BOOLEAN, im_module \in {"", "xim"}, old_delay \in {0, 1} :
    kb = [may |-> may, phase |-> "out", sources |-> <<>>, options |-> <<>>, options_set |-> FALSE,
          converted |-> converted, ported |-> ported, im_module |-> im_module,
          old_delay |-> old_delay, delay |-> 0, gdm |-> gdm, by |-> "user", logins |-> 0, calls |-> 0]

StampWritten(written) == written \/ "disk_full" \in kb.may

\* gsd_keyboard_manager_init and startup
Login ==
  /\ kb.phase = "out" /\ kb.logins < MaxLogins
  /\ \E written \in BOOLEAN :
       /\ StampWritten(written)
       /\ kb' = MigrateKeyboardSettings([kb EXCEPT !.phase = "idle", !.by = "daemon", !.logins = @ + 1],
                                        written)

\* start_keyboard_idle_cb
StartKeyboardIdle == kb.phase = "idle" /\ kb' = [kb EXCEPT !.phase = "calling", !.by = "daemon"]

\* localed_proxy_ready; without localed nothing is known of its layouts.
NoLocaled == [layouts |-> <<>>, variants |-> <<>>, options |-> <<>>]

LocaledProxyReady ==
  /\ kb.phase = "calling"
  /\ \E localed \in LocaledAnswers \cup {NoLocaled}, written \in BOOLEAN :
       /\ StampWritten(written)
       /\ kb' = MaybeCreateInitialSettings([kb EXCEPT !.phase = "running", !.by = "daemon"],
                                           localed, written)

\* gsd_keyboard_manager_shutdown, at any time: the call is cancelled.
Logout == kb.phase # "out" /\ kb' = [kb EXCEPT !.phase = "out", !.by = "daemon"]

\* The user sets things in the session, at any time.
UserSets ==
  /\ "user" \in kb.may /\ kb.phase # "out" /\ kb.calls < MaxKbCalls
  /\ LET set == [kb EXCEPT !.by = "user", !.calls = @ + 1]
     IN \/ \E sources \in {<<>>, <<Source("fr", "")>>} : kb' = [set EXCEPT !.sources = sources]
        \/ \E options \in {<<>>, <<"ctrl:nocaps">>} :
             kb' = [set EXCEPT !.options = options, !.options_set = TRUE]
        \/ kb' = [set EXCEPT !.options = <<>>, !.options_set = FALSE]
        \/ kb' = [set EXCEPT !.im_module = "xim"]
        \/ kb' = [set EXCEPT !.delay = 2]

KbNext == Login \/ StartKeyboardIdle \/ LocaledProxyReady \/ Logout \/ UserSets

-------------------------------------------------------------------------------
(* Properties                                                              *)

\* What the user has chosen stays: the daemon replaces no input sources, nor
\* options that were chosen (none is a choice) once the old ones have been
\* carried over, nor the input method module once it has been reset.
ChoicesAreKept ==
  kb'.by = "daemon" =>
    /\ kb.sources # <<>> => kb'.sources = kb.sources
    /\ kb.converted /\ kb.options_set => kb'.options = kb.options
    /\ kb.ported => kb'.im_module = kb.im_module
=============================================================================
