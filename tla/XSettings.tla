------------------------------ MODULE XSettings ------------------------------
(***************************************************************************)
(* gsd-xsettings: mirrors the settings of the session for X clients.  It     *)
(* keeps a table of settings with a serial each, which an idle source writes *)
(* to a property of a window; it follows the settings, the scale Mutter      *)
(* tells, the animations the shell tells, the GTK modules that are installed *)
(* and wanted, and the fonts, which a thread loads once they are quiet.      *)
(***************************************************************************)
EXTENDS Integers, FiniteSets

CONSTANTS
  GtkModules,   \* the modules that may be installed
  CondModules,  \* those of them that a setting of theirs turns on
  MaxXsChanges, \* bound: changes around the daemon in a behaviour
  XsWorlds      \* bound: the changes of a behaviour are from one of these sets

VARIABLE xs

Unset  == <<>>
Themes == {"Adwaita", "HighContrast"}
Fonts  == {"Cantarell", "Other"}
Scales == 1 .. 2

\* One of the settings that are translated, those of Xft, of the input method,
\* of GTK, and of fontconfig each.
XNames == {"Net/ThemeName", "Gtk/FontName", "Xft/DPI", "Gtk/IMModule", "Gtk/EnableAnimations",
           "Gtk/Modules", "Fontconfig/Timestamp"}

XsTypeOK ==
  /\ xs.may \in XsWorlds
  /\ xs.gsettings.theme \in Themes /\ xs.gsettings.font \in Fonts
  /\ xs.gsettings.high_contrast \in BOOLEAN /\ xs.gsettings.text \in Scales
  /\ xs.gsettings.im_module \in {"", "xim"}
  /\ xs.gsettings.enabled \subseteq GtkModules /\ xs.gsettings.disabled \subseteq GtkModules
  /\ xs.gsettings.wanted \subseteq CondModules
  /\ xs.mutter \in Scales \cup {0} /\ xs.shell \in {"gone", "still", "animated"}
  /\ DOMAIN xs.settings = XNames /\ DOMAIN xs.published = XNames
  /\ xs.serial \in Nat /\ \A n \in XNames : xs.settings[n].serial \in 0 .. xs.serial
  /\ xs.notify_idle_id \in BOOLEAN /\ xs.enable_animations \in BOOLEAN
  /\ xs.dir \subseteq GtkModules /\ xs.dir_modules \subseteq GtkModules
  /\ xs.cond_settings \subseteq CondModules /\ xs.modules \subseteq GtkModules
  /\ xs.dir_event \in BOOLEAN /\ xs.mtime \in Nat /\ xs.dir_mtime \in 0 .. xs.mtime
  /\ xs.fc.state \in {"idle", "pending", "running", "restart"}
  /\ xs.fc.thread \in {"none", "started", "updated", "unnecessary", "failed"}
  /\ xs.fc.stale \in BOOLEAN /\ xs.fc.event \in BOOLEAN
  /\ xs.fc.notify \in BOOLEAN /\ xs.fc.untold \in BOOLEAN
  /\ xs.fc.monitors \in BOOLEAN /\ xs.fc.missed \in BOOLEAN
  /\ xs.changes \in 0 .. MaxXsChanges

-------------------------------------------------------------------------------
(* The table of settings.                                                  *)

\* xsettings_setting_get
SettingGet(setting) == IF setting.override # Unset THEN setting.override ELSE setting.base

\* xsettings_setting_set and xsettings_manager_set_setting: the serial is that
\* of the next write when the value is another one.
SetTier(s, name, set) ==
  [s EXCEPT !.settings[name] =
     [set EXCEPT !.serial = IF SettingGet(set) = SettingGet(s.settings[name]) THEN @ ELSE s.serial]]
SetSetting(s, name, value) == SetTier(s, name, [s.settings[name] EXCEPT !.base = value])

\* xsettings_manager_set_overrides: a name that is listed again is not unset
\* first, and is not set when its value is of no type that is known.
SetOverrides(s, new) ==
  LET old == s.overrides
      Over(n) == CASE n \in DOMAIN new /\ new[n] # "wrong type" -> <<new[n]>>
                   [] n \in DOMAIN new /\ new[n] = "wrong type" -> s.settings[n].override
                   [] n \notin DOMAIN new /\ n \in DOMAIN old   -> Unset
                   [] OTHER                                     -> s.settings[n].override
      Set(n) == [s.settings[n] EXCEPT !.override = Over(n)]
  IN [s EXCEPT !.overrides = new,
               !.settings  = [n \in XNames |-> SetTier(s, n, Set(n)).settings[n]]]

QueueNotify(s) == [s EXCEPT !.notify_idle_id = TRUE]

\* Mistake: the serial of the next write is that of this one.
ManagerNotifyKeepsSerial(s) ==
  [s EXCEPT !.published =
     [n \in XNames |-> [value |-> SettingGet(s.settings[n]), serial |-> s.settings[n].serial]]]

\* xsettings_manager_notify
ManagerNotify(s) ==
  [s EXCEPT !.published =
              [n \in XNames |-> [value |-> SettingGet(s.settings[n]), serial |-> s.settings[n].serial]],
            !.serial = @ + 1]

-------------------------------------------------------------------------------
(* What follows the settings.                                              *)

\* translate_theme_name, translate_string_string
Translate(s) ==
  LET theme == IF s.gsettings.high_contrast THEN "HighContrast" ELSE s.gsettings.theme
  IN SetSetting(SetSetting(s, "Net/ThemeName", <<theme>>), "Gtk/FontName", <<s.gsettings.font>>)

\* update_xft_settings; get_window_scale is 1 while Mutter is not there.
UpdateXftSettings(s) ==
  SetSetting(s, "Xft/DPI", <<s.gsettings.text * (IF s.mutter = 0 THEN 1 ELSE s.mutter)>>)

\* update_gtk_im_module: no write is queued.
UpdateGtkImModule(s) ==
  SetSetting(s, "Gtk/IMModule", <<IF s.gsettings.im_module = "" THEN "ibus" ELSE s.gsettings.im_module>>)

\* animations_enabled_changed
AnimationsEnabledChanged(s) ==
  LET enabled == s.shell = "animated"
  IN IF s.shell = "gone" \/ s.enable_animations = enabled THEN s
     ELSE QueueNotify(SetSetting([s EXCEPT !.enable_animations = enabled],
                                 "Gtk/EnableAnimations", <<enabled>>))

\* gtk_modules_callback
GtkModulesCallback(s) == QueueNotify(SetSetting(s, "Gtk/Modules", <<s.modules>>))

\* The modules that are to be loaded, of those the directory gives.
WantedModules(s, dir_modules) == (dir_modules \cup s.gsettings.enabled) \ s.gsettings.disabled

\* update_gtk_modules
UpdateGtkModules(s) ==
  LET modules == WantedModules(s, s.dir_modules)
  IN IF modules = s.modules THEN s ELSE GtkModulesCallback([s EXCEPT !.modules = modules])

\* process_desktop_file, for all that is in the directory.
DirModules(s) == {m \in s.dir : m \in CondModules => m \in s.gsettings.wanted}

\* get_gtk_modules_from_dir: the directory is read again when it is newer.
GetGtkModulesFromDir(s) ==
  IF s.dir_mtime = 0 \/ s.mtime > s.dir_mtime
  THEN [s EXCEPT !.dir_mtime = s.mtime, !.dir_modules = DirModules(s),
                 !.cond_settings = s.dir \cap CondModules]
  ELSE s

-------------------------------------------------------------------------------
Nothing   == [base |-> Unset, override |-> Unset, serial |-> 0]
NoModules == {}

\* gsd_xsettings_manager_startup, in a session whose display server is there.
XsStartup(s) ==
  LET entries  == Translate(UpdateGtkImModule(s))
      gtk      == UpdateGtkModules(GetGtkModulesFromDir(entries))
      modules  == GtkModulesCallback(gtk)
  IN QueueNotify(UpdateXftSettings(modules))

XsInit ==
  \E may \in XsWorlds, shell \in {"gone", "still", "animated"}, mutter \in {0, 1},
     dir \in SUBSET GtkModules :
    xs = XsStartup(
      [may |-> may,
       gsettings |-> [theme |-> "Adwaita", font |-> "Cantarell", high_contrast |-> FALSE, text |-> 1,
                      im_module |-> "", enabled |-> NoModules, disabled |-> NoModules,
                      wanted |-> NoModules],
       mutter |-> mutter, shell |-> shell,
       settings |-> [n \in XNames |-> Nothing], serial |-> 0, overrides |-> <<>>,
       published |-> [n \in XNames |-> [value |-> Unset, serial |-> 0]],
       notify_idle_id |-> FALSE, enable_animations |-> FALSE,
       dir |-> dir, dir_modules |-> NoModules, cond_settings |-> NoModules, modules |-> NoModules,
       dir_event |-> FALSE, mtime |-> 1, dir_mtime |-> 0,
       fc |-> [state |-> "idle", thread |-> "none", stale |-> FALSE, event |-> FALSE,
               notify |-> FALSE, untold |-> FALSE, monitors |-> FALSE, missed |-> FALSE],
       changes |-> 0])

Changes(what) == what \in xs.may /\ xs.changes < MaxXsChanges
Changed(s) == [s EXCEPT !.changes = @ + 1]

NotifyIdle == xs.notify_idle_id /\ xs' = [ManagerNotify(xs) EXCEPT !.notify_idle_id = FALSE]

\* xsettings_callback
XsettingsCallback ==
  /\ Changes("settings")
  /\ \/ \E theme \in Themes : xs' = QueueNotify(Translate(Changed([xs EXCEPT !.gsettings.theme = theme])))
     \/ \E font \in Fonts : xs' = QueueNotify(Translate(Changed([xs EXCEPT !.gsettings.font = font])))
     \/ xs' = QueueNotify(Translate(Changed([xs EXCEPT !.gsettings.high_contrast = ~@])))
     \/ \E text \in Scales :
          xs' = QueueNotify(UpdateXftSettings(Changed([xs EXCEPT !.gsettings.text = text])))

\* update_gtk_im_module, as the setting changes.
ImModuleSet ==
  /\ Changes("input")
  /\ \E module \in {"", "xim"} : xs' = UpdateGtkImModule(Changed([xs EXCEPT !.gsettings.im_module = module]))

\* override_callback
OverrideCallback ==
  /\ Changes("overrides")
  /\ \E names \in SUBSET {"Gtk/FontName"} : \E new \in [names -> {"Monospace", "wrong type"}] :
       xs' = QueueNotify(SetOverrides(Changed(xs), new))

\* on_mutter_x11_properties_changed and ..._name_appeared_handler; when Mutter
\* leaves nothing is called.
UiScalingFactorChanged ==
  /\ Changes("display")
  /\ \/ \E scale \in Scales : xs' = QueueNotify(UpdateXftSettings(Changed([xs EXCEPT !.mutter = scale])))
     \/ xs' = Changed([xs EXCEPT !.mutter = 0])

\* on_introspect_properties_changed and ..._name_appeared_handler
ShellChanged ==
  /\ Changes("shell")
  /\ \E shell \in {"gone", "still", "animated"} :
       xs' = AnimationsEnabledChanged(Changed([xs EXCEPT !.shell = shell]))

\* plugin_callback: the lists of modules that are enabled and disabled.
ModulesListed ==
  /\ Changes("lists")
  /\ \E m \in GtkModules : \/ xs' = Changed([xs EXCEPT !.gsettings.enabled = @ \cup {m}])
                           \/ xs' = Changed([xs EXCEPT !.gsettings.disabled = @ \cup {m}])

\* cond_setting_changed, where the module is watched.
CondSettingChanged ==
  /\ Changes("modules")
  /\ \E m \in CondModules :
       LET set == Changed([xs EXCEPT !.gsettings.wanted = IF m \in @ THEN @ \ {m} ELSE @ \cup {m}])
           on  == m \in set.gsettings.wanted
       IN xs' = IF m \notin set.cond_settings THEN set
                ELSE UpdateGtkModules(
                       [set EXCEPT !.dir_modules = IF on THEN @ \cup {m} ELSE @ \ {m}])

\* A module is installed or removed; same_second: within the second of the last time.
ModuleInstalled ==
  /\ Changes("modules")
  /\ \E m \in GtkModules, later \in {0, 1} :
       /\ later = 0 => "same_second" \in xs.may
       /\ xs' = Changed([xs EXCEPT !.dir = IF m \in @ THEN @ \ {m} ELSE @ \cup {m},
                                   !.mtime = @ + later, !.dir_event = TRUE])

\* gtk_modules_dir_changed_cb
GtkModulesDirChanged ==
  /\ xs.dir_event
  /\ xs' = UpdateGtkModules(GetGtkModulesFromDir([xs EXCEPT !.dir_event = FALSE]))

-------------------------------------------------------------------------------
(* fc_monitor: the fonts.                                                  *)

StartTimeout(s) == [s EXCEPT !.fc.state = "pending"]

\* start_fontconfig_monitor_idle_cb
StartFontconfigMonitor == ~xs.fc.monitors /\ xs' = [xs EXCEPT !.fc.monitors = TRUE]

\* The monitors, if there are any, are going to tell of it; history: it is missed.
FontsInstalled ==
  /\ Changes("fonts")
  /\ xs' = Changed([xs EXCEPT !.fc.stale = TRUE,
                              !.fc.event = xs.fc.monitors, !.fc.missed = ~xs.fc.monitors])

StuffChanged ==
  /\ xs.fc.event
  /\ LET s == [xs EXCEPT !.fc.event = FALSE]
     IN xs' = CASE s.fc.state \in {"idle", "pending"} -> StartTimeout(s)
                [] OTHER                              -> [s EXCEPT !.fc.state = "restart"]

StartUpdate ==
  xs.fc.state = "pending" /\ xs' = [xs EXCEPT !.fc.state = "running", !.fc.thread = "started"]

\* fontconfig_cache_update_thread
CacheUpdateThread ==
  /\ xs.fc.thread = "started"
  /\ \/ /\ ~xs.fc.stale
        /\ xs' = [xs EXCEPT !.fc.thread = "unnecessary"]
     \/ /\ xs.fc.stale
        /\ xs' = [xs EXCEPT !.fc.thread = "updated", !.fc.stale = FALSE, !.fc.untold = TRUE,
                            !.fc.missed = FALSE]
     \/ /\ xs.fc.stale /\ "failures" \in xs.may
        /\ xs' = [xs EXCEPT !.fc.thread = "failed"]

\* fontconfig_callback
FontconfigCallback(s) ==
  QueueNotify(SetSetting([s EXCEPT !.fc.untold = FALSE], "Fontconfig/Timestamp", <<s.changes>>))

\* fc_monitor_stop and fc_monitor_start: what the old monitors have not delivered
\* yet is lost with them.
RestartMonitors(s) ==
  [s EXCEPT !.fc.event = FALSE, !.fc.missed = @ \/ (s.fc.event /\ s.fc.stale)]

\* Mistake: an update that another one follows is not remembered.
UpdateDoneForgets(s) ==
  LET done == [s EXCEPT !.fc.state = "idle", !.fc.thread = "none"]
  IN IF s.fc.state = "restart" THEN StartTimeout(done)
     ELSE IF s.fc.thread = "updated" THEN FontconfigCallback(RestartMonitors(done)) ELSE done

\* update_done
UpdateDone(s) ==
  LET done == [s EXCEPT !.fc.state = "idle", !.fc.thread = "none",
                        !.fc.notify = @ \/ s.fc.thread = "updated"]
  IN IF s.fc.state = "restart" THEN StartTimeout(done)
     ELSE IF done.fc.notify
          THEN FontconfigCallback(RestartMonitors([done EXCEPT !.fc.notify = FALSE])) ELSE done

ThreadDone == xs.fc.thread \in {"updated", "unnecessary", "failed"} /\ xs' = UpdateDone(xs)

XsNext ==
  \/ NotifyIdle \/ XsettingsCallback \/ ImModuleSet \/ OverrideCallback \/ UiScalingFactorChanged
  \/ ShellChanged \/ ModulesListed \/ CondSettingChanged \/ ModuleInstalled \/ GtkModulesDirChanged
  \/ StartFontconfigMonitor \/ FontsInstalled \/ StuffChanged \/ StartUpdate \/ CacheUpdateThread
  \/ ThreadDone

-------------------------------------------------------------------------------
(* Properties                                                              *)

\* A client that remembers the serials it read sees by them which settings
\* changed: a write that gives a setting another value gives it a later serial.
SerialsTellChanges ==
  \A n \in XNames :
    xs'.published[n].value # xs.published[n].value
    => xs.published[n].value = Unset \/ xs'.published[n].serial > xs.published[n].serial

\* Whatever fonts come while others are being loaded: fonts that are not yet
\* loaded are going to be, unless loading failed, or nothing told of them because
\* the monitors were not started yet or were restarted before they did; and
\* clients are going to be told of the fonts that are loaded.
FontsAreFollowed ==
  /\ xs.fc.stale /\ ~xs.fc.missed /\ "failures" \notin xs.may
     => xs.fc.event \/ xs.fc.state \in {"pending", "restart"} \/ xs.fc.thread = "started"
  /\ xs.fc.untold => xs.fc.state # "idle"

\* plugin_callback does nothing for the lists of modules, "as GsdXsettingsGtk
\* will handle it": what GTK clients are told follows the lists and the
\* directory, once its events have been handled.
ModulesFollowLists ==
  ~xs.dir_event /\ "same_second" \notin xs.may => xs.modules = WantedModules(xs, DirModules(xs))

\* README.xsettings: overrides of other types "will be ignored".
WrongTypesAreIgnored ==
  \A n \in DOMAIN xs.overrides : xs.overrides[n] = "wrong type" => xs.settings[n].override = Unset
=============================================================================
