---------------------------- MODULE UsbProtection ----------------------------
(***************************************************************************)
(* gsd-usb-protection: keeps USBGuard's InsertedDevicePolicy in step with  *)
(* the settings and with the lock screen, and authorises the keyboards and *)
(* hubs that are plugged in.  Calls to USBGuard and what comes back from it *)
(* each keep their order; settings and screen change in between.           *)
(***************************************************************************)
EXTENDS Naturals, Sequences

CONSTANTS
  UpWorlds,      \* bound: in a behaviour, what one of these sets allows happens
  MaxUpCalls     \* bound: calls to USBGuard not handled, and messages not read

VARIABLE up

Levels   == {"lockscreen", "always"}
Policies == {"apply-policy", "block"}
UpProxies == {"usb", "devices", "policy", "logind"}

UpCalls == [op : {"set"}, value : Policies] \cup [op : {"get", "list", "append", "allow"}]
UpMessages ==
  [kind : {"changed"}, value : Policies, own : BOOLEAN] \cup [kind : {"got"}, value : Policies]
    \cup [kind : {"rules"}, present : BOOLEAN]
    \cup [kind : {"inserted"}, class : {"hid", "hardwired", "other"}, allowed : BOOLEAN]

UpTypeOK ==
  /\ up.may \in UpWorlds
  /\ up.protection \in BOOLEAN /\ up.level \in Levels
  /\ up.ready \subseteq UpProxies
  /\ up.active \in BOOLEAN /\ up.screensaver_active \in BOOLEAN /\ up.signals \in Seq(BOOLEAN)
  /\ up.running \in BOOLEAN /\ up.policy \in Policies /\ up.rule \in BOOLEAN
  /\ up.available \in BOOLEAN
  /\ up.calls \in Seq(UpCalls) /\ up.messages \in Seq(UpMessages)
  /\ up.notification \in BOOLEAN /\ up.locking \in BOOLEAN /\ up.aborted \in BOOLEAN
  /\ up.overridden \in BOOLEAN /\ up.missed \in BOOLEAN

-------------------------------------------------------------------------------
\* A call goes out, in order; without a USBGuard it fails and is only logged.
Call(s, c) ==
  IF s.running THEN [s EXCEPT !.calls = Append(@, c)] ELSE [s EXCEPT !.missed = TRUE]

\* What the settings and the screen ask for.
Wanted(s) == IF s.level = "always" \/ s.screensaver_active THEN "block" ELSE "apply-policy"

\* setParameter (InsertedDevicePolicy); overridden is a history variable: the
\* value ignores that the screen is locked.
SetParameter(s, value) ==
  IF "usb" \notin s.ready THEN s
  ELSE [Call(s, [op |-> "set", value |-> value]) EXCEPT !.overridden = (value # Wanted(s) /\ s.level = "lockscreen")]

\* usbguard_ensure_allow_rule
EnsureAllowRule(s) == IF "policy" \notin s.ready THEN s ELSE Call(s, [op |-> "list"])

\* settings_changed_callback, which is connected with the first proxy.
SettingsChanged(s, key) ==
  LET cleaned == EnsureAllowRule(SetParameter(s, "apply-policy"))
  IN IF "usb" \notin s.ready \/ (~s.protection /\ key = "level") THEN s
     ELSE IF ~s.protection \/ s.level = "lockscreen" THEN cleaned
     ELSE SetParameter(s, "block")

\* update_usb_protection_store: somebody else changed USBGuard's configuration.
UpdateUsbProtectionStore(s, value) ==
  IF s.protection /\ value = "apply-policy" /\ s.level = "always"
  THEN SettingsChanged([s EXCEPT !.protection = FALSE], "protection")
  ELSE s

\* Mistake: the lock screen is only followed while the level asks for it.
HandleScreensaverForgets(s, active) ==
  IF s.screensaver_active # active /\ s.protection /\ s.level = "lockscreen"
  THEN SetParameter([s EXCEPT !.screensaver_active = active],
                    IF active THEN "block" ELSE "apply-policy")
  ELSE s

\* handle_screensaver_active
HandleScreensaverActive(s, active) ==
  LET seen == [s EXCEPT !.screensaver_active = active]
  IN IF s.screensaver_active # active /\ s.protection /\ s.level = "lockscreen"
     THEN SetParameter(seen, IF active THEN "block" ELSE "apply-policy")
     ELSE seen

\* get_parameter_cb
GetParameterDone(s, value) ==
  LET asked  == IF s.level = "always" THEN "block" ELSE "apply-policy"
      synced == IF value = asked THEN s ELSE SetParameter(s, asked)
  IN IF s.level = "lockscreen" THEN EnsureAllowRule(synced) ELSE synced

\* usbguard_listrules_cb and add_usbguard_allow_rule
ListRulesDone(s, present) == IF present THEN s ELSE Call(s, [op |-> "append"])

\* show_notification: one at a time.
ShowNotification(s) == [s EXCEPT !.notification = TRUE]

\* on_usbguard_signal; locked is what logind answers, FALSE on an error.  The
\* handler aborts the daemon when it has no logind proxy to ask.
DevicePolicyApplied(s, m, locked) ==
  CASE m.allowed \/ ~s.protection -> s
    [] m.class = "hardwired" /\ ~m.allowed /\ s.protection -> Call(s, [op |-> "allow"])
    [] OTHER ->
         CASE "logind" \notin s.ready -> [s EXCEPT !.aborted = TRUE]
           [] locked /\ "logind" \in s.ready ->
                IF m.class = "hid" THEN Call(ShowNotification(s), [op |-> "allow"])
                ELSE ShowNotification(s)
           [] ~locked /\ "logind" \in s.ready ->
                IF s.level = "lockscreen" THEN s
                ELSE IF m.class = "hid" THEN [s EXCEPT !.locking = TRUE]
                ELSE ShowNotification(s)

\* on_screen_locked: the device is authorised even if locking has failed.
ScreenLocked(s) == Call(ShowNotification([s EXCEPT !.locking = FALSE]), [op |-> "allow"])

-------------------------------------------------------------------------------
UpInit ==
  \E may \in UpWorlds, protection, running, rule, active \in BOOLEAN, level \in Levels :
    up = [may |-> may, protection |-> protection, level |-> level, ready |-> {},
          active |-> active, screensaver_active |-> FALSE, signals |-> <<>>,
          running |-> running, policy |-> "apply-policy", rule |-> rule, available |-> FALSE,
          calls |-> <<>>, messages |-> <<>>, notification |-> FALSE, locking |-> FALSE,
          aborted |-> FALSE, overridden |-> TRUE, missed |-> FALSE]

Room == Len(up.calls) + 2 <= MaxUpCalls /\ Len(up.messages) < MaxUpCalls

\* usb_protection_proxy_ready: GetActive is a synchronous call and may fail.
UsbProtectionProxyReady ==
  /\ up.ready = {}
  /\ \E active \in {up.active, up.screensaver_active} :
       up' = HandleScreensaverActive([up EXCEPT !.ready = {"usb"}, !.available = up.running,
                                                !.missed = (active # up.active)], active)

\* usb_protection_devices_proxy_ready, usb_protection_policy_proxy_ready with
\* its sync_usb_protection, and logind_session_ready.
OtherProxyReady ==
  /\ up.ready # {}
  /\ \E proxy \in UpProxies \ up.ready :
       LET s == [up EXCEPT !.ready = @ \cup {proxy}]
       IN up' = IF proxy = "policy" /\ s.protection THEN Call(s, [op |-> "get"]) ELSE s

\* The user changes one of the two settings.
UserChangesSettings ==
  /\ "settings" \in up.may /\ Room
  /\ \/ up' = SettingsChanged([up EXCEPT !.protection = ~@], "protection")
     \/ \E level \in Levels \ {up.level} :
          up' = SettingsChanged([up EXCEPT !.level = level], "level")

\* The screen locks or unlocks, and the shell says so.
ScreenChanges ==
  /\ "screen" \in up.may /\ Len(up.signals) < MaxUpCalls
  /\ up' = [up EXCEPT !.active = ~@,
                      !.signals = IF up.ready = {} THEN @ ELSE Append(@, ~up.active)]

\* screensaver_signal_cb
ScreensaverSignal ==
  /\ up.signals # <<>> /\ Room
  /\ up' = HandleScreensaverActive([up EXCEPT !.signals = Tail(@)], Head(up.signals))

\* USBGuard handles our next call.
UsbGuardHandles ==
  /\ up.running /\ up.calls # <<>> /\ Len(up.messages) < MaxUpCalls
  /\ LET c    == Head(up.calls)
         rest == [up EXCEPT !.calls = Tail(@)]
     IN up' = CASE c.op = "set" ->
                     [rest EXCEPT !.policy = c.value,
                                  !.messages = Append(@, [kind |-> "changed", value |-> c.value,
                                                          own |-> TRUE])]
                [] c.op = "get" ->
                     [rest EXCEPT !.messages = Append(@, [kind |-> "got", value |-> up.policy])]
                [] c.op = "list" ->
                     [rest EXCEPT !.messages = Append(@, [kind |-> "rules", present |-> up.rule])]
                [] c.op = "append" -> [rest EXCEPT !.rule = TRUE]
                [] c.op = "allow" -> rest

\* Another program changes USBGuard's policy, or USBGuard stops or starts.
UsbGuardChanges ==
  /\ "usbguard" \in up.may /\ up.ready # {} /\ Len(up.messages) < MaxUpCalls
  /\ \/ /\ up.running
        /\ \E value \in Policies \ {up.policy} :
             up' = [up EXCEPT !.policy = value, !.missed = TRUE,
                              !.messages = Append(@, [kind |-> "changed", value |-> value,
                                                      own |-> FALSE])]
     \/ up' = [up EXCEPT !.running = ~@, !.available = ~@, !.calls = <<>>, !.missed = TRUE]

DeviceInserted ==
  /\ "devices" \in up.may /\ up.running /\ "devices" \in up.ready
  /\ Len(up.messages) < MaxUpCalls
  /\ \E class \in {"hid", "hardwired", "other"} :
       up' = [up EXCEPT !.messages =
                Append(@, [kind |-> "inserted", class |-> class,
                           allowed |-> up.rule /\ up.policy = "apply-policy"])]

\* get_parameter_cb, usbguard_listrules_cb, on_usb_protection_signal or
\* on_usbguard_signal.
MessageRead ==
  /\ up.messages # <<>> /\ Room /\ ~up.aborted
  /\ LET m == Head(up.messages)
         s == [up EXCEPT !.messages = Tail(@)]
     IN \/ m.kind = "changed" /\ up' = UpdateUsbProtectionStore(s, m.value)
        \/ m.kind = "got" /\ up' = GetParameterDone(s, m.value)
        \/ m.kind = "rules" /\ up' = ListRulesDone(s, m.present)
        \/ /\ m.kind = "inserted" /\ ~up.locking
           /\ \E locked \in {up.active, FALSE} : up' = DevicePolicyApplied(s, m, locked)

LockAnswered == up.locking /\ Room /\ up' = ScreenLocked(up)

\* on_notification_closed
NotificationClosed == up.notification /\ up' = [up EXCEPT !.notification = FALSE]

UpNext ==
  \/ UsbProtectionProxyReady
  \/ OtherProxyReady
  \/ UserChangesSettings
  \/ ScreenChanges
  \/ ScreensaverSignal
  \/ UsbGuardHandles
  \/ UsbGuardChanges
  \/ DeviceInserted
  \/ MessageRead
  \/ LockAnswered
  \/ NotificationClosed

-------------------------------------------------------------------------------
\* Once the daemon is up and every call and message has arrived, protection
\* that is on has the policy that the settings and the lock screen ask for,
\* and the allow rule the lockscreen level counts on.  Not so when a setting
\* changed, or the start-up check ran, behind the lock screen: both look at
\* the level alone.  Nor after USBGuard itself was changed or restarted.
UsbGuardFollows ==
  /\ up.ready = UpProxies /\ up.calls = <<>> /\ up.messages = <<>>
  /\ up.protection /\ ~up.missed
  => /\ up.level = "lockscreen" => up.rule
     /\ up.overridden \/ up.signals # <<>>
        \/ up.policy = IF up.level = "always" \/ up.active THEN "block" ELSE "apply-policy"

\* Protection is given up only because somebody else changed USBGuard's
\* policy (gsd-usb-protection-manager.c:368), not for a change of our own.
GivenUpForOthers ==
  [][up.protection /\ ~up'.protection /\ Len(up'.messages) < Len(up.messages) =>
       ~Head(up.messages).own]_up
==============================================================================
