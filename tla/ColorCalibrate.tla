---------------------------- MODULE ColorCalibrate ----------------------------
(***************************************************************************)
(* gsd-color-calibrate.c: when colord adds a device, connect to it, then   *)
(* to its default profile, and tell the user to recalibrate.               *)
(***************************************************************************)
CONSTANTS
  ColorDevices     \* devices colord may know

VARIABLE cc

Kinds    == {"display", "printer", "scanner"}
Profiles == {"none", "calibrated", "edid", "gcm_file", "other_file"}
Stages   == {"gone", "connecting", "connecting_profile", "idle"}

CcTypeOK ==
  /\ cc.kind \in [ColorDevices -> Kinds] /\ cc.profile \in [ColorDevices -> Profiles]
  /\ cc.age \in [ColorDevices -> {"recent", "old"}] /\ cc.stage \in [ColorDevices -> Stages]
  /\ cc.notified \in SUBSET ColorDevices /\ cc.panels \in BOOLEAN

\* Older than the threshold of its kind of device.
Old(s, d) == s.age[d] = "old"

\* gcm_session_notify_device and gcm_session_notify_recalibrate: the threshold
\* is compared with the time since the calibration.
NotifyDevice(s, d) == IF Old(s, d) THEN s ELSE [s EXCEPT !.notified = @ \cup {d}]

CcInit ==
  \E kind \in [ColorDevices -> Kinds], profile \in [ColorDevices -> Profiles],
     age \in [ColorDevices -> {"recent", "old"}] :
    cc = [kind |-> kind, profile |-> profile, age |-> age,
          stage |-> [d \in ColorDevices |-> "gone"], notified |-> {}, panels |-> FALSE]

\* gcm_session_device_added_notify_cb
DeviceAdded(d) == cc.stage[d] = "gone" /\ cc' = [cc EXCEPT !.stage[d] = "connecting"]

\* gcm_session_device_connect_cb; the connection may fail.
DeviceConnected(d) ==
  /\ cc.stage[d] = "connecting"
  /\ \E ok \in BOOLEAN :
       cc' = [cc EXCEPT !.stage[d] =
                IF ok /\ cc.kind[d] \in {"display", "printer"} /\ cc.profile[d] # "none"
                THEN "connecting_profile" ELSE "idle"]

\* gcm_session_profile_connect_cb: only a profile that a calibration has made.
ProfileConnected(d) ==
  /\ cc.stage[d] = "connecting_profile"
  /\ LET s == [cc EXCEPT !.stage[d] = "idle"]
     IN \/ cc' = s
        \/ cc.profile[d] \in {"calibrated", "gcm_file"} /\ cc' = NotifyDevice(s, d)

\* closed_cb, or gcm_session_notify_cb: "Recalibrate now" opens the panel.
NotificationClosed(d) ==
  /\ d \in cc.notified
  /\ \E recalibrate \in BOOLEAN :
       cc' = [cc EXCEPT !.notified = @ \ {d}, !.panels = @ \/ recalibrate]

\* gcm_session_sensor_added_cb; the sounds of both sensor signals are left out.
SensorAdded == ~cc.panels /\ cc' = [cc EXCEPT !.panels = TRUE]

\* colord removes a device; nothing of ours listens, and the next time it is new.
DeviceRemoved(d) ==
  cc.stage[d] = "idle" /\ cc' = [cc EXCEPT !.stage[d] = "gone"]

CcNext ==
  \/ \E d \in ColorDevices : \/ DeviceAdded(d)
                             \/ DeviceConnected(d)
                             \/ ProfileConnected(d)
                             \/ NotificationClosed(d)
                             \/ DeviceRemoved(d)
  \/ SensorAdded

-------------------------------------------------------------------------------
\* "This is when the device has not been recalibrated in a while"
\* (gsd-color-calibrate.c:186): the user is told of old calibrations only.
OldCalibrationsOnly == \A d \in cc.notified : Old(cc, d)
==============================================================================
