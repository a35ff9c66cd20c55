---------------------------- MODULE PowerDevices -----------------------------
(***************************************************************************)
(* The devices UPower reports to gsd-power: the composite device that      *)
(* stands for the machine's batteries or its UPS, and the peripherals with *)
(* a battery of their own, each with a warning level.                      *)
(***************************************************************************)
EXTENDS Naturals

CONSTANTS
  Main,         \* device_composite
  MainKind,     \* its kind: "battery" or "ups"
  Peripherals,  \* mice, keyboards, ...
  Serialized    \* those of them that have a serial number

Devices == {Main} \cup Peripherals

\* UpDeviceLevel, in UPower's order.
UNKNOWN     == 0
NONE        == 1
DISCHARGING == 2
LOW         == 3
CRITICAL    == 4
UP_ACTION   == 5
Levels == UNKNOWN..UP_ACTION

\* Who a notification is about when none is shown.
Nobody == "nobody"

ASSUME DevicesAssumption ==
  /\ Main \notin Peripherals /\ Serialized \subseteq Peripherals
  /\ MainKind \in {"battery", "ups"}
  /\ Nobody \notin Devices
==============================================================================
