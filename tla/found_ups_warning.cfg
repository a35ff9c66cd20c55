\* The warning of a UPS that has power again stays on the screen.
SPECIFICATION WarnSpec
CONSTANTS
  Main = "ups"
  MainKind = "ups"
  Peripherals = {"mouse"}
  Serialized = {}
  MaxTimers = 1
INVARIANT ChargingHidesWarnings
