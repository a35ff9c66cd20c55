\* The parts of gsd-power together: logind's inhibitors, power profiles, device warnings.
SPECIFICATION ManagerSpec
CONSTANTS
  HasKbd = FALSE
  KbdMax = 2
  KbdIdle = 50
  Settings <- OneSetting
  Inhibitors = {}
  Scenarios = {{"session", "sleep", "logind"}, {"low", "ppd", "saver"}, {"low", "devices"}}
  GuintRange = 1000000000
  IsVirtualMachine = FALSE
  UnderGdm = FALSE
  ShowSleepWarnings = TRUE
  HasIio = FALSE
  Main = "composite"
  MainKind = "battery"
  Peripherals = {"mouse", "pen"}
  Serialized = {"pen"}
  MaxHolds = 2
  MaxTimers = 1
INVARIANTS
  ManagerTypeOK
  InhibitorsHold
  HeldWhileLow
  WarningsEnd
PROPERTY PartsInStep
