\* The idle machine of a laptop with everything that reconfigures it.
SPECIFICATION Spec
CONSTANTS
  HasKbd = FALSE
  KbdMax = 2
  KbdIdle = 50
  Settings <- LaptopSettings
  Inhibitors = {"idle", "suspend"}
  Scenarios = {{"session", "screensaver", "power", "sleep", "wakeup", "lid", "settings"}, {"screensaver", "power", "low", "session"}}
  GuintRange = 1000000000
  IsVirtualMachine = FALSE
  UnderGdm = FALSE
  ShowSleepWarnings = TRUE
  HasIio = FALSE
INVARIANTS
  IdleIsEscapable
  WatchesAreWanted
  WarningNamesTheAction
PROPERTIES
  ScreenWakesForAReason
  ImplementsLadder
