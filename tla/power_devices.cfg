\* The devices behind the idle modes: a keyboard light whose calls fail or whose keys are pressed, a light sensor that comes and goes, and a shell whose control does; actions that blank and log out.
SPECIFICATION Spec
CONSTANTS
  HasKbd = TRUE
  KbdMax = 2
  KbdIdle = 50
  Settings <- DesktopSettings
  Inhibitors = {"idle", "logout"}
  Scenarios = {{"session", "screensaver", "sleep", "kbdfail"}, {"session", "screensaver", "settings"}, {"session", "screensaver", "shell", "sensor"}, {"screensaver", "keys"}, {"screensaver", "ppd"}}
  GuintRange = 1000000000
  IsVirtualMachine = FALSE
  UnderGdm = FALSE
  ShowSleepWarnings = FALSE
  HasIio = TRUE
INVARIANTS
  TypeOK
  
PROPERTY IdleKeepsKbdLevel
