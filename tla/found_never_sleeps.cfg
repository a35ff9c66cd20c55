\* A sleep trigger outlives the change that forbids it.
SPECIFICATION Spec
CONSTANTS
  HasKbd = FALSE
  KbdMax = 2
  KbdIdle = 50
  Settings <- LaptopOnly
  Inhibitors = {"idle"}
  Scenarios = {{"screensaver", "power"}}
  GuintRange = 1000000000
  IsVirtualMachine = FALSE
  UnderGdm = FALSE
  ShowSleepWarnings = TRUE
  HasIio = FALSE
PROPERTY NeverMeansNever
