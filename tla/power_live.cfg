\* A fair idle machine: the user wakes it, and left alone it goes to sleep, temporary unidles and all.
SPECIFICATION FairSpec
CONSTANTS
  HasKbd = FALSE
  KbdMax = 2
  KbdIdle = 50
  Settings <- LaptopSettings
  Inhibitors = {"suspend"}
  Scenarios = {{"screensaver", "settings", "sleep", "power", "wakeup", "lid"}, {"session", "screensaver", "power", "wakeup"}}
  GuintRange = 1000000000
  IsVirtualMachine = FALSE
  UnderGdm = FALSE
  ShowSleepWarnings = TRUE
  HasIio = FALSE
PROPERTIES
  ActivityWakes
  LeftAloneSleeps
