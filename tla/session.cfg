\* Each of the daemons, with all that surrounds it.
SPECIFICATION SessionSpec
CONSTANTS
  Radios = {"bt", "ww"}
  RadioType <- MCRadioType
  RfWorlds = {{"kernel"}, {"modem"}, {"late", "session"}, {"kernel", "failures"}}
  MaxRfEvents = 3
  MaxRfWrites = 2
  Players = {"a", "b"}
  MaxProxies = 3
  MaWorlds = {{"power"}, {"sound"}, {"settings"}, {"rfkill"}, {"audio"}, {"keys"}}
  Outputs = {"card", "usb"}
  Inputs = {"mic"}
  Devnodes = {"kbd"}
  UsbOf <- MCUsbOf
  VolumeNorm = 2
  VolumeUiMax = 3
  VolumeStep = 1
  UpWorlds = {{"settings"}, {"screen"}, {"screen", "settings"}, {"usbguard"}, {"devices"}}
  MaxUpCalls = 2
  Services = {"rygel", "webdav"}
  Networks = {"wired", "open_wifi", "mobile"}
  CarrierType <- MCCarrierType
  ShWorlds = {{"network", "calls"}, {"system", "network"}, {"network", "leaves"}, {"system", "leaves"}}
  Day = 12
  Full = 2
  MaxSmear = 2
  MaxNow = 16
  Schedules <- MCSchedules
  SunAt <- MCSunAt
  NlWorlds = {{"settings"}, {"settings", "clock"}, {"places", "settings"}, {"preview", "settings"}, {"disable"}, {"disable", "clock"}, {"disable", "settings"}}
  MaxClock = 7
  ColorDevices = {"a"}
  Clients = {"a", "b"}
  MaxCookies = 3
  MaxQueued = 2
  MaxAyCalls = 3
  HaveSystemd = {TRUE, FALSE}
  Fstab <- MCFstab
  IgnoredKinds = {"snap"}
  FullSpace = 3
  FreePercentNotify = 2
  FreePercentNotifyAgain = 0
  MinNotifyPeriod = 1
  MaxMinutes = 4
  DkWorlds = {{"home"}, {"home", "mounts"}, {"home", "ignore"}}
  Tree <- MCTree
  TempRoot = "tmp:"
  TrashRoot = "trash:"
  PurgeAfter = 1
  MaxDays = 2
  MaxPurges = 2
  PuWorlds = {{"temp", "files"}, {"trash", "files", "request"}, {"trash", "settings"}}
  Systemd = {FALSE}
  Thumbs <- MCThumbs
  MaxAges <- MCMaxAges
  MaxSizes <- MCMaxSizes
  IntHalf = 2
  Year = 3
  MaxTime = 4
  HkWorlds = {{"thumbs"}, {"thumbs", "settings"}, {"donations"}, {"oom"}}
  Modems = {"m", "n"}
  MaxUnlocks = 3
  MaxCodes = 2
  WwWorlds = {{"removals", "locks"}, {"restarts"}, {"settings"}, {"no_prompt"}}
  Slots = {"one", "two"}
  Cards = {"login", "other"}
  LoginCard = "login"
  ErrorLimit = 1
  MaxMoves = 2
  ScWorlds = {{"polling"}, {"errors", "shutdown"}, {"settings"}}
  Printers = {"p"}
  Jobs = {"1"}
  PrinterOf <- MCPrinterOf
  Troubles = {"media"}
  RenewInterval = 3
  SubscriptionDuration = 4
  MaxPrintEvents = 4
  MaxTests = 2
  PnWorlds = {{"jobs", "no_reasons"}, {"jobs", "printers"}, {"time"}, {"time", "outage"}, {"time", "sleep"}}
  Sessions = {"s", "t"}
  Devices = {"d"}
  MaxQueues = 2
  MaxStatuses = 3
  PsWorlds = {{"logout"}, {"printers"}, {"printers", "admin"}}
  TzDb <- MCTzDb
  WeatherCities <- MCWeatherCities
  CountryOf <- MCCountryOf
  MaxTravels = 3
  TzWorlds = {{"settings"}, {"settings", "hasty"}, {"reorder"}, {"failures"}, {"others"}}
  GtkModules = {"canberra", "pk"}
  CondModules = {"canberra"}
  MaxXsChanges = 3
  XsWorlds = {{"settings", "overrides"}, {"input", "display"}, {"shell", "settings"}, {"modules"}, {"modules", "same_second"}, {"modules", "lists"}, {"fonts"}, {"fonts", "failures"}}
  LocaledAnswers <- MCLocaledAnswers
  OldLayouts <- MCOldLayouts
  OldOptions <- MCOldOptions
  MaxLogins = 2
  MaxKbCalls = 3
  KbWorlds = {{"user"}, {"user", "libgnomekbd"}, {"user", "libgnomekbd", "disk_full"}}
  Samples = {"bell", "trash"}
  Directories = {"home", "share"}
  MaxSoundEvents = 4
  SoWorlds = {{"play", "theme"}, {"play", "files"}, {"play", "theme", "files", "pulse"}, {"play", "files", "new_directory", "shutdown"}}
  Daemons = {"rfkill", "players", "media_keys", "usb", "sharing", "night_light", "clock", "calibration", "screensaver", "a11y", "disk", "purge", "housekeeping", "wwan", "smartcard", "print", "printer", "datetime", "xsettings", "keyboard", "sound"}
CHECK_DEADLOCK FALSE
INVARIANTS
  SessionTypeOK
  KillSwitchesFollow
  MediaKeysReach
  UsbPolicyFollows
  UnitsFollowNetwork
  NightLightFollows
  CallbackInTime
  InhibitorsHaveOwners
  FallbackOnlyWhenWanted
  PurgeSpares
  AgedMeansWithinLimits
  OnePromptAtATime
  ExportedStateFollows
  PrintersAreServed
  ZoneFollowsPlace
  FontsAreFollowed
  OldSoundsAreFlushed
PROPERTIES
  DiskWarningsWait
  SerialsTellChanges
  ChoicesAreKept
