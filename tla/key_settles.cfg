\* One custom key: once shell and settings stay as they are, the daemon settles.
SPECIFICATION KeysFairSpec
CONSTANTS
  Fixed = {}
  Custom = {"custom0"}
  Incomplete = {"custom0"}
  MaxBinding = 1
  MaxShells = 2
  MaxObjects = 4
  Happenings = {}
CHECK_DEADLOCK FALSE
PROPERTY SettlesDown
