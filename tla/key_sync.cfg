\* Accelerators grabbed at a shell that restarts, or is replaced while nothing is pending.
SPECIFICATION KeysSpec
CONSTANTS
  Fixed = {"volume"}
  Custom = {"custom0"}
  Incomplete = {"custom0"}
  MaxBinding = 1
  MaxShells = 2
  MaxObjects = 6
  Happenings = {}
INVARIANTS
  KeysTypeOK
  SettledMeansGrabbed
  NoLostGrab
  AssertionsHold
