\* A shell replaced while a grab call waits for its answer.
SPECIFICATION KeysSpec
CONSTANTS
  Fixed = {"volume"}
  Custom = {"custom0"}
  Incomplete = {"custom0"}
  MaxBinding = 1
  MaxShells = 2
  MaxObjects = 5
  Happenings = {"busy"}
INVARIANT SyncStartsAlone
