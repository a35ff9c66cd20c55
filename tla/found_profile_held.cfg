\* A power-saver hold that nobody releases: HoldProfile answered after the battery recovered.
SPECIFICATION ProfSpec
CONSTANT MaxHolds = 2
INVARIANT ReleasedWhenNotLow
