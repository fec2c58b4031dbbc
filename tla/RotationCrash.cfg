SPECIFICATION MCSpec
CONSTANTS
  s1 = s1
  s2 = s2
  p1 = p1
  p2 = p2
  Processes = {p1, p2}
  Rotators = {p1}
  Names = {s1, s2}
  Faults = {"stage", "rewrap", "promote", "discard"}
  MaxKeys = 5
SYMMETRY NameSymmetry
INVARIANTS TypeOK OwnerKeepsKey
PROPERTIES OwnerKeepsSlot OnlyRecordedKeyPromoted
