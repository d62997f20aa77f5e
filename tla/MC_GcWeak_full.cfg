CONSTANTS
  eph = eph
  weak = weak
  plain = plain
  Tabs = {eph, weak, plain}
  Strs = {s}
  Modes <- MCModes
  Fields <- MCFields
  Armable = {plain}
  MaxEntries = 2
SPECIFICATION Spec
INVARIANTS TypeOK NoDangling
PROPERTIES EntriesRight FullExact
