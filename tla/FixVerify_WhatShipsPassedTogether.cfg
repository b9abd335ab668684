SPECIFICATION Spec
CONSTANTS
  settings = settings
  base_settings = base_settings
  provoked = provoked
  edited = edited
  Fix <- MCFix
  Other <- MCOther
  File <- MCFile
  FileOf <- MCFileOf
  Conditional <- MCConditional
  Crashes <- MCCrashes
  Worlds <- MCWorlds
  Engine <- MCEngine
  MaxEdits = 1
CHECK_DEADLOCK FALSE
INVARIANT WhatShipsPassedTogether
