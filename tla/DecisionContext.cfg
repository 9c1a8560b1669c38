SPECIFICATION Spec
CONSTANTS
  mine = mine
  other = other
  snapshot = snapshot
  bar0 = bar0
  bar1 = bar1
  note = note
  Messages = {snapshot, bar0, bar1, note}
  KindOf <- MCKindOf
  EventAt <- MCEventAt
  ProducedAt <- MCProducedAt
  Symbols = {mine, other}
  SymbolOf <- MCSymbolOf
  NoSymbol = NoSymbol
  Routes <- MCRoutes
  Minute = 1
  None = None
  Tails = {1, 2}
  Profiles <- MCProfiles
  Ttls = {1}
  MaxTime = 2
  MaxDocs = 1
  MaxRestarts = 1
INVARIANTS IndInv NoHindsight DecidedOnFullPicture TailHasNoGap AgeIsBounded
CHECK_DEADLOCK FALSE
