SPECIFICATION Spec
CONSTANTS
  Conns = {h1, h2, h3}
  Togglers = {t1, t2}
  Names = {n1, n2}
  NoName = NoName
  MaxPlayers = 2
SYMMETRY Symmetry
INVARIANTS TypeOK CountIsHolders WithinLimit RosterNoGhosts RosterComplete
CHECK_DEADLOCK FALSE
