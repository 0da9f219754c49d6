SPECIFICATION Spec
CONSTANTS
  None = None
  Missing = Missing
  Client = {c1}
  Buffer = 6
  Races = {}
  Views <- MCViews
  Budgets <- MCBudgets
INVARIANTS NoGap ReadYourWrites ShellsFollow
PROPERTIES ConfigFollows OrderMatters
CHECK_DEADLOCK FALSE
