SPECIFICATION Spec
CONSTANTS
  home = home
  main = main
  model = model
  pubspec = pubspec
  UiFiles = {home}
  ProviderFiles = {main}
  OtherFiles = {}
  FrozenFiles = {pubspec}
  Reports <- Common
  MaxRepairs = 2
  Attempts = 2
CHECK_DEADLOCK FALSE
INVARIANTS TypeOK WithinBudget CleanSuccess OwnersHadTurn NoRoundLeaves
