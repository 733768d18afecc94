SPECIFICATION Spec
CONSTANTS
  home = home
  main = main
  model = model
  pubspec = pubspec
  UiFiles = {home}
  ProviderFiles = {main}
  OtherFiles = {model}
  FrozenFiles = {pubspec}
  Reports <- InModel
  MaxRepairs = 1
  Attempts = 1
CHECK_DEADLOCK FALSE
INVARIANTS GivesUpOnFrozen
