SPECIFICATION Spec
CONSTANTS
  home = home
  main = main
  model = model
  pubspec = pubspec
  UiFiles = {home}
  ProviderFiles = {main}
  OtherFiles = {}
  FrozenFiles = {pubspec}
  Reports <- Common
  MaxRepairs = 1
  Attempts = 2
CHECK_DEADLOCK FALSE
INVARIANTS AppOnly
