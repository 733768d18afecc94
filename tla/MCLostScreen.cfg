SPECIFICATION Spec
CONSTANTS
  home = home
  note = note
  noteList = noteList
  noteLIST = noteLIST
  add = add
  open = open
  body = body
  Note = Note
  HomeScreen = HomeScreen
  Diary = Diary
  Notes = Notes
  notes = notes
  quoted = quoted
  Plain = Plain
  Opening = Opening
  Closing = Closing
  Routes = Routes
  ToAdd = ToAdd
  None = None
  Texts <- MCTexts
  Names <- MCNames
  Snake <- MCSnake
  Camel <- MCCamel
  Says <- MCSays
  Common <- MCCommon
  Begins <- MCBegins
  Files <- MCFiles
  Rank <- MCRank
  Answers <- MCAnswers
  Cases <- MCLostScreen
  MaxRepairs = 2
CHECK_DEADLOCK FALSE
INVARIANTS EveryScreen
