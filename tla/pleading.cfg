SPECIFICATION PleadSpec
CONSTANTS
  Num <- MCNum
  LinesPerPage = 8
  CaptionEnd = 3
  SignLines = 3
  MaxLeads = 2
  LeadLines = 2
  FollowingLines = 2
  NoteLines <- MCNotes
  Ties <- MCTies
  Colons <- MCColons
  Cites <- MCCites
  Letters <- MCLetters
  Sources <- MCSources
  Secrets <- MCSecrets
  Stray = "stray"
  MaxBuilds = 3
  FullSize = 3
  FloorSize = 2
  Sheet <- MCSheet
  CoverForm <- MCCoverForm
  FormDescs <- MCForms
  FormAsks <- MCAsks
INVARIANTS
  InOrder
  DrawnInOrder
  NotesWithMarkers
  KeptTogether
  PublicClean
  DraftMarked
  OneLetter
  FormsKept
CHECK_DEADLOCK FALSE
