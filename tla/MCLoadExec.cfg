CONSTANTS
  PageSize = 16
  NPages = 8
  RegionPages = 4
  UserMemStart = 16
  StackLen = 48
  Argvs <- MCArgvs
  Layouts <- MCLayouts
  FreeChoices = {1, 4, 9}
  OldFrames = 2
  MallocMayFail = TRUE
SPECIFICATION Spec
INVARIANT TypeOK
INVARIANT ArgsLaidOut
INVARIANT LoadAccounted
INVARIANT SectionsMapped
