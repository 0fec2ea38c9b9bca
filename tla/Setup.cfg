SPECIFICATION Spec
CONSTANTS
  RepositoryFiles = 1
  HostFiles = 1
  Retired = {1}
  ours = ours
  theirs = theirs
  Texts = {ours, theirs}
  Before <- MixedFiles
  Missing = Missing
  NoText = NoText
  RegistrationGroups = 1
  StoreGroups = 2
  MaxRuns = 2
  MaxEdits = 1
  MaxWrites = 1
INVARIANTS
  DispositionHonest
  
  HostFollowsRepository
PROPERTIES
  WritersKeepTheirWrites
  
CHECK_DEADLOCK FALSE
