SPECIFICATION FairSpec
CHECK_DEADLOCK FALSE
CONSTANTS
  Messages = {"x1", "x2"}
  Posts = {"post1", "post2"}
  PostOf <- ByName
  Monitors = {"m1", "m2"}
  Watches <- Some
  InitialMode <- OneEach
  Processes = {"old", "new"}
  Understands <- Newer
  PageSize = 1
  MaxDisturbances = 1
INVARIANTS
  NothingLost
PROPERTIES
  BacklogClears
