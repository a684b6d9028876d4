CONSTANTS
  Pages = 10
  zone_page_cnt = 2
  ChunkSize <- MCSizes
  z_nmax <- MCz_nmax
  ZONE_RELEASE_THRESH = 1
  Tcb = 1
  Text = 2
  Idle = 1
  Thread <- MCThread
  PriorityMax = 4
  GroupSize = 2
  defunct = defunct
  WaitQueue = {defunct}
  StackPages <- MCStackPages
  NewPriorities = {0, 2}
  Api <- MCApi
  Deletable = {2}
  Careful = TRUE
  MaxMade <- MCMaxMade
SPECIFICATION Spec
INVARIANTS NothingFreedInUse HeapTiled BlocksOwned
PROPERTY Reaped
