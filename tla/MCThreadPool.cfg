SPECIFICATION FairSpec
CONSTANTS
  THR_NUM = 3
  MaxTasks = 3
INVARIANTS TasksConserved HeadIsPosted NoSleepWhilePosted ServesWithFullPool
PROPERTIES ImplementsPoolService
