\* Three jobs: one in hand, one waiting, one that has been settled or comes late.
CONSTANTS
  MaxJobs = 3
  MaxAttempts = 2
SPECIFICATION FairSpec
INVARIANTS TypeOK NothingIdle JobsAccounted RepliesSpaced
PROPERTY JobsSettle
CHECK_DEADLOCK FALSE
