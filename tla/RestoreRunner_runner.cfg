SPECIFICATION FairSpec
CONSTANTS
  Jobs <- SomeJobs
  Sites <- SomeSites
  MaxChunks = 2
INVARIANTS
  VerifiedIsSource
  MetadataSurvives
  NotLeftWritable
  FloorKept
PROPERTIES
  ScratchIsSwept
  KeepsPromise
  RunnerEnds
CHECK_DEADLOCK FALSE
