CONSTANTS
  NoParent = NoParent
  NoStep = NoStep
  MaxFrames = 3
  MaxSteps = 4
SPECIFICATION FairSpec
INVARIANTS WriterTypeOK SinkFollowsVm SplicedWhereMade ContainerComplete DepthFollowsVm CallsBalanced
PROPERTIES ReplaysExecution ContainerWritten
CHECK_DEADLOCK FALSE
