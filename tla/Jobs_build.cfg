CONSTANTS
  Nodes <- SomeNodes
  Graphs <- SomeGraphs
  Modes = {"stop", "continue", "ignore"}
  NumJobs = {1, 2}
SPECIFICATION FairSpec
INVARIANTS TypeOK ChildrenSettled ChildrenVisited NoSharedOutput NoStaleScan RefCountExact NothingForgotten KeepGoing CycleReported
PROPERTIES Terminates ImplementsBuildOrder
