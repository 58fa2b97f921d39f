CONSTANTS
  Nodes <- SomeNodes
  Graphs <- CachedSharedGraph
  Modes = {"stop"}
  NumJobs = {2}
SPECIFICATION Spec
INVARIANT VisitedBeforeParents
