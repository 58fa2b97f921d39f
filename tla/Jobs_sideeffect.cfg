CONSTANTS
  Nodes <- SomeNodes
  Graphs <- SideEffectGraph
  Modes = {"stop"}
  NumJobs = {2}
SPECIFICATION Spec
INVARIANT NothingForgotten
