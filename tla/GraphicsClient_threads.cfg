\* Two items per frame, two frames and a third begun: the data of a map in the
\* frame before, in the same frame, and in a frame that had to be sent again.
CONSTANTS
  Thread = {t1, t2}
  Shape = {point}
  Data = {d1, d2}
  MaxItems = 2
  MaxFrames = 2
  None = None
SPECIFICATION Spec
CHECK_DEADLOCK FALSE
INVARIANT TypeOK
PROPERTY ImplementsSketch
