\* A ring of five slots that keeps two snapshots behind the reader.
CONSTANTS
  Capacity = 4
  RetainCount = 2
  Frames = {f1, f2}
  NoFrame = NoFrame
SPECIFICATION RingSpec
INVARIANTS RingTypeOK ReaderInWindow WindowFilled
PROPERTY ImplementsWindow
