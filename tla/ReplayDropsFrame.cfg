\* A pause, backward steps, and playback going on.
CONSTANTS
  Capacity = 3
  RetainCount = 2
  FrameCount = 4
  Frames = {1,2,3,4}
  NoFrame = 0
  Commands = {"toggle", "backward"}
  MaxCommands = 3
SPECIFICATION ReplaySpec
INVARIANT WindowContiguous
