\* Every command; the file is longer than the ring and is replayed twice.
CONSTANTS
  Capacity = 3
  RetainCount = 1
  FrameCount = 4
  Frames = {1,2,3,4}
  NoFrame = 0
  Commands = {"toggle", "forward", "backward", "jump"}
  MaxCommands = 3
SPECIFICATION ReplaySpec
INVARIANTS ForwardWindowContiguous StreamFollowsWindow
PROPERTIES ShownInOrder PlaybackContinues CloseCompletes
