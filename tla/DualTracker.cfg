SPECIFICATION FairSpec
CONSTANTS
  Cores = {c1, c2}
  FRAME_NUM = 5
INVARIANTS FrameIntegrity BuffersReleasedLast
PROPERTIES NoSignalOverrun ImplementsContract AllFramesTracked
