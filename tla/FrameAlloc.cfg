SPECIFICATION FrameSpec
CONSTANTS
  BITMAP_SIZE = 2
  FRAME_SIZE = 4
  LOW = 22
  Framebuffers <- MCFramebuffers
INVARIANTS OneHolder RegionsSpared NoFrameForgotten
CHECK_DEADLOCK FALSE
