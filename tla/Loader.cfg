SPECIFICATION Spec
CONSTANTS
  SECTOR_SIZE = 8
  DIR_ENTRY_SIZE = 7
  MARKER_SIZE = 2
  DIR_BUFFER_SIZE = 24
  MAX_FILES = 5
  PAGE_SIZE = 16
  PTR_SIZE = 2
  ALIGN = 4
  USER_BIN_BASE = 320
  USER_BIN_PAGES = 2
  BIN_STACK = 80
  ELF_TEMP_LOAD = 512
  ELF_STACK_TOP = 192
  SLACK = 16
  TXT_BASE = 448
  fb_width = 4
  fb_height = 2
  StatusBar = {5}
  Disks <- MCDisks
  ArgLists <- MCArgLists
  AutorunArgs <- MCAutorunArgs
  MaxLoads = 2
INVARIANTS DirectoryRead ChosenFileInPlace LoadsStayInside
INVARIANTS SegmentsIntact ArgsIntact ImageShown
CHECK_DEADLOCK FALSE
