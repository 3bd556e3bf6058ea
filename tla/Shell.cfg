SPECIFICATION Spec
CONSTANTS
  WORD = 2048
  Registered <- MCRegistered
  MAX_COMMANDS = 4
  MAX_ARGS = 4
  ELF_ARGS = 1
  FILES = 12
  PLAIN <- MCPlain
  BACKTRACE <- MCBacktrace
  MEMDUMP <- MCMemdump
  WHEREAMI <- MCWhereami
  ROW = 16
  MAX_DUMP = 64
  PAGE_SIZE = 32
  Absent = {63}
  Lines <- MCLines
  Numbers <- MCNumbers
  PanicLines <- MCPanicLines
INVARIANTS
  CommandGetsWords
  ProgramGetsArguments
  NumberShownSelects
  MemdumpShowsRange
CHECK_DEADLOCK FALSE
