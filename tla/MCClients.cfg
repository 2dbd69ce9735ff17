CONSTANTS
  MaxHead = 60
  DUBBO_BUF_LEN = 1060
  HS_STRING_MAX = 1100
  CJSON_NESTING_LIMIT = 4
  NUMBER_SIZE = 10
  INT_MAX = 4000
  Lengths = {1, 31, 32, 255, 256, 1023, 1024, 1100, 1101}
  Wides = {14, 15, 16}
  Leads = {194, 224, 237, 240, 244}
  Bytes = {65, 128, 143, 144, 160, 191}
  Outside = {0, 98, 144, 240}
  Marks = {3, 4, 15, 16, 17, 20, 37, 38}
  Cases <- MCCases
SPECIFICATION Spec
INVARIANTS  RepliesArePrinted KnownCrashes NothingLeftOpen
PROPERTY CallsReturn
CHECK_DEADLOCK FALSE
