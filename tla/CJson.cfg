CONSTANTS
  MaxStrs = 2
  Keys = {"k", "K"}
  TypeSets = {{"Number", "String", "Array"}, {"Raw", "Array"}, {"True", "False"},
              {"NULL", "Object"}, {"Array", "Object"}}
  Numbers = {1, 2}
  Literals = {"K"}
  Copied = {"k"}
  Room = 4
  RoomForObjects = 3
  MaxLost = 0
  MaxText = 4
  MaxLiteral = 4
  CJSON_NESTING_LIMIT = 2
  NUMBER_SIZE = 4
  INT_MAX = 40
SPECIFICATION Spec
INVARIANTS ListsAreSequences MemoryExact CompareIsEquality DuplicateAllOrNothing
  ParseIsTheGrammar PrintReadsBack
CHECK_DEADLOCK FALSE
