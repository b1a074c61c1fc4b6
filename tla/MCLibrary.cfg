CONSTANTS
  Sections = {"paths", "trees", "strings", "text", "words", "atomics", "times", "binary",
           "builders", "messages", "streams", "http", "types", "fields", "deepequal",
           "collections", "errors", "suites", "positions",
           "slices", "buffers", "reflect", "syncmap", "pipe", "defer"}
  Slots = {s1, s2}
  SliceRoom = 3
  SliceOps = 3
  Overlap = FALSE
  BufferLen = 4
  BufferCap = 8
  SmallBuf = 4
  MinRead = 2
  Garbage = FALSE
  Handles = {h1, h2}
  ReflectCalls = 5
  StaleSet = FALSE
  MapVals = {"x", "y"}
  MapOps = 3
  SwapEqual = FALSE
  Users = {g1, g2, g3}
  PipeOps = 2
  PipeLen = 2
  G = {g1, g2}
  MaxDepth = 2
  MaxDefers = 2
  MaxPanics = 2
  MaxCalls = 3
SPECIFICATION LibrarySpec
CHECK_DEADLOCK FALSE
SYMMETRY Goroutines
INVARIANTS
  SlicesAgree
  BuffersAgree
  StoresArrive
  SyncMapAgrees
  PipeAgrees
  RecoveredOnce
PROPERTIES
  StringsAgree
  NumbersAgree
  StreamsAgree
  ValuesAgree
  DeferredRun
