CONSTANTS
  Parts = {"cache", "colour", "runner"}
  Compilers = {c1, c2}
  NFiles = 1
  MaxEdits = 1
  MaxFaults = 1
  EditAnytime = FALSE
  NoEntry = NoEntry
  Fns = {f1, f2, f3}
  Methods = {m1}
  RootOps = {"receive"}
  OtherOps = {}
  NPackages = 3
  Parallelism = 2
SPECIFICATION CompilerSpec
CHECK_DEADLOCK FALSE
INVARIANTS
  CompiledFresh
  ColoursAgree
  VerdictsTrue
