SPECIFICATION ServerFairSpec
CONSTANTS
  server = server  main = main  signal = signal  repl = repl
  Fibers = {server, main, signal, repl}
  Dispatcher = server
  Main = main
  Signal = signal
  Repl = repl
  None = None
  MaxPending = 2
  AwaitsElsewhere = FALSE
INVARIANTS StopHolds FlushedBeforeSleep
PROPERTIES ImplementsLoopStream StopCompletes OutputLeaves
