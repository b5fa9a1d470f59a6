SPECIFICATION Spec
CONSTANTS
  a = a
  b = b
  c = c
  Containers <- MCContainers
  Heaps <- MCHeaps
  Stacks <- MCStacks
  MaxDepths <- MCDepths
  CharMax = 2
  MaxEvents = 2
INVARIANTS
  GuardsHeld
  DumpComplete
  EveryFrameOnce
  LinesEnded
PROPERTY
  TraceEnds
