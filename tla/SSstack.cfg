SPECIFICATION Spec
CONSTANTS
  WarpSize = 3
  Programs <- AllKernels
INVARIANTS ThreadsInSync Reconverges
