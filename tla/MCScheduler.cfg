\* Three workers, a parallel loop of four iterations, and the shutdown.
SPECIFICATION Spec
CONSTANTS
  P = 3
  N = 4
INVARIANT TypeOK
INVARIANT EachOnce
INVARIANT JobsAreAlive
PROPERTY Terminates
