------------------------------ MODULE MCNodeHost ------------------------------
EXTENDS NodeHost, TLC

\* What goes wrong in each run.
Faults == {"crash", "startFails", "extractFails"}
Streams == {"stream", "extractFails"}
Calm == {}

Symmetry == Permutations(Process)
=============================================================================
