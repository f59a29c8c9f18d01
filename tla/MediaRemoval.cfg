SPECIFICATION Spec
CONSTANT Mmcs = {m1, m2}
SYMMETRY Symmetry
INVARIANTS ErrorOfItsCommand OkMeansDone EjectsOnceAllowed
PROPERTIES ShutWhilePrevented
