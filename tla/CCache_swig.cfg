SPECIFICATION Spec
CONSTANTS
  t1 = t1
  t2 = t2
  k1 = k1
  k2 = k2
  k3 = k3
  k4 = k4
  Tree <- TwoTrees
  Key <- OneKey
  NFiles = 2
  SWIG = TRUE
  WIPE = FALSE
  Verdict <- AllOk
  Env <- AllZlib
SYMMETRY TreeSymmetry
INVARIANTS SameAsCompiler NoStrayTemps
