SPECIFICATION Spec
CONSTANTS
  t1 = t1
  t2 = t2
  k1 = k1
  k2 = k2
  k3 = k3
  k4 = k4
  Tree <- TwoTrees
  Key <- TwoKeys
  NFiles = 1
  SWIG = FALSE
  WIPE = FALSE
  Verdict <- AllOk
  Env <- AllPlain
SYMMETRY AllSymmetry
INVARIANTS TypeOK CacheRight
PROPERTIES ImplementsCompiler
