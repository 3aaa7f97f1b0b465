SPECIFICATION Spec
CONSTANTS
  t1 = t1
  t2 = t2
  k1 = k1
  k2 = k2
  k3 = k3
  k4 = k4
  Tree <- OneTree
  Key <- FourKeys
  NFiles = 1
  SWIG = FALSE
  WIPE = FALSE
  Verdict <- AllVerdicts
  Env <- AllPlain
INVARIANTS SameAsCompiler OneInodePerName
PROPERTIES ImplementsCompilerFairly
