SPECIFICATION Spec
CONSTANTS
  p = p
  pa = pa
  pbc = pbc
  pb_c = pb_c
  pas = pas
  fp = fp
  fa = fa
  fbc = fbc
  out = out
  Names <- MCNames
  Files <- MCFiles
  Mangled <- MCMangled
  Output = out
  Roots <- MCRoots
  Members = 1
  NTxgs = 1
  Held <- MCApart
  MayFailLimit = 2
INVARIANTS
  BulkIsComplete
