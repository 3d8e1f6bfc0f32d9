CONSTANTS
  Realms = {r1, r2}
  NoRealm = NoRealm
  MaxModules = 2
  MaxCalls = 2
  MaxImports = 1
  MaxResets = 1
  MaxFrames = 4
  Interrupts = {FALSE}
SPECIFICATION Spec
SYMMETRY Symmetry
INVARIANTS TypeOK OneLink LinksAreOwn NoLostImport
PROPERTIES StaticImportsHere
CHECK_DEADLOCK FALSE
