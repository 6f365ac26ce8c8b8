SPECIFICATION Spec
CONSTANTS
  main = main
  a = a
  b = b
  Module <- MCModule
  Entry = main
  Programs <- MCPrograms
  ModulesMax = 3
  MaxImports = 2
  NoModule = NoModule
INVARIANT ImportsReady
