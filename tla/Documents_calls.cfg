\* Two threads, symbols and diagnostics, changes through the buffer and outside
CONSTANTS
  Threads = {t1, t2}
  Kinds = {"symbols", "diagnostics"}
  Texts = {1, 2}
  Faulty = {1}
  MaxEffort = 4
  MaxPublished = 2
SPECIFICATION Spec
SYMMETRY Symmetry
INVARIANTS TypeOK CachesAreTruthful SymbolsAreCurrent DiagnosticsAreCurrent
PROPERTIES NoErrorsOverlooked
CHECK_DEADLOCK FALSE
