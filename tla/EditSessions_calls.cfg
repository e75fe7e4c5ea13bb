\* Two threads and two files; two edits, or an edit, a reading call and a write or a removal
\* by another program, or a rename and one of these
CONSTANTS
  Threads = {t1, t2}
  Files = {f, g}
  Ops = {"overview", "define", "replace", "before", "after", "rename"}
  MaxEffort = 4
SYMMETRY Symmetry
SPECIFICATION Spec
INVARIANTS TypeOK SharedBuffer  ProtocolKept MirrorMatches  NothingLeftOpen
CHECK_DEADLOCK FALSE
