\* Two updates cross, die and repeat while a scan reads the file.
CONSTANTS
  u1 = u1
  u2 = u2
  Updaters <- MCUpdaters
  Scans = {s1}
  CVEs = {c1}
  Size <- MCSize
  NumReads = 1
  TTL = 2
  MaxNow = 3
SPECIFICATION Spec
SYMMETRY UpdaterSymmetry
INVARIANTS
  TypeOK
  AnswersFetchedAndFresh
  QuietDbServed
