\* Two tabs scan, export a rule and open the patch page; the server restarts.
CONSTANTS
  t1 = t1
  t2 = t2
  Tabs = {t1, t2}
  Posts = {"scan", "live"}
  Gets = {"patch", "semgrep"}
  Sizes = {1}
  Flags = {FALSE}
  MaxReports = 2
SPECIFICATION Spec
SYMMETRY TabSymmetry
INVARIANTS
  TypeOK
  ShownIsOwnScan
  NoneNeverRead
  ReadsGoForward
PROPERTIES
  ExportsAreAtomic
