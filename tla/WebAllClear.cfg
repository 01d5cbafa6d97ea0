\* One tab scans and opens the patch-gap page after a restart.
CONSTANTS
  t1 = t1
  t2 = t2
  Tabs = {t1}
  Posts = {"scan", "live"}
  Gets = {"patch"}
  Sizes = {0, 1}
  Flags = {TRUE, FALSE}
  MaxReports = 2
SPECIFICATION Spec
INVARIANTS
  NoFalseAllClear
