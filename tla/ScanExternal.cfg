\* Engines that overlap on one line, fail, or find nothing.
CONSTANTS
  site1 = site1
  site2 = site2
  Sites = {site1, site2}
  EngineSites = {site1}
  Files = {"file1", "file2"}
  FileOf <- MCFileOf
  CocciRules <- MCCocciRules
  SemgrepRules <- MCSemgrepRules
  Visits <- MCVisits
  CVEs = {"CVE-2022-0847", "CVE-2022-2590"}
  NoCve = NoCve
  CveOf <- MCCveOf
  Recognised <- MCRecognised
  MaxHits = 2
SPECIFICATION Spec
INVARIANTS
  TypeOK
  IdsCarried
  NotItsOwnOther
  RichestKept
  OwnMitigationExonerates
  EmptyMeansTried
CHECK_DEADLOCK FALSE
